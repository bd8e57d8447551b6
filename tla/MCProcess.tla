----------------------------- MODULE MCProcess -----------------------------
(* Process for TLC: the exit codes a run tells apart. *)
EXTENDS Process

OneCode == {"ok"}
TwoCodes == {"ok", "error"}
=============================================================================
