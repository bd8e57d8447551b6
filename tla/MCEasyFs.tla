------------------------------ MODULE MCEasyFs ------------------------------
(* EasyFs with constants that a configuration file cannot write.           *)
EXTENDS EasyFs

\* The ends of each level: two units of direct, four of indirect1, eight of
\* indirect2; across blocks, behind the end of the file, and behind the last
\* place that there is.
MCWrites == {<<1, 3>>, <<3, 4>>, <<9, 4>>, <<14, 1>>}
=============================================================================
