------------------------------- MODULE MCScan -------------------------------
(* Scan on small directories: TLC gives the constants in the cfgs.         *)
EXTENDS Scan
=============================================================================
