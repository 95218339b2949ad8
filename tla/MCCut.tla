------------------------------- MODULE MCCut -------------------------------
(* Cut and its rule on small trees: TLC gives the constants in the cfgs.   *)
EXTENDS CutRule
=============================================================================
