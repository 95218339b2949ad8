------------------------------ MODULE MCFrames ------------------------------
(* Frames on a few threads and parts.                                      *)
EXTENDS FramesInv
=============================================================================
