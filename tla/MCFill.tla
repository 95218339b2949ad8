------------------------------- MODULE MCFill -------------------------------
(* Fill with short texts.                                                  *)
EXTENDS FillInv

TwoTexts == {<<"a">>, <<"b", "c">>}
=============================================================================
