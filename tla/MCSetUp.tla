------------------------------- MODULE MCSetUp -------------------------------
(***************************************************************************)
(* The instance of SetUp that TLC checks.                                  *)
(***************************************************************************)
EXTENDS SetUp

\* The length of a column: it varies, or it is some bytes.
MixedLens == {-1, 2, 3}
=============================================================================
