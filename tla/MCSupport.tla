------------------------------ MODULE MCSupport ------------------------------
(***************************************************************************)
(* The instance of Support that TLC checks.                                *)
(***************************************************************************)
EXTENDS Support

\* Both sides of a full second, and times between.
BoundaryInstants ==
    {<<0, 0>>, <<0, 1>>, <<0, 499999999>>, <<0, 500000000>>, <<0, 999999999>>,
     <<1, 0>>, <<1, 499999999>>, <<1, 999999999>>, <<2, 0>>, <<2, 100000000>>}
=============================================================================
