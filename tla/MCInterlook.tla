----------------------------- MODULE MCInterlook -----------------------------
(* Interlook on small instances. *)
EXTENDS Interlook

Provider == {1}
Second == {2}
SecondKeeps == Second \X {"add", "delete"}
None == {}
Several == Defs \ {Bare}

\* The runs without faults: extensions succeed, in time.
CalmInterlookSpec == InterlookInit /\ [][InterlookNext /\ Calm]_allVars
CalmFairSpec == CalmInterlookSpec /\ InterlookFairness
=============================================================================
