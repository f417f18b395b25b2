------------------------------ MODULE MCRestarts ------------------------------
(* Restarts with one message in flight at a time. *)
EXTENDS Restarts

Provider == {1}
AllDefs == Defs
None == {}
=============================================================================
