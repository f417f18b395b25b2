------------------------------ MODULE MCEngine ------------------------------
(* WorkflowEngine on small instances. *)
EXTENDS EngineLifecycle, TLC

Provider == {1}
None == {}
Last == {2}
AllDefs == Defs

\* Handlers and entries are interchangeable.
Symmetry == Permutations(Services) \cup Permutations(Handlers) \cup Permutations(Entries)
=============================================================================
