------------------------------ MODULE MCTodos -------------------------------
(***************************************************************************)
(* Todos on small instances: ids and requests are interchangeable.         *)
(***************************************************************************)
EXTENDS Todos, TLC

Interchangeable == Permutations(Ids) \cup Permutations(Requests)
=============================================================================
