------------------------------ MODULE MCStore ------------------------------
(* Instance of Store for TLC: clients, ids and values are interchangeable. *)
EXTENDS Store, TLC

Symmetry == Permutations(Clients) \cup Permutations(Ids) \cup Permutations(Values)
=============================================================================
