--------------------------- MODULE MCSearchCache ---------------------------
(***************************************************************************)
(* Instances of SearchCache for TLC.  Clients, ids and keys are            *)
(* interchangeable.                                                        *)
(***************************************************************************)
EXTENDS SearchCache, TLC

Symmetry == Permutations(Clients) \cup Permutations(Ids) \cup Permutations(Keys)
=============================================================================
