----------------------------- MODULE VectorSlots -----------------------------
(* What the vector file promises the index that keeps its vectors in it: each *)
(* node's vector is what was last written for that node, whatever happens to  *)
(* the others, until the node gives it up or the index loses its slots.       *)
CONSTANTS Holders, Values

VARIABLE held  \* the vector of each node that has a slot

Init == held = [n \in {} |-> {}]

\* A node without a slot gets one, with whatever the file holds there.
Take == \E n \in Holders \ DOMAIN held, v \in Values :
           held' = [m \in DOMAIN held \cup {n} |-> IF m = n THEN v ELSE held[m]]

Put == \E n \in DOMAIN held, v \in Values : held' = [held EXCEPT ![n] = v]

Give == \E n \in DOMAIN held : held' = [m \in DOMAIN held \ {n} |-> held[m]]

\* The process dies, or stops without having saved which slots are taken.
Forget == held' = [n \in {} |-> {}]

Next == Forget \/ Take \/ Put \/ Give

Spec == Init /\ [][Next]_held
==============================================================================
