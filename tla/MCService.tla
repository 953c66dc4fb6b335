------------------------------ MODULE MCService ------------------------------
(* Instances of Service for TLC. *)
EXTENDS Service, TLC

CONSTANTS c1, c2, ra, rb

Open(root) == [op |-> "open", root |-> root, id |-> 0]
UseFirst == [op |-> "use", root |-> "none", id |-> 1]

(* Two opens of one root, two opens of two roots, and an open and a use. *)
AskPairs == {asked \in [Callers -> {Open(ra), Open(rb), UseFirst}] :
               \E c \in Callers : asked[c] # UseFirst}

Symmetry == Permutations(Callers) \cup Permutations(Roots)
=============================================================================
