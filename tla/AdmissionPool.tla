--------------------------- MODULE AdmissionPool ---------------------------
(***************************************************************************)
(* What an admission limit promises: at most Capacity members at a time,   *)
(* and at most Share of them for one principal; 0 means unlimited.         *)
(***************************************************************************)
EXTENDS Integers, FiniteSets

CONSTANTS Callers, PrincipalOf, Capacity, Share

VARIABLE holders   \* the callers that are inside

SamePrincipal(c) == {d \in holders : PrincipalOf[d] = PrincipalOf[c]}

CanEnter(c) ==
    /\ c \notin holders
    /\ Capacity > 0 => Cardinality(holders) < Capacity
    /\ Share > 0 => Cardinality(SamePrincipal(c)) < Share

Init == holders = {}

Enter(c) == CanEnter(c) /\ holders' = holders \cup {c}

Leave(c) == c \in holders /\ holders' = holders \ {c}

Next == \E c \in Callers : Enter(c) \/ Leave(c)

Spec == Init /\ [][Next]_holders
=============================================================================
