------------------------------ MODULE SlotPool ------------------------------
(***************************************************************************)
(* What the run queue promises its callers: a pool of Capacity slots and a *)
(* first-come-first-served line in front of it.  A slot that is given up   *)
(* goes straight to the head of the line; it becomes free only when the    *)
(* line is empty, and nobody joins the line while a slot is free.          *)
(***************************************************************************)
EXTENDS Naturals, Sequences, FiniteSets

CONSTANTS Clients,   \* who may ask for a slot
          Capacity   \* number of slots

VARIABLES holders,   \* the clients that occupy a slot
          line       \* the clients waiting, longest wait first

vars == <<holders, line>>

Waiting == {line[i] : i \in DOMAIN line}

Init == holders = {} /\ line = <<>>

\* Take a free slot at once.
Enter(c) ==
    /\ c \notin holders \cup Waiting
    /\ Cardinality(holders) < Capacity
    /\ holders' = holders \cup {c}
    /\ UNCHANGED line

\* Every slot is taken: wait behind everybody already waiting.
Join(c) ==
    /\ c \notin holders \cup Waiting
    /\ Cardinality(holders) >= Capacity
    /\ line' = Append(line, c)
    /\ UNCHANGED holders

\* Stop waiting; the order of the others is kept.
Abandon(i) ==
    /\ line' = SubSeq(line, 1, i - 1) \o SubSeq(line, i + 1, Len(line))
    /\ UNCHANGED holders

\* Give the slot up, to the head of the line if there is one.
Leave(c) ==
    /\ c \in holders
    /\ \/ /\ line = <<>>
          /\ holders' = holders \ {c}
          /\ UNCHANGED line
       \/ /\ line # <<>>
          /\ holders' = (holders \ {c}) \cup {Head(line)}
          /\ line' = Tail(line)

Next ==
    \/ \E c \in Clients : Enter(c) \/ Join(c) \/ Leave(c)
    \/ \E i \in DOMAIN line : Abandon(i)

Spec == Init /\ [][Next]_vars
=============================================================================
