---------------------------- MODULE StartBarrier ----------------------------
(***************************************************************************)
(* What programs that talk to each other need at the start: none of them   *)
(* runs before all are ready, because a program that waits for one that is *)
(* still being set up would be charged for it.  The barrier opens or       *)
(* breaks, once; who has not passed it when it breaks never runs.          *)
(***************************************************************************)
CONSTANT Party

VARIABLES at,     \* where each party stands
          gate    \* "closed", "open" or "broken"

bvars == <<at, gate>>

Init == at = [p \in Party |-> "setup"] /\ gate = "closed"

Ready(p) == at[p] = "setup" /\ at' = [at EXCEPT ![p] = "ready"] /\ UNCHANGED gate

\* The last party to become ready opens the gate.
Open(p) ==
    /\ gate = "closed" /\ at[p] = "setup" /\ \A q \in Party \ {p} : at[q] = "ready"
    /\ at' = [at EXCEPT ![p] = "ready"] /\ gate' = "open"

Break == gate = "closed" /\ gate' = "broken" /\ UNCHANGED at

Pass(p) ==
    /\ gate = "open" /\ at[p] = "ready" /\ at' = [at EXCEPT ![p] = "running"]
    /\ UNCHANGED gate

Leave(p) == at[p] # "gone" /\ at' = [at EXCEPT ![p] = "gone"] /\ UNCHANGED gate

Next == Break \/ \E p \in Party : Ready(p) \/ Open(p) \/ Pass(p) \/ Leave(p)

Spec == Init /\ [][Next]_bvars
=============================================================================
