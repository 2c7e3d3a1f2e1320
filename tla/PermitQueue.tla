---------------------------- MODULE PermitQueue ----------------------------
(***************************************************************************)
(* The bounded run queue of internal/queue: Manager and Permit.            *)
(*                                                                         *)
(* Every critical section of Manager.mu or Permit.mu is one action, and so *)
(* is every context check that Permit.Wait makes outside a lock, so the    *)
(* gaps between "the context was checked", "the channel was closed" and    *)
(* "the state was read" are all interleaving points.  A permit has an      *)
(* owner, which acquires it, waits and releases; a permit that is shared   *)
(* has a peer goroutine too, which may call Cancel or Release once at any  *)
(* moment.                                                                 *)
(***************************************************************************)
EXTENDS Integers, Sequences, FiniteSets, SequencesExt

CONSTANTS Permits,      \* the permits of one behaviour
          Shared,       \* those that a peer goroutine knows too
          MaxActive,    \* the configured number of concurrent runs
          MaxPending    \* the configured length of the line, 0 = unlimited

ASSUME ConfigAssumption == MaxActive \in Int /\ MaxPending \in Int
ASSUME PermitsAssumption == IsFiniteSet(Permits) /\ Shared \subseteq Permits

VARIABLES active,    \* Manager.active
          waiters,   \* Manager.waiters, as the permits of its entries
          state,     \* Permit.state; "none" before Acquire creates the permit
          queued,    \* permits whose entry is not nil
          closed,    \* permits whose entry channel has been closed
          position,  \* Permit.position
          once,      \* permits whose sync.Once has fired
          ctxDone,   \* permits whose Wait context has been cancelled
          owner,     \* where the owning goroutine stands
          peer       \* where the concurrent caller of Cancel / Release stands

vars == <<active, waiters, state, queued, closed, position, once, ctxDone,
          owner, peer>>

\* New replaces an unusable configuration by the smallest usable one.
maxActive  == IF MaxActive < 1 THEN 1 ELSE MaxActive
maxPending == IF MaxPending < 0 THEN 0 ELSE MaxPending

States == {"none", "pending", "granted", "acquired", "canceled", "released"}

OwnerSteps == {"new", "have", "nilState", "nilCtx", "select", "woken", "grant",
               "cancel", "running", "giveBack", "end"}
PeerSteps  == {"idle", "giveBack", "end"}

Init ==
    /\ active = 0
    /\ waiters = <<>>
    /\ state = [p \in Permits |-> "none"]
    /\ queued = {}
    /\ closed = {}
    /\ position = [p \in Permits |-> 0]
    /\ once = {}
    /\ ctxDone = {}
    /\ owner = [p \in Permits |-> "new"]
    /\ peer = [p \in Permits |-> "idle"]

OwnerAt(p, from, to) ==
    /\ owner[p] = from
    /\ owner' = [owner EXCEPT ![p] = to]

-----------------------------------------------------------------------------
(* Manager.Acquire *)

AcquireNow(p) ==
    /\ OwnerAt(p, "new", "have")
    /\ active < maxActive
    /\ active' = active + 1
    /\ state' = [state EXCEPT ![p] = "acquired"]
    /\ UNCHANGED <<waiters, queued, closed, position, once, ctxDone, peer>>

AcquireFull(p) ==
    /\ OwnerAt(p, "new", "end")
    /\ active >= maxActive
    /\ maxPending > 0 /\ Len(waiters) >= maxPending
    /\ UNCHANGED <<active, waiters, state, queued, closed, position, once,
                   ctxDone, peer>>

AcquireQueued(p) ==
    /\ OwnerAt(p, "new", "have")
    /\ active >= maxActive
    /\ ~(maxPending > 0 /\ Len(waiters) >= maxPending)
    /\ position' = [position EXCEPT ![p] = Len(waiters) + 1]
    /\ waiters' = Append(waiters, p)
    /\ queued' = queued \cup {p}
    /\ state' = [state EXCEPT ![p] = "pending"]
    /\ UNCHANGED <<active, closed, once, ctxDone, peer>>

-----------------------------------------------------------------------------
(* Manager.cancel and Manager.release, the two lock-protected transitions   *)
(* that Wait, Cancel and Release are built from.                            *)

HoldsSlot(p) == state[p] \in {"granted", "acquired"}

\* Mutant: the channel of a cancelled waiter is never closed.
CancelPermit_NoClose(p) ==
    /\ UNCHANGED <<active, position, queued, once, closed>>
    /\ waiters' = SelectSeq(waiters, LAMBDA q : q # p)
    /\ state' = IF state[p] \in {"pending", "granted", "acquired"}
                THEN [state EXCEPT ![p] = "canceled"] ELSE state

\* Mutant: a cancelled waiter stays in the line.
CancelPermit_KeepsPlace(p) ==
    /\ UNCHANGED <<active, position, queued, once, waiters>>
    /\ state' = IF state[p] \in {"pending", "granted", "acquired"}
                THEN [state EXCEPT ![p] = "canceled"] ELSE state
    /\ closed' = IF state[p] = "pending" THEN closed \cup {p} ELSE closed

\* Manager.cancel: the caller must give the slot back iff HoldsSlot(p) held.
CancelPermit(p) ==
    /\ UNCHANGED <<active, position, queued, once>>
    /\ \/ /\ state[p] = "pending"
          /\ \E i \in DOMAIN waiters :
                waiters[i] = p /\ waiters' = RemoveAt(waiters, i)
          /\ state' = [state EXCEPT ![p] = "canceled"]
          /\ closed' = closed \cup {p}
       \/ /\ HoldsSlot(p)
          /\ state' = [state EXCEPT ![p] = "canceled"]
          /\ UNCHANGED <<waiters, closed>>
       \/ /\ state[p] \in {"canceled", "released"}
          /\ UNCHANGED <<waiters, closed, state>>

\* Mutant: the slot is freed and nobody is told.
ReleaseSlot_NoHandOver ==
    /\ active' = IF active > 0 THEN active - 1 ELSE active
    /\ UNCHANGED <<waiters, state, closed>>

\* Mutant: the last to arrive is served first.
ReleaseSlot_LastFirst ==
    IF waiters = <<>>
    THEN /\ active' = IF active > 0 THEN active - 1 ELSE active
         /\ UNCHANGED <<waiters, state, closed>>
    ELSE /\ waiters' = Front(waiters)
         /\ state' = [state EXCEPT ![Last(waiters)] = "granted"]
         /\ closed' = closed \cup {Last(waiters)}
         /\ UNCHANGED active

\* Manager.release: the first waiter that is still pending inherits the slot.
ReleaseSlot ==
    LET live == {i \in DOMAIN waiters : state[waiters[i]] = "pending"}
        next == CHOOSE i \in live : \A j \in live : i <= j
    IN  \/ /\ live # {}
           /\ waiters' = SubSeq(waiters, next + 1, Len(waiters))
           /\ state' = [state EXCEPT ![waiters[next]] = "granted"]
           /\ closed' = closed \cup {waiters[next]}
           /\ UNCHANGED active
        \/ /\ live = {}
           /\ waiters' = <<>>
           /\ active' = IF active > 0 THEN active - 1 ELSE active
           /\ UNCHANGED <<state, closed>>

\* p.once.Do(release)
GiveBackOnce(p) ==
    /\ \/ p \notin once /\ ReleaseSlot
       \/ p \in once /\ UNCHANGED <<active, waiters, state, closed>>
    /\ once' = once \cup {p}
    /\ UNCHANGED <<queued, position, ctxDone>>

-----------------------------------------------------------------------------
(* Permit.Wait *)

WaitEnter(p) ==
    /\ OwnerAt(p, "have", IF p \in ctxDone THEN "cancel"
                          ELSE IF p \in queued THEN "select" ELSE "nilState")
    /\ UNCHANGED <<active, waiters, state, queued, closed, position, once,
                   ctxDone, peer>>

WaitNilState(p) ==
    /\ OwnerAt(p, "nilState", IF state[p] = "acquired" THEN "nilCtx" ELSE "end")
    /\ UNCHANGED <<active, waiters, state, queued, closed, position, once,
                   ctxDone, peer>>

WaitNilCtx(p) ==
    /\ OwnerAt(p, "nilCtx", IF p \in ctxDone THEN "cancel" ELSE "running")
    /\ UNCHANGED <<active, waiters, state, queued, closed, position, once,
                   ctxDone, peer>>

\* Both cases of the select may be ready: Go takes either.
WaitSelect(p) ==
    /\ \/ p \in closed  /\ OwnerAt(p, "select", "woken")
       \/ p \in ctxDone /\ OwnerAt(p, "select", "cancel")
    /\ UNCHANGED <<active, waiters, state, queued, closed, position, once,
                   ctxDone, peer>>

WaitWoken(p) ==
    /\ OwnerAt(p, "woken", IF p \in ctxDone THEN "cancel" ELSE "grant")
    /\ UNCHANGED <<active, waiters, state, queued, closed, position, once,
                   ctxDone, peer>>

WaitGrant(p) ==
    /\ OwnerAt(p, "grant", IF HoldsSlot(p) THEN "running" ELSE "end")
    /\ state' = IF HoldsSlot(p) THEN [state EXCEPT ![p] = "acquired"] ELSE state
    /\ UNCHANGED <<active, waiters, queued, closed, position, once, ctxDone,
                   peer>>

\* Mutant: a Wait that gives up after the grant keeps the slot.
WaitCancel_KeepsSlot(p) ==
    /\ OwnerAt(p, "cancel", "end")
    /\ CancelPermit(p)
    /\ UNCHANGED <<ctxDone, peer>>

\* Permit.Cancel as Wait calls it, up to the give-back.
WaitCancel(p) ==
    /\ OwnerAt(p, "cancel", IF HoldsSlot(p) THEN "giveBack" ELSE "end")
    /\ CancelPermit(p)
    /\ UNCHANGED <<ctxDone, peer>>

\* Permit.Release by the owner when its run is over.
Release(p) ==
    /\ OwnerAt(p, "running", IF HoldsSlot(p) THEN "giveBack" ELSE "end")
    /\ state' = IF HoldsSlot(p) THEN [state EXCEPT ![p] = "released"] ELSE state
    /\ UNCHANGED <<active, waiters, queued, closed, position, once, ctxDone,
                   peer>>

OwnerGiveBack(p) ==
    /\ OwnerAt(p, "giveBack", "end")
    /\ GiveBackOnce(p)
    /\ UNCHANGED peer

-----------------------------------------------------------------------------
(* The concurrent caller, and the context. *)

PeerCancel(p) ==
    /\ p \in Shared /\ peer[p] = "idle" /\ state[p] # "none"
    /\ peer' = [peer EXCEPT ![p] = IF HoldsSlot(p) THEN "giveBack" ELSE "end"]
    /\ CancelPermit(p)
    /\ UNCHANGED <<ctxDone, owner>>

PeerRelease(p) ==
    /\ p \in Shared /\ peer[p] = "idle" /\ state[p] # "none"
    /\ peer' = [peer EXCEPT ![p] = IF HoldsSlot(p) THEN "giveBack" ELSE "end"]
    /\ state' = IF HoldsSlot(p) THEN [state EXCEPT ![p] = "released"] ELSE state
    /\ UNCHANGED <<active, waiters, queued, closed, position, once, ctxDone,
                   owner>>

PeerGiveBack(p) ==
    /\ peer[p] = "giveBack"
    /\ peer' = [peer EXCEPT ![p] = "end"]
    /\ GiveBackOnce(p)
    /\ UNCHANGED owner

ContextDone(p) ==
    /\ p \notin ctxDone
    /\ ctxDone' = ctxDone \cup {p}
    /\ UNCHANGED <<active, waiters, state, queued, closed, position, once,
                   owner, peer>>

-----------------------------------------------------------------------------
OwnerStep(p) ==
    \/ WaitEnter(p) \/ WaitNilState(p) \/ WaitNilCtx(p) \/ WaitSelect(p)
    \/ WaitWoken(p) \/ WaitGrant(p) \/ WaitCancel(p) \/ Release(p)
    \/ OwnerGiveBack(p)

Next ==
    \E p \in Permits :
        \/ AcquireNow(p) \/ AcquireFull(p) \/ AcquireQueued(p)
        \/ OwnerStep(p)
        \/ PeerCancel(p) \/ PeerRelease(p) \/ PeerGiveBack(p)
        \/ ContextDone(p)

\* A goroutine that can run does run, and a run comes to an end (every run has
\* a wall-clock limit); nobody is obliged to arrive, to cancel or to interfere.
Fairness == \A p \in Permits : WF_vars(OwnerStep(p)) /\ WF_vars(PeerGiveBack(p))

Spec == Init /\ [][Next]_vars
FairSpec == Spec /\ Fairness

-----------------------------------------------------------------------------
(* Properties *)

\* Every variable stays in its range.
TypeOK ==
    /\ active \in Nat
    /\ waiters \in Seq(Permits)
    /\ state \in [Permits -> States]
    /\ queued \subseteq Permits
    /\ closed \subseteq Permits
    /\ position \in [Permits -> Nat]
    /\ once \subseteq Permits
    /\ ctxDone \subseteq Permits
    /\ owner \in [Permits -> OwnerSteps]
    /\ peer \in [Permits -> PeerSteps]

\* A caller has taken the permit's slot away but has not yet returned it.
Returning(p) == owner[p] = "giveBack" \/ peer[p] = "giveBack"

Holders == {p \in Permits : HoldsSlot(p) \/ Returning(p)}

\* Manager.active counts exactly the slots that are held or on their way back,
\* and never exceeds the limit: whatever Wait, Cancel, Release and the context
\* race to do, no slot is lost and none is handed out twice.
SlotConservation ==
    /\ active = Cardinality(Holders)
    /\ active <= maxActive

\* A request never waits while a slot is free.
WorkConserving == waiters # <<>> => active = maxActive

\* A queued permit's channel is closed exactly when its fate is decided: a
\* goroutine blocked in Wait is not left asleep, and no channel is closed twice.
ClosedIffDecided == closed = {p \in queued : state[p] # "pending"}

\* No slot is granted to a request while an earlier one still waits for one.
NoOvertaking ==
    [][\A i, j \in DOMAIN waiters :
          (i < j /\ state'[waiters[j]] = "granted") =>
              state'[waiters[i]] # "pending"]_vars

\* Wait returns: a goroutine blocked on its entry ends up running or returns an
\* error, even when Cancel and the grant race.
WaitReturns ==
    \A p \in Permits : owner[p] = "select" ~> owner[p] \in {"running", "end"}

\* The queue implements a slot pool with a first-come-first-served line.
Pool == INSTANCE SlotPool WITH
            Clients <- Permits, Capacity <- maxActive,
            holders <- Holders, line <- waiters

ImplementsSlotPool == Pool!Spec
=============================================================================
