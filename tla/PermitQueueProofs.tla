------------------------- MODULE PermitQueueProofs -------------------------
(***************************************************************************)
(* Machine-checked proofs about PermitQueue, for every set of permits and  *)
(* every configuration.                                                    *)
(*                                                                         *)
(* Slot conservation is not inductive by itself: that a give-back is made  *)
(* exactly once per slot rests on who is entitled to make it (GiveBackOK), *)
(* and that a hand-over gives the slot to somebody who does not have one   *)
(* rests on the line holding exactly undecided permits (LineOK).           *)
(***************************************************************************)
EXTENDS PermitQueue, TLAPS, FiniteSetTheorems, SequenceTheorems

\* Where a permit is in its life, and who still has a give-back to make.
GiveBackOK ==
    \A p \in Permits :
        /\ Returning(p) => state[p] \in {"canceled", "released"} /\ p \notin once
        /\ ~(owner[p] = "giveBack" /\ peer[p] = "giveBack")
        /\ state[p] \in {"none", "pending", "granted", "acquired"} => p \notin once

\* A permit that was not created yet has left no trace.
CreatedOK ==
    \A p \in Permits :
        /\ state[p] = "none" => p \notin queued /\ peer[p] = "idle"
        /\ owner[p] = "new" => state[p] = "none"
        /\ state[p] = "pending" => p \in queued

\* The line holds pending permits, each once.
LineOK ==
    /\ \A i \in DOMAIN waiters : state[waiters[i]] = "pending"
    /\ \A i, j \in DOMAIN waiters : waiters[i] = waiters[j] => i = j

IInv ==
    /\ TypeOK
    /\ GiveBackOK
    /\ CreatedOK
    /\ LineOK
    /\ ClosedIffDecided
    /\ SlotConservation
    /\ WorkConserving

\* What a step looks like from the slot pool's side.
PoolStep == Pool!Next \/ (Holders' = Holders /\ waiters' = waiters)

-----------------------------------------------------------------------------
(* Facts about sequences and cardinalities. *)

\* Removing one element keeps the others, in order.
LEMMA RemoveAtFacts ==
    ASSUME NEW S, NEW s \in Seq(S), NEW i \in 1 .. Len(s)
    PROVE  /\ RemoveAt(s, i) \in Seq(S)
           /\ Len(RemoveAt(s, i)) = Len(s) - 1
           /\ \A j \in 1 .. Len(s) - 1 :
                 RemoveAt(s, i)[j] = IF j < i THEN s[j] ELSE s[j + 1]
  <1> DEFINE a == SubSeq(s, 1, i - 1)
             b == SubSeq(s, i + 1, Len(s))
  <1>1. /\ a \in Seq(S) /\ Len(a) = i - 1
        /\ \A j \in 1 .. i - 1 : a[j] = s[j]
    OBVIOUS
  <1>2. /\ b \in Seq(S) /\ Len(b) = Len(s) - i
        /\ \A j \in 1 .. Len(s) - i : b[j] = s[j + i]
    OBVIOUS
  <1>3. RemoveAt(s, i) = a \o b
    BY DEF RemoveAt
  <1> HIDE DEF a, b
  <1>4. /\ a \o b \in Seq(S)
        /\ Len(a \o b) = Len(a) + Len(b)
        /\ \A j \in 1 .. Len(a) + Len(b) :
              (a \o b)[j] = IF j <= Len(a) THEN a[j] ELSE b[j - Len(a)]
    BY <1>1, <1>2, ConcatProperties
  <1>5. ASSUME NEW j \in 1 .. Len(s) - 1
        PROVE  (a \o b)[j] = IF j < i THEN s[j] ELSE s[j + 1]
    <2> DEFINE n == Len(s)
    <2>1. n \in Nat /\ i \in 1 .. n /\ j \in 1 .. n - 1
      OBVIOUS
    <2>2. (a \o b)[j] = IF j <= i - 1 THEN a[j] ELSE b[j - (i - 1)]
      BY <1>1, <1>2, <1>4, <2>1
    <2>3. j <= i - 1 => a[j] = s[j]
      BY <1>1, <2>1
    <2>4. j > i - 1 => b[j - (i - 1)] = s[j + 1]
      <3> SUFFICES ASSUME j > i - 1 PROVE b[j - (i - 1)] = s[j + 1]
        OBVIOUS
      <3>1. j - (i - 1) \in 1 .. Len(s) - i /\ j - (i - 1) + i = j + 1
        BY <2>1
      <3> QED
        BY <3>1, <1>2
    <2> HIDE DEF n
    <2> QED
      BY <2>1, <2>2, <2>3, <2>4
  <1> QED
    BY <1>1, <1>2, <1>3, <1>4, <1>5

\* Dropping the first element keeps the rest, in order.
LEMMA DropFirstFacts ==
    ASSUME NEW S, NEW s \in Seq(S), Len(s) >= 1
    PROVE  /\ SubSeq(s, 2, Len(s)) \in Seq(S)
           /\ Len(SubSeq(s, 2, Len(s))) = Len(s) - 1
           /\ \A j \in 1 .. Len(s) - 1 : SubSeq(s, 2, Len(s))[j] = s[j + 1]
  <1>1. SubSeq(s, 2, Len(s)) \in Seq(S) /\ Len(SubSeq(s, 2, Len(s))) = Len(s) - 1
    OBVIOUS
  <1>2. ASSUME NEW j \in 1 .. Len(s) - 1
        PROVE  SubSeq(s, 2, Len(s))[j] = s[j + 1]
    OBVIOUS
  <1> QED
    BY <1>1, <1>2

\* The holders are finite, so counting them makes sense.
LEMMA HoldersFinite == IsFiniteSet(Holders) /\ Cardinality(Holders) \in Nat
  BY PermitsAssumption, FS_Subset, FS_CardinalityType DEF Holders

\* The instance of SlotPool counts as this module does.
LEMMA PoolCounts == Pool!Cardinality(Holders) = Cardinality(Holders)
  BY DEF Pool!Cardinality, Cardinality

\* The configuration New keeps is usable.
LEMMA LimitsFacts == maxActive \in Nat /\ maxActive >= 1 /\ maxPending \in Nat
  BY ConfigAssumption DEF maxActive, maxPending

-----------------------------------------------------------------------------
(* Initiality. *)

\* A new Manager satisfies the invariant.
LEMMA InitIInv == Init => IInv
  <1> SUFFICES ASSUME Init PROVE IInv
    OBVIOUS
  <1> USE DEF Init
  <1>1. TypeOK
    BY DEF TypeOK, States, OwnerSteps, PeerSteps
  <1>2. GiveBackOK /\ CreatedOK /\ LineOK /\ ClosedIffDecided /\ WorkConserving
    BY DEF GiveBackOK, CreatedOK, LineOK, ClosedIffDecided, WorkConserving, Returning
  <1>3. SlotConservation
    <2>1. Holders = {}
      BY DEF Holders, HoldsSlot, Returning
    <2> QED
      BY <2>1, FS_EmptySet, LimitsFacts DEF SlotConservation
  <1> QED
    BY <1>1, <1>2, <1>3 DEF IInv

-----------------------------------------------------------------------------
(* Steps that leave the holders of slots as they are. *)

\* When the same permits hold slots, active, the line and the limit agree.
LEMMA SameHolders ==
    ASSUME IInv, Holders' = Holders, UNCHANGED active,
           waiters' = <<>> \/ waiters # <<>>
    PROVE  SlotConservation' /\ WorkConserving'
  BY DEF IInv, SlotConservation, WorkConserving, maxActive

\* A goroutine moves on inside Wait without touching shared state.
LEMMA QuietStep ==
    ASSUME IInv, NEW p \in Permits, NEW from \in OwnerSteps, NEW to \in OwnerSteps,
           OwnerAt(p, from, to), from \notin {"new", "giveBack"},
           to \notin {"new", "giveBack"},
           UNCHANGED <<active, waiters, state, queued, closed, position, once,
                       ctxDone, peer>>
    PROVE  IInv' /\ PoolStep
  <1> USE DEF IInv, OwnerAt
  <1>1. TypeOK'
    BY DEF TypeOK
  <1>2. \A q \in Permits : Returning(q)' = Returning(q)
    BY DEF Returning, TypeOK
  <1>3. Holders' = Holders
    BY <1>2 DEF Holders, HoldsSlot
  <1>4. GiveBackOK' /\ CreatedOK'
    BY <1>2 DEF GiveBackOK, CreatedOK, TypeOK
  <1>5. LineOK' /\ ClosedIffDecided'
    BY DEF LineOK, ClosedIffDecided
  <1> QED
    BY <1>1, <1>3, <1>4, <1>5, SameHolders DEF PoolStep

\* Wait takes note of the grant.
LEMMA WaitGrantStep ==
    ASSUME IInv, NEW p \in Permits, WaitGrant(p)
    PROVE  IInv' /\ PoolStep
  <1> USE DEF IInv, WaitGrant, OwnerAt
  <1>1. TypeOK'
    BY DEF TypeOK, States, OwnerSteps
  <1>2. \A q \in Permits : /\ Returning(q)' = Returning(q)
                           /\ HoldsSlot(q)' = HoldsSlot(q)
    BY DEF Returning, HoldsSlot, TypeOK
  <1>3. Holders' = Holders
    BY <1>2 DEF Holders
  <1>4. GiveBackOK' /\ CreatedOK'
    BY <1>2 DEF GiveBackOK, CreatedOK, HoldsSlot, TypeOK
  <1>5. LineOK' /\ ClosedIffDecided'
    BY DEF LineOK, ClosedIffDecided, HoldsSlot, TypeOK
  <1> QED
    BY <1>1, <1>3, <1>4, <1>5, SameHolders DEF PoolStep

\* A caller takes a held slot away, to give it back next: Release, or Cancel
\* of a granted or acquired permit.
LEMMA TakeAwayStep ==
    ASSUME IInv, NEW p \in Permits, HoldsSlot(p),
           NEW s \in {"canceled", "released"}, state' = [state EXCEPT ![p] = s],
           \/ /\ owner[p] # "new"
              /\ owner' = [owner EXCEPT ![p] = "giveBack"]
              /\ UNCHANGED peer
           \/ /\ peer' = [peer EXCEPT ![p] = "giveBack"]
              /\ UNCHANGED owner,
           UNCHANGED <<active, waiters, queued, closed, position, once, ctxDone>>
    PROVE  IInv' /\ PoolStep
  <1> USE DEF IInv
  <1>1. TypeOK'
    BY DEF TypeOK, States, OwnerSteps, PeerSteps
  <1>2. ~Returning(p) /\ Returning(p)' /\ ~HoldsSlot(p)' /\ p \notin once
    BY DEF GiveBackOK, Returning, HoldsSlot, TypeOK
  <1>3. \A q \in Permits \ {p} : /\ Returning(q)' = Returning(q)
                                /\ state'[q] = state[q]
    BY DEF Returning, TypeOK
  <1>4. Holders' = Holders
    BY <1>2, <1>3 DEF Holders, HoldsSlot
  <1>5. GiveBackOK'
    BY <1>2, <1>3 DEF GiveBackOK, Returning, TypeOK
  <1>6. CreatedOK'
    BY <1>3 DEF CreatedOK, HoldsSlot, TypeOK
  <1>7. LineOK' /\ ClosedIffDecided'
    BY <1>3 DEF LineOK, ClosedIffDecided, HoldsSlot, TypeOK
  <1> QED
    BY <1>1, <1>4, <1>5, <1>6, <1>7, SameHolders DEF PoolStep

\* A caller withdraws a permit that still waits.
LEMMA WithdrawStep ==
    ASSUME IInv, NEW p \in Permits, state[p] = "pending", NEW i \in DOMAIN waiters,
           waiters[i] = p, waiters' = RemoveAt(waiters, i),
           state' = [state EXCEPT ![p] = "canceled"], closed' = closed \cup {p},
           \/ /\ owner[p] # "new"
              /\ owner' = [owner EXCEPT ![p] = "end"]
              /\ UNCHANGED peer
           \/ /\ peer' = [peer EXCEPT ![p] = "end"]
              /\ UNCHANGED owner,
           UNCHANGED <<active, queued, position, once, ctxDone>>
    PROVE  IInv' /\ PoolStep
  <1> USE DEF IInv
  <1>0. waiters \in Seq(Permits) /\ i \in 1 .. Len(waiters)
    BY DEF TypeOK
  <1>1. /\ waiters' \in Seq(Permits)
        /\ Len(waiters') = Len(waiters) - 1
        /\ \A j \in 1 .. Len(waiters) - 1 :
              waiters'[j] = IF j < i THEN waiters[j] ELSE waiters[j + 1]
    <2>1. /\ RemoveAt(waiters, i) \in Seq(Permits)
          /\ Len(RemoveAt(waiters, i)) = Len(waiters) - 1
          /\ \A j \in 1 .. Len(waiters) - 1 :
                RemoveAt(waiters, i)[j] = IF j < i THEN waiters[j] ELSE waiters[j + 1]
      BY ONLY <1>0, RemoveAtFacts
    <2> QED
      BY ONLY <2>1, waiters' = RemoveAt(waiters, i)
  <1>2. TypeOK'
    BY <1>1 DEF TypeOK, States, OwnerSteps, PeerSteps
  <1>3. ~Returning(p) /\ ~Returning(p)' /\ ~HoldsSlot(p) /\ ~HoldsSlot(p)'
    BY DEF GiveBackOK, Returning, HoldsSlot, TypeOK
  <1>4. \A q \in Permits \ {p} : /\ Returning(q)' = Returning(q)
                                /\ state'[q] = state[q]
    BY DEF Returning, TypeOK
  <1>5. Holders' = Holders
    BY <1>3, <1>4 DEF Holders, HoldsSlot
  <1>6. GiveBackOK'
    BY <1>3, <1>4 DEF GiveBackOK, Returning, TypeOK
  <1>7. CreatedOK'
    BY <1>4 DEF CreatedOK, TypeOK
  <1>8. ClosedIffDecided'
    BY <1>4 DEF ClosedIffDecided, CreatedOK, TypeOK
  <1>9. LineOK'
    <2> DEFINE old(j) == IF j < i THEN j ELSE j + 1
    <2>1. DOMAIN waiters = 1 .. Len(waiters) /\ DOMAIN waiters' = 1 .. Len(waiters) - 1
      BY <1>0, <1>1
    <2>2. \A j \in DOMAIN waiters' : /\ old(j) \in DOMAIN waiters
                                    /\ old(j) # i
                                    /\ waiters'[j] = waiters[old(j)]
      BY <1>0, <1>1, <2>1
    <2>3. \A j, k \in DOMAIN waiters' : old(j) = old(k) => j = k
      BY <1>0, <2>1
    <2> HIDE DEF old
    <2>4. \A j \in DOMAIN waiters' : waiters'[j] # p
      BY <2>2 DEF LineOK
    <2>5. \A j \in DOMAIN waiters' : state'[waiters'[j]] = "pending"
      BY <1>0, <1>4, <2>1, <2>2, <2>4 DEF LineOK
    <2>6. \A j, k \in DOMAIN waiters' : waiters'[j] = waiters'[k] => j = k
      BY <2>2, <2>3 DEF LineOK
    <2> QED
      BY <2>5, <2>6 DEF LineOK
  <1>10. waiters # <<>>
    BY DEF TypeOK
  <1>11. Pool!Abandon(i)
    BY <1>5 DEF Pool!Abandon, RemoveAt
  <1>12. PoolStep
    BY <1>11 DEF PoolStep, Pool!Next
  <1> QED
    BY <1>2, <1>5, <1>6, <1>7, <1>8, <1>9, <1>10, <1>12, SameHolders

\* A call that finds nothing to do: Cancel or Release of a decided permit, or
\* an Acquire that is turned away.
LEMMA NothingToDoStep ==
    ASSUME IInv, NEW p \in Permits,
           \/ /\ owner[p] # "giveBack"
              /\ owner' = [owner EXCEPT ![p] = "end"]
              /\ UNCHANGED peer
           \/ /\ peer[p] # "giveBack" /\ state[p] # "none"
              /\ peer' = [peer EXCEPT ![p] = "end"]
              /\ UNCHANGED owner,
           UNCHANGED <<active, waiters, state, queued, closed, position, once,
                       ctxDone>>
    PROVE  IInv' /\ PoolStep
  <1> USE DEF IInv
  <1>1. TypeOK'
    BY DEF TypeOK, OwnerSteps, PeerSteps
  <1>2. \A q \in Permits : Returning(q)' = Returning(q)
    BY DEF Returning, TypeOK
  <1>3. Holders' = Holders
    BY <1>2 DEF Holders, HoldsSlot
  <1>4. GiveBackOK' /\ CreatedOK'
    BY <1>2 DEF GiveBackOK, CreatedOK, TypeOK
  <1>5. LineOK' /\ ClosedIffDecided'
    BY DEF LineOK, ClosedIffDecided
  <1> QED
    BY <1>1, <1>3, <1>4, <1>5, SameHolders DEF PoolStep

\* A request joins the line.
LEMMA AcquireQueuedStep ==
    ASSUME IInv, NEW p \in Permits, AcquireQueued(p)
    PROVE  IInv' /\ PoolStep
  <1> USE DEF IInv, AcquireQueued, OwnerAt
  <1>1. /\ state[p] = "none" /\ peer[p] = "idle" /\ p \notin once /\ p \notin queued
        /\ ~Returning(p) /\ ~Returning(p)' /\ ~HoldsSlot(p) /\ ~HoldsSlot(p)'
    BY DEF CreatedOK, GiveBackOK, Returning, HoldsSlot, TypeOK
  <1>2. /\ waiters \in Seq(Permits) /\ waiters' \in Seq(Permits)
        /\ DOMAIN waiters = 1 .. Len(waiters) /\ Len(waiters) \in Nat
        /\ DOMAIN waiters' = 1 .. Len(waiters) + 1
        /\ \A j \in 1 .. Len(waiters) : waiters'[j] = waiters[j]
        /\ waiters'[Len(waiters) + 1] = p
    BY DEF TypeOK
  <1>3. TypeOK'
    BY <1>2 DEF TypeOK, States, OwnerSteps
  <1>4. \A q \in Permits \ {p} : /\ Returning(q)' = Returning(q)
                                /\ state'[q] = state[q]
    BY DEF Returning, TypeOK
  <1>5. Holders' = Holders
    BY <1>1, <1>4 DEF Holders, HoldsSlot
  <1>6. GiveBackOK' /\ CreatedOK'
    BY <1>1, <1>4 DEF GiveBackOK, CreatedOK, Returning, TypeOK
  <1>7. ClosedIffDecided'
    BY <1>1, <1>4 DEF ClosedIffDecided, TypeOK
  <1>8. LineOK'
    <2>1. \A j \in 1 .. Len(waiters) : waiters[j] \in Permits /\ waiters[j] # p
      BY <1>1, <1>2 DEF LineOK
    <2>2. \A j \in DOMAIN waiters' : state'[waiters'[j]] = "pending"
      BY <1>2, <1>4, <2>1 DEF LineOK, TypeOK
    <2>3. \A j, k \in DOMAIN waiters' : waiters'[j] = waiters'[k] => j = k
      BY <1>2, <2>1 DEF LineOK
    <2> QED
      BY <2>2, <2>3 DEF LineOK
  <1>9. SlotConservation'
    BY <1>5 DEF SlotConservation, maxActive
  <1>10. WorkConserving'
    BY LimitsFacts DEF WorkConserving, SlotConservation, TypeOK, maxActive
  <1>11. Pool!Join(p)
    <2>1. p \notin Holders \cup Pool!Waiting
      BY <1>1 DEF Holders, Pool!Waiting, LineOK
    <2>2. Cardinality(Holders) >= maxActive
      BY DEF SlotConservation
    <2> QED
      BY <1>5, <2>1, <2>2, PoolCounts DEF Pool!Join
  <1>12. PoolStep
    BY <1>11 DEF PoolStep, Pool!Next
  <1> QED
    BY <1>3, <1>6, <1>7, <1>8, <1>9, <1>10, <1>12

-----------------------------------------------------------------------------
(* Steps that change who holds a slot. *)

\* A free slot is taken.
LEMMA AcquireNowStep ==
    ASSUME IInv, NEW p \in Permits, AcquireNow(p)
    PROVE  IInv' /\ PoolStep
  <1> USE DEF IInv, AcquireNow, OwnerAt
  <1>1. /\ state[p] = "none" /\ peer[p] = "idle" /\ p \notin once /\ p \notin queued
        /\ ~Returning(p) /\ ~Returning(p)' /\ ~HoldsSlot(p) /\ HoldsSlot(p)'
    BY DEF CreatedOK, GiveBackOK, Returning, HoldsSlot, TypeOK
  <1>2. TypeOK'
    BY DEF TypeOK, States, OwnerSteps
  <1>3. \A q \in Permits \ {p} : /\ Returning(q)' = Returning(q)
                                /\ state'[q] = state[q]
    BY DEF Returning, TypeOK
  <1>4. Holders' = Holders \cup {p} /\ p \notin Holders
    BY <1>1, <1>3 DEF Holders, HoldsSlot
  <1>5. SlotConservation'
    <2>1. Cardinality(Holders \cup {p}) = Cardinality(Holders) + 1
      BY <1>4, HoldersFinite, FS_AddElement
    <2> QED
      BY <1>4, <2>1, LimitsFacts DEF SlotConservation, TypeOK, maxActive
  <1>6. GiveBackOK' /\ CreatedOK'
    BY <1>1, <1>3 DEF GiveBackOK, CreatedOK, Returning, TypeOK
  <1>7. waiters = <<>>
    BY LimitsFacts DEF WorkConserving, TypeOK
  <1>8. LineOK' /\ ClosedIffDecided' /\ WorkConserving'
    BY <1>1, <1>3, <1>7 DEF LineOK, ClosedIffDecided, WorkConserving, TypeOK
  <1>9. Pool!Enter(p)
    <2>1. p \notin Holders \cup Pool!Waiting
      BY <1>4, <1>7 DEF Pool!Waiting
    <2>2. Cardinality(Holders) < maxActive
      BY DEF SlotConservation
    <2> QED
      BY <1>4, <2>1, <2>2, PoolCounts DEF Pool!Enter
  <1>10. PoolStep
    BY <1>9 DEF PoolStep, Pool!Next
  <1> QED
    BY <1>2, <1>5, <1>6, <1>8, <1>10

\* With only pending permits in the line, Manager.release either hands the slot
\* to the head of the line or frees it because nobody waits.
LEMMA ReleaseSlotFacts ==
    ASSUME TypeOK, LineOK, ReleaseSlot
    PROVE  \/ /\ waiters # <<>>
              /\ waiters' = SubSeq(waiters, 2, Len(waiters))
              /\ state' = [state EXCEPT ![waiters[1]] = "granted"]
              /\ closed' = closed \cup {waiters[1]}
              /\ active' = active
           \/ /\ waiters = <<>> /\ waiters' = <<>>
              /\ active' = IF active > 0 THEN active - 1 ELSE active
              /\ state' = state /\ closed' = closed
  <1> DEFINE live == {i \in DOMAIN waiters : state[waiters[i]] = "pending"}
             next == CHOOSE i \in live : \A j \in live : i <= j
  <1>1. live = DOMAIN waiters
    BY DEF LineOK
  <1>2. DOMAIN waiters = 1 .. Len(waiters) /\ Len(waiters) \in Nat
    BY DEF TypeOK
  <1>3. live = {} <=> waiters = <<>>
    <2>1. waiters = <<>> <=> Len(waiters) = 0
      BY DEF TypeOK
    <2>2. 1 .. Len(waiters) = {} <=> Len(waiters) = 0
      BY <1>2
    <2> QED
      BY <1>1, <1>2, <2>1, <2>2
  <1>4. \/ /\ live # {}
           /\ waiters' = SubSeq(waiters, next + 1, Len(waiters))
           /\ state' = [state EXCEPT ![waiters[next]] = "granted"]
           /\ closed' = closed \cup {waiters[next]}
           /\ active' = active
        \/ /\ live = {} /\ waiters' = <<>>
           /\ active' = IF active > 0 THEN active - 1 ELSE active
           /\ state' = state /\ closed' = closed
    BY DEF ReleaseSlot
  <1> HIDE DEF live
  <1>5. ASSUME live # {} PROVE next = 1
    <2>1. 1 \in live /\ \A j \in live : 1 <= j
      BY <1>1, <1>2, <1>3, <1>5
    <2>2. next \in live /\ \A j \in live : next <= j
      BY <2>1
    <2> QED
      BY <1>1, <1>2, <2>1, <2>2
  <1>6. CASE live = {}
    BY <1>3, <1>4, <1>6
  <1>7. CASE live # {}
    <2>1. next = 1
      BY <1>5, <1>7
    <2> HIDE DEF next
    <2> QED
      BY <1>3, <1>4, <1>7, <2>1
  <1> QED
    BY <1>6, <1>7

\* A caller makes the give-back it is entitled to.
LEMMA GiveBackStep ==
    ASSUME IInv, NEW p \in Permits, GiveBackOnce(p),
           \/ /\ owner[p] = "giveBack"
              /\ owner' = [owner EXCEPT ![p] = "end"]
              /\ UNCHANGED peer
           \/ /\ peer[p] = "giveBack"
              /\ peer' = [peer EXCEPT ![p] = "end"]
              /\ UNCHANGED owner
    PROVE  IInv' /\ PoolStep
  <1> USE DEF IInv
  <1>1. /\ state[p] \in {"canceled", "released"} /\ p \notin once
        /\ Returning(p) /\ ~Returning(p)' /\ ~HoldsSlot(p)
    BY DEF GiveBackOK, Returning, HoldsSlot, TypeOK
  <1>2. \A q \in Permits \ {p} : Returning(q)' = Returning(q)
    BY DEF Returning, TypeOK
  <1>3. /\ ReleaseSlot /\ once' = once \cup {p}
        /\ UNCHANGED <<queued, position, ctxDone>>
    BY <1>1 DEF GiveBackOnce
  <1>4. p \in Holders
    BY <1>1 DEF Holders
  <1>5. CASE /\ waiters = <<>> /\ waiters' = <<>>
             /\ active' = (IF active > 0 THEN active - 1 ELSE active)
             /\ state' = state /\ closed' = closed
    <2> USE <1>5
    <2>1. Holders' = Holders \ {p}
      BY <1>1, <1>2 DEF Holders, HoldsSlot
    <2>2. Cardinality(Holders \ {p}) = Cardinality(Holders) - 1
      BY <1>4, HoldersFinite, FS_RemoveElement
    <2>3. Cardinality(Holders \ {p}) \in Nat
      BY HoldersFinite, FS_RemoveElement, FS_CardinalityType
    <2>4. SlotConservation'
      BY <2>1, <2>2, <2>3, HoldersFinite, LimitsFacts DEF SlotConservation, maxActive
    <2>5. TypeOK'
      BY <1>3, SMTT(30) DEF TypeOK, OwnerSteps, PeerSteps
    <2>6. GiveBackOK'
      BY <1>1, <1>2, <1>3 DEF GiveBackOK, Returning, TypeOK
    <2>7. CreatedOK'
      BY <1>1, <1>3 DEF CreatedOK, TypeOK
    <2>8. LineOK' /\ ClosedIffDecided' /\ WorkConserving'
      BY <1>3 DEF LineOK, ClosedIffDecided, WorkConserving
    <2>9. Pool!Leave(p)
      BY <1>4, <2>1 DEF Pool!Leave
    <2> QED
      BY <2>4, <2>5, <2>6, <2>7, <2>8, <2>9 DEF PoolStep, Pool!Next
  <1>6. CASE /\ waiters # <<>>
             /\ waiters' = SubSeq(waiters, 2, Len(waiters))
             /\ state' = [state EXCEPT ![waiters[1]] = "granted"]
             /\ closed' = closed \cup {waiters[1]}
             /\ active' = active
    <2> USE <1>6
    <2>1. waiters \in Seq(Permits) /\ Len(waiters) \in Nat /\ Len(waiters) >= 1
      BY DEF TypeOK
    <2>2. /\ waiters' \in Seq(Permits)
          /\ Len(waiters') = Len(waiters) - 1
          /\ \A j \in 1 .. Len(waiters) - 1 : waiters'[j] = waiters[j + 1]
      <3>1. /\ SubSeq(waiters, 2, Len(waiters)) \in Seq(Permits)
            /\ Len(SubSeq(waiters, 2, Len(waiters))) = Len(waiters) - 1
            /\ \A j \in 1 .. Len(waiters) - 1 :
                  SubSeq(waiters, 2, Len(waiters))[j] = waiters[j + 1]
        BY ONLY <2>1, DropFirstFacts
      <3> QED
        BY ONLY <3>1, waiters' = SubSeq(waiters, 2, Len(waiters))
    <2>q. PICK q \in Permits : q = waiters[1]
      BY <2>1
    <2>3. state[q] = "pending" /\ q # p
      BY <1>1, <2>1, <2>q DEF LineOK
    <2>4. \A r \in Permits \ {q} : state'[r] = state[r]
      BY <2>q DEF TypeOK
    <2>5. state'[q] = "granted" /\ closed' = closed \cup {q}
      BY <2>3, <2>q DEF TypeOK
    <2>6. /\ ~HoldsSlot(q) /\ ~Returning(q) /\ HoldsSlot(q)' /\ ~Returning(q)'
          /\ q \notin once /\ q \in queued
      <3>1. ~Returning(q) /\ q \notin once /\ q \in queued
        BY <2>3 DEF GiveBackOK, CreatedOK
      <3>2. ~HoldsSlot(q) /\ HoldsSlot(q)'
        BY <2>3, <2>5 DEF HoldsSlot
      <3> QED
        BY <1>2, <2>3, <3>1, <3>2
    <2>7. Holders' = (Holders \ {p}) \cup {q} /\ q \notin Holders
      <3>1. p \notin Holders' /\ q \in Holders' /\ q \notin Holders
        BY <1>1, <2>3, <2>6, <2>4 DEF Holders, HoldsSlot
      <3>2. \A r \in Permits \ {p, q} : r \in Holders' <=> r \in Holders
        BY <1>2, <2>4 DEF Holders, HoldsSlot
      <3>3. Holders \subseteq Permits /\ Holders' \subseteq Permits
        BY DEF Holders
      <3> QED
        BY <3>1, <3>2, <3>3, <2>3
    <2>8. Cardinality((Holders \ {p}) \cup {q}) = Cardinality(Holders)
      <3>1. IsFiniteSet(Holders \ {p}) /\ Cardinality(Holders \ {p}) = Cardinality(Holders) - 1
        BY <1>4, HoldersFinite, FS_RemoveElement
      <3>2. Cardinality((Holders \ {p}) \cup {q}) = Cardinality(Holders \ {p}) + 1
        BY <2>7, <3>1, FS_AddElement
      <3> QED
        BY <3>1, <3>2, HoldersFinite
    <2>9. SlotConservation' /\ WorkConserving'
      BY <2>7, <2>8, HoldersFinite DEF SlotConservation, WorkConserving, maxActive
    <2>10. TypeOK'
      BY <1>3, <2>2, <2>3, <2>5 DEF TypeOK, States, OwnerSteps, PeerSteps
    <2>11. GiveBackOK'
      BY <1>1, <1>2, <1>3, <2>3, <2>6, <2>4, <2>5 DEF GiveBackOK, Returning, TypeOK
    <2>12. CreatedOK'
      BY <1>1, <1>3, <2>3, <2>6, <2>4, <2>5 DEF CreatedOK, TypeOK
    <2>13. ClosedIffDecided'
      BY <1>3, <2>3, <2>6, <2>4, <2>5 DEF ClosedIffDecided, TypeOK
    <2>14. LineOK'
      <3>1. DOMAIN waiters = 1 .. Len(waiters) /\ DOMAIN waiters' = 1 .. Len(waiters) - 1
        BY <2>1, <2>2
      <3>2. \A j \in DOMAIN waiters' : /\ j + 1 \in DOMAIN waiters
                                      /\ waiters'[j] = waiters[j + 1]
                                      /\ waiters[j + 1] \in Permits \ {q}
        BY <2>1, <2>2, <2>q, <3>1 DEF LineOK
      <3>3. \A j \in DOMAIN waiters' : state'[waiters'[j]] = "pending"
        BY <3>2, <2>4 DEF LineOK
      <3>4. \A j, k \in DOMAIN waiters' : waiters'[j] = waiters'[k] => j = k
        BY <3>1, <3>2, <2>1 DEF LineOK
      <3> QED
        BY <3>3, <3>4 DEF LineOK
    <2>15. Pool!Leave(p)
      <3>1. Head(waiters) = q /\ Tail(waiters) = waiters'
        BY <2>1, <2>q
      <3> QED
        BY <1>4, <2>7, <3>1 DEF Pool!Leave
    <2> QED
      BY <2>9, <2>10, <2>11, <2>12, <2>13, <2>14, <2>15 DEF PoolStep, Pool!Next
  <1> QED
    BY <1>3, <1>5, <1>6, ReleaseSlotFacts

-----------------------------------------------------------------------------
(* The invariant is inductive. *)

\* Manager.cancel, called by p's owner or by its peer.
LEMMA CancelStep ==
    ASSUME IInv, NEW p \in Permits, CancelPermit(p), UNCHANGED ctxDone,
           \/ /\ owner[p] = "cancel"
              /\ owner' = [owner EXCEPT ![p] = IF HoldsSlot(p) THEN "giveBack" ELSE "end"]
              /\ UNCHANGED peer
           \/ /\ peer[p] = "idle" /\ state[p] # "none"
              /\ peer' = [peer EXCEPT ![p] = IF HoldsSlot(p) THEN "giveBack" ELSE "end"]
              /\ UNCHANGED owner
    PROVE  IInv' /\ PoolStep
  <1>1. CASE state[p] = "pending"
    <2>1. PICK i \in DOMAIN waiters :
             waiters[i] = p /\ waiters' = RemoveAt(waiters, i)
      BY <1>1 DEF CancelPermit, HoldsSlot
    <2> QED
      BY <1>1, <2>1, WithdrawStep DEF CancelPermit, HoldsSlot
  <1>2. CASE HoldsSlot(p)
    BY <1>2, TakeAwayStep DEF CancelPermit, HoldsSlot
  <1>3. CASE state[p] \in {"canceled", "released"}
    BY <1>3, NothingToDoStep DEF CancelPermit, HoldsSlot
  <1> QED
    BY <1>1, <1>2, <1>3 DEF CancelPermit

\* Permit.Release, called by p's owner or by its peer.
LEMMA ReleaseStep ==
    ASSUME IInv, NEW p \in Permits,
           state' = IF HoldsSlot(p) THEN [state EXCEPT ![p] = "released"] ELSE state,
           \/ /\ owner[p] = "running"
              /\ owner' = [owner EXCEPT ![p] = IF HoldsSlot(p) THEN "giveBack" ELSE "end"]
              /\ UNCHANGED peer
           \/ /\ peer[p] = "idle" /\ state[p] # "none"
              /\ peer' = [peer EXCEPT ![p] = IF HoldsSlot(p) THEN "giveBack" ELSE "end"]
              /\ UNCHANGED owner,
           UNCHANGED <<active, waiters, queued, closed, position, once, ctxDone>>
    PROVE  IInv' /\ PoolStep
  <1>1. CASE HoldsSlot(p)
    BY <1>1, TakeAwayStep
  <1>2. CASE ~HoldsSlot(p)
    BY <1>2, NothingToDoStep
  <1> QED
    BY <1>1, <1>2

\* Only the context changes, or nothing does.
LEMMA ContextStep ==
    ASSUME IInv, ctxDone' = ctxDone \/ \E p \in Permits : ctxDone' = ctxDone \cup {p},
           UNCHANGED <<active, waiters, state, queued, closed, position, once,
                       owner, peer>>
    PROVE  IInv' /\ PoolStep
  <1>1. Holders' = Holders
    BY DEF Holders, HoldsSlot, Returning
  <1>2. TypeOK'
    BY DEF IInv, TypeOK
  <1>3. GiveBackOK' /\ CreatedOK' /\ LineOK' /\ ClosedIffDecided'
    BY DEF IInv, GiveBackOK, CreatedOK, LineOK, ClosedIffDecided, Returning
  <1> QED
    BY <1>1, <1>2, <1>3, SameHolders DEF IInv, PoolStep

\* Every step keeps the invariant and is a step of the slot pool.
LEMMA NextIInv == IInv /\ [Next]_vars => IInv' /\ PoolStep
  <1> SUFFICES ASSUME IInv, [Next]_vars PROVE IInv' /\ PoolStep
    OBVIOUS
  <1>1. CASE UNCHANGED vars
    BY <1>1, ContextStep DEF vars
  <1>2. ASSUME NEW p \in Permits, AcquireNow(p) PROVE IInv' /\ PoolStep
    BY <1>2, AcquireNowStep
  <1>3. ASSUME NEW p \in Permits, AcquireFull(p) PROVE IInv' /\ PoolStep
    BY <1>3, NothingToDoStep DEF AcquireFull, OwnerAt
  <1>4. ASSUME NEW p \in Permits, AcquireQueued(p) PROVE IInv' /\ PoolStep
    BY <1>4, AcquireQueuedStep
  <1>5. ASSUME NEW p \in Permits, OwnerStep(p) PROVE IInv' /\ PoolStep
    <2>1. CASE WaitEnter(p)
      BY <2>1, QuietStep DEF WaitEnter, OwnerSteps
    <2>2. CASE WaitNilState(p)
      BY <2>2, QuietStep DEF WaitNilState, OwnerSteps
    <2>3. CASE WaitNilCtx(p)
      BY <2>3, QuietStep DEF WaitNilCtx, OwnerSteps
    <2>4. CASE WaitSelect(p)
      BY <2>4, QuietStep DEF WaitSelect, OwnerSteps
    <2>5. CASE WaitWoken(p)
      BY <2>5, QuietStep DEF WaitWoken, OwnerSteps
    <2>6. CASE WaitGrant(p)
      BY <2>6, WaitGrantStep
    <2>7. CASE WaitCancel(p)
      BY <2>7, CancelStep DEF WaitCancel, OwnerAt
    <2>8. CASE Release(p)
      BY <2>8, ReleaseStep DEF Release, OwnerAt
    <2>9. CASE OwnerGiveBack(p)
      BY <2>9, GiveBackStep DEF OwnerGiveBack, OwnerAt
    <2> QED
      BY <1>5, <2>1, <2>2, <2>3, <2>4, <2>5, <2>6, <2>7, <2>8, <2>9 DEF OwnerStep
  <1>6. ASSUME NEW p \in Permits, PeerCancel(p) PROVE IInv' /\ PoolStep
    BY <1>6, CancelStep DEF PeerCancel
  <1>7. ASSUME NEW p \in Permits, PeerRelease(p) PROVE IInv' /\ PoolStep
    BY <1>7, ReleaseStep DEF PeerRelease
  <1>8. ASSUME NEW p \in Permits, PeerGiveBack(p) PROVE IInv' /\ PoolStep
    BY <1>8, GiveBackStep DEF PeerGiveBack
  <1>9. ASSUME NEW p \in Permits, ContextDone(p) PROVE IInv' /\ PoolStep
    BY <1>9, ContextStep DEF ContextDone
  <1> QED
    BY <1>1, <1>2, <1>3, <1>4, <1>5, <1>6, <1>7, <1>8, <1>9 DEF Next

\* The inductive invariant holds throughout.
THEOREM Inductive == Spec => []IInv
  BY InitIInv, NextIInv, PTL DEF Spec

\* Every variable of the queue keeps its type, for any number of permits and
\* any configuration New may be given.
THEOREM TypeCorrect == Spec => []TypeOK
  <1>1. IInv => TypeOK
    BY DEF IInv
  <1> QED
    BY <1>1, Inductive, PTL

\* No interleaving of Acquire, Wait, Cancel, Release and context cancellation
\* loses a slot, hands one out twice, or exceeds the configured limit.
THEOREM SlotsConserved == Spec => []SlotConservation
  <1>1. IInv => SlotConservation
    BY DEF IInv
  <1> QED
    BY <1>1, Inductive, PTL

\* Nobody waits while a slot is free, and a permit's channel is closed exactly
\* when its fate is decided.
THEOREM NobodyForgotten == Spec => [](WorkConserving /\ ClosedIffDecided)
  <1>1. IInv => WorkConserving /\ ClosedIffDecided
    BY DEF IInv
  <1> QED
    BY <1>1, Inductive, PTL

\* No grant overtakes an earlier waiter: a permit becomes granted only by being
\* at the head of the line.
THEOREM FirstComeFirstServed == Spec => NoOvertaking
  <1> DEFINE Fair == \A i, j \in DOMAIN waiters :
                        (i < j /\ state'[waiters[j]] = "granted") =>
                            state'[waiters[i]] # "pending"
  <1>1. ASSUME IInv, [Next]_vars, NEW q \in Permits, state[q] = "pending",
               state'[q] = "granted"
        PROVE  waiters # <<>> /\ q = waiters[1]
    <2> USE <1>1 DEF IInv
    <2>1. PICK p \in Permits : OwnerGiveBack(p) \/ PeerGiveBack(p)
      <3>1. ~UNCHANGED vars
        BY DEF vars
      <3>2. PICK p \in Permits :
               \/ AcquireNow(p) \/ AcquireFull(p) \/ AcquireQueued(p)
               \/ OwnerStep(p)
               \/ PeerCancel(p) \/ PeerRelease(p) \/ PeerGiveBack(p)
               \/ ContextDone(p)
        BY <3>1 DEF Next
      <3>3. ~AcquireNow(p) /\ ~AcquireFull(p) /\ ~AcquireQueued(p) /\ ~ContextDone(p)
        BY DEF AcquireNow, AcquireFull, AcquireQueued, ContextDone, TypeOK
      <3>4. ~CancelPermit(p)
        BY DEF CancelPermit, TypeOK
      <3>5. ~PeerCancel(p) /\ ~WaitCancel(p)
        BY <3>4 DEF PeerCancel, WaitCancel
      <3>6. ~PeerRelease(p) /\ ~Release(p) /\ ~WaitGrant(p)
        BY DEF PeerRelease, Release, WaitGrant, TypeOK
      <3>7. /\ ~WaitEnter(p) /\ ~WaitNilState(p) /\ ~WaitNilCtx(p)
            /\ ~WaitSelect(p) /\ ~WaitWoken(p)
        BY DEF WaitEnter, WaitNilState, WaitNilCtx, WaitSelect, WaitWoken
      <3> QED
        BY <3>2, <3>3, <3>5, <3>6, <3>7 DEF OwnerStep
    <2>2. ReleaseSlot
      BY <2>1 DEF OwnerGiveBack, PeerGiveBack, GiveBackOnce
    <2> QED
      BY <2>2, ReleaseSlotFacts DEF TypeOK
  <1>2. IInv /\ [Next]_vars => Fair
    <2> SUFFICES ASSUME IInv, [Next]_vars, NEW i \in DOMAIN waiters,
                        NEW j \in DOMAIN waiters, i < j,
                        state'[waiters[j]] = "granted"
                 PROVE  FALSE
      OBVIOUS
    <2>1. /\ DOMAIN waiters = 1 .. Len(waiters) /\ waiters[j] \in Permits
          /\ state[waiters[j]] = "pending"
      BY DEF IInv, TypeOK, LineOK
    <2>2. waiters[j] = waiters[1] /\ 1 \in DOMAIN waiters
      BY <1>1, <2>1 DEF IInv, TypeOK
    <2> QED
      BY <2>1, <2>2 DEF IInv, LineOK
  <1>3. IInv /\ [Next]_vars => [Fair]_vars
    BY <1>2
  <1> QED
    BY <1>3, Inductive, PTL DEF Spec, NoOvertaking

\* The queue implements the first-come-first-served slot pool: a slot given up
\* goes to the longest waiting request, and the others keep their order.
THEOREM Refinement == Spec => ImplementsSlotPool
  <1>1. Init => Pool!Init
    BY DEF Init, Pool!Init, Holders, HoldsSlot, Returning
  <1>2. IInv /\ [Next]_vars => [Pool!Next]_(Pool!vars)
    BY NextIInv DEF PoolStep, Pool!vars
  <1> QED
    BY <1>1, <1>2, Inductive, PTL DEF Spec, Pool!Spec, ImplementsSlotPool
=============================================================================
