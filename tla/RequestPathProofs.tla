------------------------- MODULE RequestPathProofs -------------------------
(***************************************************************************)
(* Machine-checked proofs about RequestPath, for every set of requests and *)
(* every limit.                                                            *)
(*                                                                         *)
(* What a request holds is known from where its handler stands (HoldsOK).  *)
(* That this survives the steps of the other handlers rests on the line:   *)
(* a slot given up goes to a request that waits, and a request waits once  *)
(* and only while it has no slot (LineOK).  The budget is the sum of what  *)
(* is held (Budget!BudgetBalanced), which is finite because every step     *)
(* changes the bytes of one request only (BytesOK).                        *)
(*                                                                         *)
(* The drain is proved of the work lifecycle alone, for any requests that  *)
(* use it as it allows; that the handlers do carries it over to them.      *)
(***************************************************************************)
EXTENDS RequestPath, FiniteSetTheorems, SequenceTheorems, TLAPS

\* The places of a handler at which its request holds, or may still hold, an
\* upload admission, holds a stream admission, a payload fetch slot, a place in
\* the queue, a run slot, may have a heartbeat, and has no bytes.
Unopened   == {"reserve", "auth", "decode", "resolve", "field", "download", "fetched",
               "fetchFailed", "retain", "stream", "queue", "queued"}
Uploading  == Unopened \cup {"dropStream", "dropBytes", "dropUpload"}
Streaming  == {"queue", "queued", "open", "accepted", "wait", "start", "run",
               "cancelPermit", "releasePermit", "stopStream", "dropStream"}
Fetching   == {"field", "download", "fetched", "fetchFailed"}
Placed     == {"queued", "open", "accepted", "wait", "start", "run", "cancelPermit",
               "releasePermit"}
Slotted    == {"start", "run", "releasePermit"}
Beating    == {"accepted", "wait", "start", "run", "cancelPermit", "releasePermit",
               "stopStream"}
Byteless   == {"idle", "admit", "reserve", "dropUpload", "finish"}

\* What request r holds, seen from where its handler stands.
Holds(r) ==
    /\ r \in requests <=> pc[r] # "idle"
    /\ r \in uploads => pc[r] \in Uploading
    /\ pc[r] \in Unopened => r \in uploads
    /\ r \in streams <=> pc[r] \in Streaming
    /\ r \in fetching <=> pc[r] \in Fetching
    /\ r \in slots \cup Waiting <=> pc[r] \in Placed
    /\ pc[r] \in Slotted => r \in slots
    /\ r \in heartbeats => pc[r] \in Beating
    /\ pc[r] \in Byteless => held[r] = 0
    /\ pc[r] = "download" => held[r] >= MaxField
    /\ pc[r] = "run" => r \in running

HoldsOK ==
    /\ DOMAIN pc = Requests
    /\ \A r \in Requests : Holds(r)

\* Nobody waits twice, nor with a slot.
LineOK ==
    /\ line \in Seq(Requests)
    /\ \A i, j \in DOMAIN line : line[i] = line[j] => i = j
    /\ \A i \in DOMAIN line : line[i] \notin slots

BytesOK ==
    /\ held \in [Requests -> Nat]
    /\ IsFiniteSet(Budget!Reserved)
    /\ Budget!BudgetBalanced

IInv == HoldsOK /\ LineOK /\ BytesOK

-----------------------------------------------------------------------------
(* One handler moves, the others keep what they have. *)

\* What the step of r's handler leaves of the other requests.
Undisturbed(r) ==
    \A q \in Requests \ {r} :
        /\ pc'[q] = pc[q] /\ held'[q] = held[q]
        /\ q \in requests' <=> q \in requests
        /\ q \in uploads' <=> q \in uploads
        /\ q \in streams' <=> q \in streams
        /\ q \in fetching' <=> q \in fetching
        /\ q \in heartbeats' => q \in heartbeats
        /\ q \in running => q \in running'
        /\ q \in (slots \cup Waiting)' <=> q \in slots \cup Waiting
        /\ q \in slots => q \in slots'

\* It is enough to look at the request whose handler moves.
LEMMA OthersHold ==
    ASSUME HoldsOK, NEW r \in Requests, DOMAIN pc' = Requests, Undisturbed(r), Holds(r)'
    PROVE  HoldsOK'
  <1>1. ASSUME NEW q \in Requests \ {r} PROVE Holds(q)'
    <2>1. Holds(q)
      BY DEF HoldsOK
    <2> QED
      BY <2>1 DEF Holds, Undisturbed
  <1> QED
    BY <1>1 DEF HoldsOK

\* A step of r's handler that touches neither the queue nor the budget.
LEMMA QuietStep ==
    ASSUME HoldsOK, NEW r \in Requests, UNCHANGED <<slots, line, used, held>>,
           \/ Begin(r) \/ AcquireUpload(r) \/ Authenticate(r) \/ AcquireFetch(r)
           \/ ReleaseFetch(r) \/ AcquireStream(r) \/ ReleaseUpload(r) \/ OpenStream(r)
           \/ Accepted(r) \/ WaitPermit(r) \/ Start(r) \/ RunEnds(r) \/ StopStream(r)
           \/ DropStream(r) \/ DropUpload(r) \/ Finish(r)
    PROVE  HoldsOK'
  <1> USE DEF Go, Unopened, Uploading, Streaming, Fetching, Placed, Slotted, Beating,
        Byteless
  <1>0. Holds(r) /\ DOMAIN pc = Requests /\ Waiting' = Waiting
    BY DEF HoldsOK, Waiting
  <1>1. DOMAIN pc' = Requests /\ Undisturbed(r) /\ Holds(r)'
    <2>1. CASE Begin(r)
      <3>1. DOMAIN pc' = Requests /\ Undisturbed(r)
        BY <1>0, <2>1 DEF Undisturbed, Begin, Work!begin, poolVars
      <3>2. Holds(r)'
        BY <1>0, <2>1 DEF Holds, Begin, Work!begin, poolVars
      <3> QED
        BY <3>1, <3>2
    <2>2. CASE AcquireUpload(r)
      <3>1. DOMAIN pc' = Requests /\ Undisturbed(r)
        BY <1>0, <2>2 DEF Undisturbed, AcquireUpload, Uploads!Enter, lifecycleVars
      <3>2. Holds(r)'
        BY <1>0, <2>2 DEF Holds, AcquireUpload, Uploads!Enter, lifecycleVars
      <3> QED
        BY <3>1, <3>2
    <2>3. CASE Authenticate(r)
      <3>1. DOMAIN pc' = Requests /\ Undisturbed(r)
        BY <1>0, <2>3 DEF Undisturbed, Authenticate, lifecycleVars, poolVars
      <3>2. Holds(r)'
        BY <1>0, <2>3 DEF Holds, Authenticate, lifecycleVars, poolVars
      <3> QED
        BY <3>1, <3>2
    <2>4. CASE AcquireFetch(r)
      <3>1. DOMAIN pc' = Requests /\ Undisturbed(r)
        BY <1>0, <2>4 DEF Undisturbed, AcquireFetch, lifecycleVars
      <3>2. Holds(r)'
        BY <1>0, <2>4 DEF Holds, AcquireFetch, lifecycleVars
      <3> QED
        BY <3>1, <3>2
    <2>5. CASE ReleaseFetch(r)
      <3>1. DOMAIN pc' = Requests /\ Undisturbed(r)
        BY <1>0, <2>5 DEF Undisturbed, ReleaseFetch, lifecycleVars
      <3>2. Holds(r)'
        BY <1>0, <2>5 DEF Holds, ReleaseFetch, lifecycleVars
      <3> QED
        BY <3>1, <3>2
    <2>6. CASE AcquireStream(r)
      <3>1. DOMAIN pc' = Requests /\ Undisturbed(r)
        BY <1>0, <2>6 DEF Undisturbed, AcquireStream, Streams!Enter, lifecycleVars
      <3>2. Holds(r)'
        BY <1>0, <2>6 DEF Holds, AcquireStream, Streams!Enter, lifecycleVars
      <3> QED
        BY <3>1, <3>2
    <2>7. CASE ReleaseUpload(r)
      <3>1. DOMAIN pc' = Requests /\ Undisturbed(r)
        BY <1>0, <2>7 DEF Undisturbed, ReleaseUpload, Uploads!Leave, lifecycleVars
      <3>2. Holds(r)'
        BY <1>0, <2>7 DEF Holds, ReleaseUpload, Uploads!Leave, lifecycleVars
      <3> QED
        BY <3>1, <3>2
    <2>8. CASE OpenStream(r)
      <3>1. DOMAIN pc' = Requests /\ Undisturbed(r)
        BY <1>0, <2>8 DEF Undisturbed, OpenStream, lifecycleVars, poolVars
      <3>2. Holds(r)'
        BY <1>0, <2>8 DEF Holds, OpenStream, lifecycleVars, poolVars
      <3> QED
        BY <3>1, <3>2
    <2>9. CASE Accepted(r)
      <3>1. DOMAIN pc' = Requests /\ Undisturbed(r)
        BY <1>0, <2>9 DEF Undisturbed, Accepted, lifecycleVars, poolVars
      <3>2. Holds(r)'
        BY <1>0, <2>9 DEF Holds, Accepted, lifecycleVars, poolVars
      <3> QED
        BY <3>1, <3>2
    <2>10. CASE WaitPermit(r)
      <3>1. DOMAIN pc' = Requests /\ Undisturbed(r)
        BY <1>0, <2>10 DEF Undisturbed, WaitPermit, lifecycleVars, poolVars
      <3>2. Holds(r)'
        BY <1>0, <2>10 DEF Holds, WaitPermit, lifecycleVars, poolVars
      <3> QED
        BY <3>1, <3>2
    <2>11. CASE Start(r)
      <3>1. DOMAIN pc' = Requests /\ Undisturbed(r)
        BY <1>0, <2>11 DEF Undisturbed, Start, Work!start, lifecycleVars, poolVars
      <3>2. Holds(r)'
        BY <1>0, <2>11 DEF Holds, Start, Work!start, lifecycleVars, poolVars
      <3> QED
        BY <3>1, <3>2
    <2>12. CASE RunEnds(r)
      <3>1. DOMAIN pc' = Requests /\ Undisturbed(r)
        BY <1>0, <2>12 DEF Undisturbed, RunEnds, lifecycleVars, poolVars
      <3>2. Holds(r)'
        BY <1>0, <2>12 DEF Holds, RunEnds, lifecycleVars, poolVars
      <3> QED
        BY <3>1, <3>2
    <2>13. CASE StopStream(r)
      <3>1. DOMAIN pc' = Requests /\ Undisturbed(r)
        BY <1>0, <2>13 DEF Undisturbed, StopStream, lifecycleVars, poolVars
      <3>2. Holds(r)'
        BY <1>0, <2>13 DEF Holds, StopStream, lifecycleVars, poolVars
      <3> QED
        BY <3>1, <3>2
    <2>14. CASE DropStream(r)
      <3>1. DOMAIN pc' = Requests /\ Undisturbed(r)
        BY <1>0, <2>14 DEF Undisturbed, DropStream, Streams!Leave, lifecycleVars
      <3>2. Holds(r)'
        BY <1>0, <2>14 DEF Holds, DropStream, Streams!Leave, lifecycleVars
      <3> QED
        BY <3>1, <3>2
    <2>15. CASE DropUpload(r)
      <3>1. DOMAIN pc' = Requests /\ Undisturbed(r)
        BY <1>0, <2>15 DEF Undisturbed, DropUpload, lifecycleVars
      <3>2. Holds(r)'
        BY <1>0, <2>15 DEF Holds, DropUpload, lifecycleVars
      <3> QED
        BY <3>1, <3>2
    <2>16. CASE Finish(r)
      <3>1. DOMAIN pc' = Requests /\ Undisturbed(r)
        BY <1>0, <2>16 DEF Undisturbed, Finish, Work!finish, poolVars
      <3>2. Holds(r)'
        BY <1>0, <2>16 DEF Holds, Finish, Work!finish, poolVars
      <3> QED
        BY <3>1, <3>2
    <2> QED
      BY <2>1, <2>2, <2>3, <2>4, <2>5, <2>6, <2>7, <2>8, <2>9, <2>10, <2>11, <2>12,
         <2>13, <2>14, <2>15, <2>16
  <1> QED
    BY <1>0, <1>1, OthersHold

\* The client, the heartbeat or the shutdown moves, no handler does.
LEMMA OutsideStep ==
    ASSUME HoldsOK, UNCHANGED <<poolVars, pc>>,
           heartbeats' \subseteq heartbeats, requests' = requests, running' = running
    PROVE  HoldsOK'
  <1>1. Waiting' = Waiting
    BY DEF Waiting, poolVars
  <1>2. ASSUME NEW q \in Requests PROVE Holds(q)'
    <2>1. Holds(q)
      BY DEF HoldsOK
    <2> QED
      BY <1>1, <2>1 DEF Holds, poolVars
  <1> QED
    BY <1>2 DEF HoldsOK

-----------------------------------------------------------------------------
(* The byte budget. *)

\* The instance of ByteBudget counts as this module does.
LEMMA BudgetCounts == \A S : Budget!Cardinality(S) = Cardinality(S)
  BY DEF Budget!Cardinality, Cardinality

\* n bytes of one request.
LEMMA OwnBytes ==
    ASSUME NEW r, NEW n \in Nat
    PROVE  IsFiniteSet({r} \X (1 .. n)) /\ Cardinality({r} \X (1 .. n)) = n
  <1>1. IsFiniteSet(1 .. n) /\ Cardinality(1 .. n) = n
    BY FS_Interval
  <1>2. IsFiniteSet({r}) /\ Cardinality({r}) = 1
    BY FS_Singleton
  <1> QED
    BY <1>1, <1>2, FS_Product

\* When one request's bytes change, the count changes by the difference.
LEMMA Recount ==
    ASSUME held \in [Requests -> Nat], IsFiniteSet(Budget!Reserved),
           NEW r \in Requests, NEW n \in Nat, held' = [held EXCEPT ![r] = n]
    PROVE  /\ held' \in [Requests -> Nat]
           /\ IsFiniteSet(Budget!Reserved')
           /\ Cardinality(Budget!Reserved') = Cardinality(Budget!Reserved) + n - held[r]
  <1> DEFINE Rest   == Budget!Reserved \ ({r} \X (1 .. held[r]))
             Before == {r} \X (1 .. held[r])
             After  == {r} \X (1 .. n)
  <1>1. /\ IsFiniteSet(Before) /\ Cardinality(Before) = held[r]
        /\ IsFiniteSet(After) /\ Cardinality(After) = n
    BY OwnBytes
  <1>2. Before \subseteq Budget!Reserved
    BY DEF Budget!Reserved
  <1>3. \A x : x \in Rest <=> \E q \in Requests \ {r} : x \in {q} \X (1 .. held[q])
    BY DEF Budget!Reserved
  <1>4. \A x : x \in Budget!Reserved' <=> x \in Rest \/ x \in After
    <2>1. \A x : x \in Budget!Reserved' <=> \E q \in Requests : x \in {q} \X (1 .. held'[q])
      BY DEF Budget!Reserved
    <2>2. /\ {r} \X (1 .. held'[r]) = After
          /\ \A q \in Requests \ {r} :
                {q} \X (1 .. held'[q]) = {q} \X (1 .. held[q])
      OBVIOUS
    <2> HIDE DEF Rest, After
    <2>3. ASSUME NEW x, x \in Budget!Reserved' PROVE x \in Rest \/ x \in After
      <3>1. PICK q \in Requests : x \in {q} \X (1 .. held'[q])
        BY <2>1, <2>3
      <3>2. CASE q = r
        BY <3>1, <3>2, <2>2
      <3>3. CASE q # r
        <4>1. x \in {q} \X (1 .. held[q])
          BY <3>1, <3>3, <2>2
        <4> QED
          BY <4>1, <3>3, <1>3
      <3> QED
        BY <3>2, <3>3
    <2>4. ASSUME NEW x, x \in Rest PROVE x \in Budget!Reserved'
      <3>1. PICK q \in Requests \ {r} : x \in {q} \X (1 .. held[q])
        BY <2>4, <1>3
      <3>2. x \in {q} \X (1 .. held'[q])
        BY <3>1, <2>2
      <3> QED
        BY <3>2, <2>1
    <2>5. ASSUME NEW x, x \in After PROVE x \in Budget!Reserved'
      <3>1. x \in {r} \X (1 .. held'[r])
        BY <2>5, <2>2
      <3> QED
        BY <3>1, <2>1
    <2> QED
      BY <2>3, <2>4, <2>5
  <1>5. Rest \cap After = {}
    BY <1>3
  <1> HIDE DEF Before, After
  <1>6. /\ IsFiniteSet(Rest)
        /\ Cardinality(Rest) = Cardinality(Budget!Reserved) - held[r]
    <2>1. Budget!Reserved \cap Before = Before /\ Rest = Budget!Reserved \ Before
      BY <1>2 DEF Before
    <2>2. /\ IsFiniteSet(Budget!Reserved \ Before)
          /\ Cardinality(Budget!Reserved \ Before) =
                Cardinality(Budget!Reserved) - Cardinality(Budget!Reserved \cap Before)
      BY FS_Difference
    <2> HIDE DEF Rest
    <2> QED
      BY <1>1, <2>1, <2>2
  <1>7. Budget!Reserved' = Rest \cup After
    BY <1>4
  <1> HIDE DEF Rest
  <1>8. /\ IsFiniteSet(Rest \cup After)
        /\ Cardinality(Rest \cup After) = Cardinality(Rest) + Cardinality(After)
    <2>1. Cardinality(Rest \cap After) = 0
      BY <1>5, FS_EmptySet
    <2>2. Cardinality(Rest) \in Nat /\ Cardinality(After) \in Nat
      BY <1>1, <1>6, FS_CardinalityType
    <2>3. /\ IsFiniteSet(Rest \cup After)
          /\ Cardinality(Rest \cup After) =
                Cardinality(Rest) + Cardinality(After) - Cardinality(Rest \cap After)
      BY <1>1, <1>6, FS_Union
    <2> QED
      BY <2>1, <2>2, <2>3
  <1>9. Cardinality(Budget!Reserved) \in Nat /\ held[r] \in Nat
    BY FS_CardinalityType
  <1>10. held' \in [Requests -> Nat]
    OBVIOUS
  <1> QED
    BY <1>1, <1>6, <1>7, <1>8, <1>9, <1>10

\* The three operations of the budget keep it balanced.
LEMMA ResizeStep ==
    ASSUME BytesOK, NEW r \in Requests, NEW n \in Int, Budget!resize(r, n)
    PROVE  BytesOK' /\ n >= 0 /\ held' = [held EXCEPT ![r] = n]
  <1>1. n \in Nat /\ held' = [held EXCEPT ![r] = n]
    BY DEF Budget!resize, Budget!FitsResize
  <1>2. /\ held' \in [Requests -> Nat]
        /\ IsFiniteSet(Budget!Reserved')
        /\ Cardinality(Budget!Reserved') = Cardinality(Budget!Reserved) + n - held[r]
    BY <1>1, Recount DEF BytesOK
  <1>3. Cardinality(Budget!Reserved) \in Nat /\ held[r] \in Nat
    BY FS_CardinalityType DEF BytesOK
  <1>4. used' = Cardinality(Budget!Reserved') /\ used' <= ByteLimit
    BY <1>1, <1>2, <1>3, BudgetCounts, ByteAssumption
       DEF BytesOK, Budget!BudgetBalanced, Budget!resize, Budget!FitsResize
  <1> QED
    BY <1>1, <1>2, <1>4, BudgetCounts DEF BytesOK, Budget!BudgetBalanced

LEMMA ReserveStep ==
    ASSUME BytesOK, NEW r \in Requests, NEW n \in Int, Budget!reserve(r, n)
    PROVE  BytesOK' /\ n >= 0 /\ held' = [held EXCEPT ![r] = held[r] + n]
  <1>1. /\ n \in Nat /\ held' = [held EXCEPT ![r] = held[r] + n]
        /\ held[r] \in Nat /\ held[r] + n \in Nat
    BY DEF Budget!reserve, Budget!FitsReserve, BytesOK
  <1>2. /\ held' \in [Requests -> Nat]
        /\ IsFiniteSet(Budget!Reserved')
        /\ Cardinality(Budget!Reserved') =
              Cardinality(Budget!Reserved) + (held[r] + n) - held[r]
    BY <1>1, Recount DEF BytesOK
  <1>3. Cardinality(Budget!Reserved) \in Nat
    BY FS_CardinalityType DEF BytesOK
  <1>4. used' = Cardinality(Budget!Reserved') /\ used' <= ByteLimit
    BY <1>1, <1>2, <1>3, BudgetCounts, ByteAssumption
       DEF BytesOK, Budget!BudgetBalanced, Budget!reserve, Budget!FitsReserve
  <1> QED
    BY <1>1, <1>2, <1>4, BudgetCounts DEF BytesOK, Budget!BudgetBalanced

LEMMA SettleStep ==
    ASSUME BytesOK, NEW r \in Requests, NEW m \in Nat, NEW n \in 0 .. m,
           held[r] >= m, Budget!settle(r, m, n)
    PROVE  BytesOK' /\ held' = [held EXCEPT ![r] = held[r] - (m - n)]
  <1>1. /\ held' = [held EXCEPT ![r] = held[r] - (m - n)]
        /\ held[r] \in Nat /\ held[r] - (m - n) \in Nat
    BY DEF Budget!settle, BytesOK
  <1>2. /\ held' \in [Requests -> Nat]
        /\ IsFiniteSet(Budget!Reserved')
        /\ Cardinality(Budget!Reserved') =
              Cardinality(Budget!Reserved) + (held[r] - (m - n)) - held[r]
    BY <1>1, Recount DEF BytesOK
  <1>3. Cardinality(Budget!Reserved) \in Nat
    BY FS_CardinalityType DEF BytesOK
  <1>4. used' = Cardinality(Budget!Reserved') /\ used' <= ByteLimit
    BY <1>1, <1>2, <1>3, BudgetCounts, ByteAssumption
       DEF BytesOK, Budget!BudgetBalanced, Budget!settle
  <1> QED
    BY <1>1, <1>2, <1>4, BudgetCounts DEF BytesOK, Budget!BudgetBalanced

\* A step of r's handler that changes its bytes.
LEMMA ByteStep ==
    ASSUME HoldsOK, BytesOK, NEW r \in Requests,
           \/ ReserveBody(r) \/ Decode(r) \/ ReserveField(r) \/ Download(r) \/ Retain(r)
           \/ DropBytes(r)
    PROVE  HoldsOK' /\ BytesOK'
  <1> USE DEF Go, Unopened, Uploading, Streaming, Fetching, Placed, Slotted, Beating,
        Byteless,
              lifecycleVars
  <1>0. /\ Holds(r) /\ DOMAIN pc = Requests
        /\ held \in [Requests -> Nat] /\ held[r] \in Nat
        /\ MaxBody \in Nat /\ MaxField \in Nat /\ MaxBody + MaxField \in Nat
    BY ByteAssumption DEF HoldsOK, BytesOK
  <1>1. /\ DOMAIN pc' = Requests
        /\ \A q \in Requests \ {r} : pc'[q] = pc[q]
        /\ UNCHANGED <<requests, running, uploads, streams, fetching, slots, heartbeats>>
        /\ Waiting' = Waiting
    BY <1>0 DEF ReserveBody, Decode, ReserveField, Download, Retain, DropBytes, Waiting
  <1>2. ASSUME UNCHANGED <<used, held>> PROVE BytesOK'
    BY <1>2 DEF BytesOK, Budget!BudgetBalanced, Budget!Reserved
  <1>3. ASSUME NEW n \in Int, Budget!resize(r, n)
        PROVE  BytesOK' /\ n \in Nat /\ held' = [held EXCEPT ![r] = n]
    BY <1>3, ResizeStep
  <1>4. ASSUME BytesOK', Holds(r)', \A q \in Requests \ {r} : held'[q] = held[q]
        PROVE  HoldsOK' /\ BytesOK'
    <2>1. Undisturbed(r)
      BY <1>1, <1>4 DEF Undisturbed
    <2> QED
      BY <1>1, <1>4, <2>1, OthersHold
  <1>5. CASE ReserveBody(r)
    <2>1. PICK n \in 0 .. MaxBody :
             \/ Go(r, "reserve", "auth") /\ Budget!resize(r, n)
             \/ Go(r, "reserve", "dropUpload") /\ UNCHANGED <<used, held>>
      BY <1>5 DEF ReserveBody
    <2>2. BytesOK' /\ \A q \in Requests \ {r} : held'[q] = held[q]
      BY <1>0, <1>2, <1>3, <2>1
    <2>3. Holds(r)'
      BY <1>0, <1>1, <2>1 DEF Holds
    <2> QED
      BY <1>4, <2>2, <2>3
  <1>6. CASE Decode(r)
    <2>1. \/ \E n \in 0 .. MaxBody, to \in {"retain", "resolve", "dropBytes"} :
                Budget!resize(r, n) /\ Go(r, "decode", to)
          \/ Go(r, "decode", "dropBytes") /\ UNCHANGED <<used, held>>
      BY <1>6 DEF Decode
    <2>2. BytesOK' /\ \A q \in Requests \ {r} : held'[q] = held[q]
      BY <1>0, <1>2, <1>3, <2>1
    <2>3. Holds(r)'
      BY <1>0, <1>1, <2>1 DEF Holds
    <2> QED
      BY <1>4, <2>2, <2>3
  <1>7. CASE ReserveField(r)
    <2>1. CASE Go(r, "field", "download") /\ Budget!reserve(r, MaxField)
      <3>1. BytesOK' /\ held' = [held EXCEPT ![r] = held[r] + MaxField]
        BY <1>0, <2>1, ReserveStep
      <3>2. Holds(r)'
        BY <1>0, <1>1, <2>1, <3>1 DEF Holds
      <3> QED
        BY <1>0, <1>4, <3>1, <3>2
    <2>2. CASE Go(r, "field", "fetchFailed") /\ UNCHANGED <<used, held>>
      <3>1. Holds(r)'
        BY <1>0, <1>1, <2>2 DEF Holds
      <3> QED
        BY <1>2, <1>4, <2>2, <3>1
    <2> QED
      BY <1>7, <2>1, <2>2 DEF ReserveField
  <1>8. CASE Download(r)
    <2>1. PICK n \in 0 .. MaxField, to \in {"fetched", "field", "fetchFailed"} :
             Budget!settle(r, MaxField, n) /\ Go(r, "download", to)
      BY <1>0, <1>8 DEF Download
    <2>2. held[r] >= MaxField
      BY <1>0, <2>1 DEF Holds
    <2>3. BytesOK' /\ held' = [held EXCEPT ![r] = held[r] - (MaxField - n)]
      BY <1>0, <2>1, <2>2, SettleStep
    <2>4. Holds(r)'
      BY <1>0, <1>1, <2>1 DEF Holds
    <2> QED
      BY <1>0, <1>4, <2>3, <2>4
  <1>9. CASE Retain(r)
    <2>1. \/ \E n \in 0 .. MaxBody + MaxField, to \in {"stream", "dropBytes"} :
                Budget!resize(r, n) /\ Go(r, "retain", to)
          \/ Go(r, "retain", "dropBytes") /\ UNCHANGED <<used, held>>
      BY <1>9 DEF Retain
    <2>2. BytesOK' /\ \A q \in Requests \ {r} : held'[q] = held[q]
      BY <1>0, <1>2, <1>3, <2>1
    <2>3. Holds(r)'
      BY <1>0, <1>1, <2>1 DEF Holds
    <2> QED
      BY <1>4, <2>2, <2>3
  <1>10. CASE DropBytes(r)
    <2>1. Go(r, "dropBytes", "dropUpload") /\ Budget!resize(r, 0)
      BY <1>10 DEF DropBytes
    <2>2. BytesOK' /\ held' = [held EXCEPT ![r] = 0]
      BY <1>3, <2>1
    <2>3. Holds(r)'
      BY <1>0, <1>1, <2>1, <2>2 DEF Holds
    <2> QED
      BY <1>0, <1>4, <2>2, <2>3
  <1> QED
    BY <1>5, <1>6, <1>7, <1>8, <1>9, <1>10

-----------------------------------------------------------------------------
(* The run queue. *)

\* A sequence without its i-th element, as the slot pool's Abandon writes it.
Without(s, i) == SubSeq(s, 1, i - 1) \o SubSeq(s, i + 1, Len(s))

\* Removing one element keeps the others, in order.
LEMMA WithoutFacts ==
    ASSUME NEW S, NEW s \in Seq(S), NEW i \in 1 .. Len(s)
    PROVE  /\ Without(s, i) \in Seq(S)
           /\ Len(Without(s, i)) = Len(s) - 1
           /\ \A j \in 1 .. Len(s) - 1 :
                 Without(s, i)[j] = IF j < i THEN s[j] ELSE s[j + 1]
  <1> DEFINE a == SubSeq(s, 1, i - 1)
             b == SubSeq(s, i + 1, Len(s))
  <1>1. /\ a \in Seq(S) /\ Len(a) = i - 1
        /\ \A j \in 1 .. i - 1 : a[j] = s[j]
    OBVIOUS
  <1>2. /\ b \in Seq(S) /\ Len(b) = Len(s) - i
        /\ \A j \in 1 .. Len(s) - i : b[j] = s[j + i]
    OBVIOUS
  <1>3. Without(s, i) = a \o b
    BY DEF Without
  <1> HIDE DEF a, b
  <1>4. /\ a \o b \in Seq(S)
        /\ Len(a \o b) = Len(a) + Len(b)
        /\ \A j \in 1 .. Len(a) + Len(b) :
              (a \o b)[j] = IF j <= Len(a) THEN a[j] ELSE b[j - Len(a)]
    BY <1>1, <1>2, ConcatProperties
  <1>5. ASSUME NEW j \in 1 .. Len(s) - 1
        PROVE  (a \o b)[j] = IF j < i THEN s[j] ELSE s[j + 1]
    <2> DEFINE n == Len(s)
    <2>1. n \in Nat /\ i \in 1 .. n /\ j \in 1 .. n - 1
      OBVIOUS
    <2>2. (a \o b)[j] = IF j <= i - 1 THEN a[j] ELSE b[j - (i - 1)]
      BY <1>1, <1>2, <1>4, <2>1
    <2>3. j <= i - 1 => a[j] = s[j]
      BY <1>1, <2>1
    <2>4. j > i - 1 => b[j - (i - 1)] = s[j + 1]
      <3> SUFFICES ASSUME j > i - 1 PROVE b[j - (i - 1)] = s[j + 1]
        OBVIOUS
      <3>1. j - (i - 1) \in 1 .. Len(s) - i /\ j - (i - 1) + i = j + 1
        BY <2>1
      <3> QED
        BY <3>1, <1>2
    <2> HIDE DEF n
    <2> QED
      BY <2>1, <2>2, <2>3, <2>4
  <1> QED
    BY <1>1, <1>2, <1>3, <1>4, <1>5

\* Dropping the first element keeps the rest, in order.
LEMMA TailFacts ==
    ASSUME NEW S, NEW s \in Seq(S), s # <<>>
    PROVE  /\ Len(s) >= 1 /\ Head(s) = s[1]
           /\ Tail(s) \in Seq(S) /\ Len(Tail(s)) = Len(s) - 1
           /\ \A j \in 1 .. Len(s) - 1 : Tail(s)[j] = s[j + 1]
  OBVIOUS

\* The others keep their place in the queue, or move from the line to a slot.
KeepPlaces(r) ==
    \A q \in Requests \ {r} :
        /\ q \in (slots \cup Waiting)' <=> q \in slots \cup Waiting
        /\ q \in slots => q \in slots'

\* A free slot is taken.
LEMMA EnterEffect ==
    ASSUME LineOK, NEW r \in Requests, Queue!Enter(r)
    PROVE  LineOK' /\ KeepPlaces(r) /\ r \in (slots \cup Waiting)'
  <1>1. Waiting' = Waiting /\ Queue!Waiting = Waiting
    BY DEF Queue!Enter, Queue!Waiting, Waiting
  <1>2. \A i \in DOMAIN line : line[i] # r
    BY <1>1 DEF Queue!Enter, Waiting
  <1> QED
    BY <1>1, <1>2 DEF LineOK, KeepPlaces, Queue!Enter

\* A request joins the line.
LEMMA JoinEffect ==
    ASSUME LineOK, NEW r \in Requests, Queue!Join(r)
    PROVE  LineOK' /\ KeepPlaces(r) /\ r \in (slots \cup Waiting)'
  <1>1. /\ line' \in Seq(Requests) /\ Len(line) \in Nat
        /\ DOMAIN line = 1 .. Len(line) /\ DOMAIN line' = 1 .. Len(line) + 1
        /\ \A j \in 1 .. Len(line) : line'[j] = line[j]
        /\ line'[Len(line) + 1] = r /\ slots' = slots
    BY DEF LineOK, Queue!Join
  <1>2. Queue!Waiting = Waiting
    BY DEF Queue!Waiting, Waiting
  <1>3. r \notin slots /\ \A i \in DOMAIN line : line[i] # r
    BY <1>2 DEF Queue!Join, Waiting
  <1>4. \A j \in DOMAIN line' : line'[j] \notin slots'
    BY <1>1, <1>3 DEF LineOK
  <1>5. \A j, k \in DOMAIN line' : line'[j] = line'[k] => j = k
    BY <1>1, <1>3 DEF LineOK
  <1>6. \A q : q \in Waiting' <=> q \in Waiting \/ q = r
    <2>1. \A q : q \in Waiting' <=> \E j \in 1 .. Len(line) + 1 : line'[j] = q
      BY <1>1 DEF Waiting
    <2>2. \A q : q \in Waiting <=> \E j \in 1 .. Len(line) : line[j] = q
      BY <1>1 DEF Waiting
    <2> QED
      BY <1>1, <2>1, <2>2
  <1> QED
    BY <1>1, <1>4, <1>5, <1>6 DEF LineOK, KeepPlaces

\* A request leaves the line.
LEMMA AbandonEffect ==
    ASSUME LineOK, NEW r \in Requests, NEW i \in DOMAIN line, line[i] = r, Queue!Abandon(i)
    PROVE  LineOK' /\ KeepPlaces(r) /\ r \notin (slots \cup Waiting)'
  <1> DEFINE old(j) == IF j < i THEN j ELSE j + 1
  <1>0. line \in Seq(Requests) /\ i \in 1 .. Len(line) /\ Len(line) \in Nat
    BY DEF LineOK
  <1>1. /\ line' \in Seq(Requests)
        /\ Len(line') = Len(line) - 1
        /\ \A j \in 1 .. Len(line) - 1 : line'[j] = IF j < i THEN line[j] ELSE line[j + 1]
    <2>1. /\ Without(line, i) \in Seq(Requests)
          /\ Len(Without(line, i)) = Len(line) - 1
          /\ \A j \in 1 .. Len(line) - 1 :
                Without(line, i)[j] = IF j < i THEN line[j] ELSE line[j + 1]
      BY ONLY <1>0, WithoutFacts
    <2>2. line' = Without(line, i)
      BY DEF Queue!Abandon, Without
    <2> QED
      BY ONLY <2>1, <2>2
  <1>2. DOMAIN line = 1 .. Len(line) /\ DOMAIN line' = 1 .. Len(line) - 1
    BY <1>0, <1>1
  <1>3. \A j \in DOMAIN line' : old(j) \in DOMAIN line /\ old(j) # i /\ line'[j] = line[old(j)]
    BY <1>0, <1>1, <1>2
  <1>4. \A j, k \in DOMAIN line' : old(j) = old(k) => j = k
    BY <1>0, <1>2
  <1>5. \A k \in DOMAIN line \ {i} : \E j \in DOMAIN line' : k = old(j)
    <2> SUFFICES ASSUME NEW k \in DOMAIN line \ {i} PROVE \E j \in DOMAIN line' : k = old(j)
      OBVIOUS
    <2>1. CASE k < i
      <3>1. k \in DOMAIN line' /\ old(k) = k
        BY <1>0, <1>2, <2>1
      <3> QED
        BY <3>1
    <2>2. CASE k > i
      <3>1. k - 1 \in DOMAIN line' /\ old(k - 1) = k
        BY <1>0, <1>2, <2>2
      <3> QED
        BY <3>1
    <2> QED
      BY <1>0, <1>2, <2>1, <2>2
  <1> HIDE DEF old
  <1>6. slots' = slots
    BY DEF Queue!Abandon
  <1>7. r \notin Waiting' /\ r \notin slots
    BY <1>3 DEF LineOK, Waiting
  <1>8. \A q \in Requests \ {r} : q \in Waiting' <=> q \in Waiting
    <2> TAKE q \in Requests \ {r}
    <2>1. ASSUME q \in Waiting' PROVE q \in Waiting
      BY <2>1, <1>3 DEF Waiting
    <2>2. ASSUME q \in Waiting PROVE q \in Waiting'
      <3>1. PICK k \in DOMAIN line : line[k] = q
        BY <2>2 DEF Waiting
      <3>2. PICK j \in DOMAIN line' : k = old(j)
        BY <3>1, <1>5
      <3> QED
        BY <3>1, <3>2, <1>3 DEF Waiting
    <2> QED
      BY <2>1, <2>2
  <1>9. LineOK'
    BY <1>1, <1>3, <1>4, <1>6 DEF LineOK
  <1> QED
    BY <1>6, <1>7, <1>8, <1>9 DEF KeepPlaces

\* A slot is given up: the first in line inherits it, or nobody waits.
LEMMA LeaveEffect ==
    ASSUME LineOK, NEW r \in Requests, Queue!Leave(r)
    PROVE  LineOK' /\ KeepPlaces(r) /\ r \notin (slots \cup Waiting)'
  <1>0. r \in slots /\ line \in Seq(Requests) /\ r \notin Waiting
    BY DEF Queue!Leave, LineOK, Waiting
  <1>1. CASE line = <<>> /\ slots' = slots \ {r} /\ line' = line
    BY <1>0, <1>1 DEF LineOK, KeepPlaces, Waiting
  <1>2. CASE line # <<>> /\ slots' = (slots \ {r}) \cup {Head(line)} /\ line' = Tail(line)
    <2>1. /\ Len(line) >= 1 /\ Len(line) \in Nat /\ Head(line) = line[1]
          /\ line' \in Seq(Requests) /\ Len(line') = Len(line) - 1
          /\ DOMAIN line = 1 .. Len(line) /\ DOMAIN line' = 1 .. Len(line) - 1
          /\ \A j \in 1 .. Len(line) - 1 : line'[j] = line[j + 1]
      BY <1>0, <1>2, TailFacts
    <2>2. \A j \in DOMAIN line' : /\ j + 1 \in DOMAIN line /\ j + 1 # 1
                                 /\ line'[j] = line[j + 1]
      BY <2>1
    <2>3. line[1] \in Waiting /\ 1 \in DOMAIN line /\ line[1] # r
      BY <1>0, <2>1 DEF Waiting
    <2>4. \A q : q \in Waiting' <=> q \in Waiting /\ q # line[1]
      <3> TAKE q
      <3>1. ASSUME q \in Waiting' PROVE q \in Waiting /\ q # line[1]
        <4>1. PICK j \in DOMAIN line' : line'[j] = q
          BY <3>1 DEF Waiting
        <4> QED
          BY <4>1, <2>2, <2>3 DEF Waiting, LineOK
      <3>2. ASSUME q \in Waiting, q # line[1] PROVE q \in Waiting'
        <4>1. PICK k \in DOMAIN line : line[k] = q
          BY <3>2 DEF Waiting
        <4>2. k - 1 \in DOMAIN line' /\ line'[k - 1] = line[k]
          BY <4>1, <3>2, <2>1
        <4> QED
          BY <4>1, <4>2 DEF Waiting
      <3> QED
        BY <3>1, <3>2
    <2>5. \A j, k \in DOMAIN line' : line'[j] = line'[k] => j = k
      BY <2>1, <2>2 DEF LineOK
    <2>6. \A j \in DOMAIN line' : line'[j] \notin slots'
      BY <1>2, <2>1, <2>2, <2>3 DEF LineOK
    <2> QED
      BY <1>0, <1>2, <2>1, <2>3, <2>4, <2>5, <2>6 DEF LineOK, KeepPlaces
  <1> QED
    BY <1>1, <1>2 DEF Queue!Leave

\* A step of r's handler that enters or leaves the queue.
LEMMA QueueStep ==
    ASSUME HoldsOK, LineOK, NEW r \in Requests,
           AcquirePermit(r) \/ CancelPermit(r) \/ ReleasePermit(r)
    PROVE  HoldsOK' /\ LineOK'
  <1> USE DEF Go, Unopened, Uploading, Streaming, Fetching, Placed, Slotted, Beating,
        Byteless,
              lifecycleVars
  <1>0. Holds(r) /\ DOMAIN pc = Requests
    BY DEF HoldsOK
  <1>1. /\ DOMAIN pc' = Requests
        /\ \A q \in Requests \ {r} : pc'[q] = pc[q]
        /\ UNCHANGED <<requests, running, uploads, streams, fetching, used, held,
             heartbeats>>
    BY <1>0 DEF AcquirePermit, CancelPermit, ReleasePermit
  <1>2. ASSUME LineOK', KeepPlaces(r), Holds(r)'
        PROVE  HoldsOK' /\ LineOK'
    <2>1. Undisturbed(r)
      BY <1>1, <1>2 DEF Undisturbed, KeepPlaces
    <2> QED
      BY <1>1, <1>2, <2>1, OthersHold
  <1>3. CASE Go(r, "queue", "queued") /\ (Queue!Enter(r) \/ Queue!Join(r))
    <2>1. LineOK' /\ KeepPlaces(r) /\ r \in (slots \cup Waiting)'
      BY <1>3, EnterEffect, JoinEffect
    <2>2. Holds(r)'
      BY <1>0, <1>1, <1>3, <2>1 DEF Holds
    <2> QED
      BY <1>2, <2>1, <2>2
  <1>4. CASE Go(r, "queue", "dropStream") /\ UNCHANGED <<slots, line>>
    <2>1. LineOK' /\ KeepPlaces(r) /\ slots' = slots /\ Waiting' = Waiting
      BY <1>4 DEF LineOK, KeepPlaces, Waiting
    <2>2. Holds(r)'
      BY <1>0, <1>1, <1>4, <2>1 DEF Holds
    <2> QED
      BY <1>2, <2>1, <2>2
  <1>5. CASE /\ Go(r, "cancelPermit", "stopStream") \/ Go(r, "releasePermit", "stopStream")
             /\ \/ Queue!Leave(r)
                \/ \E i \in DOMAIN line : line[i] = r /\ Queue!Abandon(i)
    <2>1. LineOK' /\ KeepPlaces(r) /\ r \notin (slots \cup Waiting)'
      BY <1>5, LeaveEffect, AbandonEffect
    <2>2. Holds(r)'
      BY <1>0, <1>1, <1>5, <2>1 DEF Holds
    <2> QED
      BY <1>2, <2>1, <2>2
  <1> QED
    BY <1>3, <1>4, <1>5 DEF AcquirePermit, CancelPermit, LeaveQueue, ReleasePermit

-----------------------------------------------------------------------------
(* The invariant is inductive. *)

\* A server that has not served anything satisfies the invariant.
LEMMA InitIInv == Init => IInv
  <1> SUFFICES ASSUME Init PROVE IInv
    OBVIOUS
  <1> USE DEF Init, Work!Init, Uploads!Init, Streams!Init, Budget!Init, Queue!Init
  <1>1. HoldsOK
    BY DEF HoldsOK, Holds, Waiting, Unopened, Uploading, Streaming, Fetching, Placed,
       Slotted,
           Beating, Byteless
  <1>2. LineOK
    BY DEF LineOK
  <1>3. BytesOK
    <2>1. Budget!Reserved = {}
      BY DEF Budget!Reserved
    <2> QED
      BY <2>1, FS_EmptySet, BudgetCounts, ByteAssumption DEF BytesOK, Budget!BudgetBalanced
  <1> QED
    BY <1>1, <1>2, <1>3 DEF IInv

\* Steps that leave the queue or the budget alone keep what is said of them.
LEMMA LineKept == LineOK /\ UNCHANGED <<slots, line>> => LineOK'
  BY DEF LineOK

LEMMA BytesKept == BytesOK /\ UNCHANGED <<used, held>> => BytesOK'
  BY DEF BytesOK, Budget!BudgetBalanced, Budget!Reserved

\* Every step of a handler, a client, a heartbeat or the shutdown keeps it.
LEMMA NextIInv == IInv /\ [Next]_vars => IInv'
  <1> SUFFICES ASSUME IInv, [Next]_vars PROVE IInv'
    OBVIOUS
  <1> USE DEF IInv
  <1>1. CASE UNCHANGED <<slots, line, used, held>>
    <2>1. LineOK' /\ BytesOK'
      BY <1>1, LineKept, BytesKept
    <2>2. ASSUME NEW r \in Requests, Begin(r) \/ Handler(r) PROVE HoldsOK'
      BY <1>1, <2>2, QuietStep, ByteStep, QueueStep DEF Handler
    <2>3. ASSUME UNCHANGED <<poolVars, pc>>, heartbeats' \subseteq heartbeats,
                 requests' = requests, running' = running
          PROVE  HoldsOK'
      BY <2>3, OutsideStep
    <2>4. ASSUME NEW r \in Requests, ClientGone(r) PROVE HoldsOK'
      BY <2>3, <2>4 DEF ClientGone, Work!ClientGone
    <2>5. ASSUME NEW r \in Requests, HeartbeatFails(r) PROVE HoldsOK'
      BY <2>3, <2>5 DEF HeartbeatFails, Work!ClientGone
    <2>6. ASSUME NEW r \in Requests, HeartbeatEnds(r) PROVE HoldsOK'
      BY <2>3, <2>6 DEF HeartbeatEnds, lifecycleVars
    <2>7. ASSUME Shutdown PROVE HoldsOK'
      <3>1. requests' = requests /\ running' = running
        BY <2>7 DEF Shutdown, Work!Shutdown, Work!BeginDrain, Work!ShutdownReturns,
                    Work!CancelWork, Work!WaitForWork
      <3>2. UNCHANGED <<poolVars, pc>> /\ heartbeats' \subseteq heartbeats
        BY <2>7 DEF Shutdown
      <3> QED
        BY <2>3, <3>1, <3>2
    <2>8. ASSUME UNCHANGED vars PROVE HoldsOK'
      <3>1. /\ UNCHANGED <<poolVars, pc>> /\ heartbeats' \subseteq heartbeats
            /\ requests' = requests /\ running' = running
        BY <2>8 DEF vars, lifecycleVars
      <3> QED
        BY <2>3, <3>1
    <2> QED
      BY <2>1, <2>2, <2>4, <2>5, <2>6, <2>7, <2>8 DEF Next
  <1>2. CASE ~UNCHANGED <<slots, line, used, held>>
    <2>1. PICK r \in Requests : Begin(r) \/ Handler(r)
      BY <1>2 DEF Next, vars, poolVars, ClientGone, HeartbeatFails, HeartbeatEnds, Shutdown
    <2>2. CASE \/ ReserveBody(r) \/ Decode(r) \/ ReserveField(r) \/ Download(r)
               \/ Retain(r) \/ DropBytes(r)
      <3>1. UNCHANGED <<slots, line>>
        BY <2>2 DEF ReserveBody, Decode, ReserveField, Download, Retain, DropBytes
      <3> QED
        BY <2>2, <3>1, ByteStep, LineKept
    <2>3. CASE AcquirePermit(r) \/ CancelPermit(r) \/ ReleasePermit(r)
      <3>1. UNCHANGED <<used, held>>
        BY <2>3 DEF AcquirePermit, CancelPermit, ReleasePermit
      <3> QED
        BY <2>3, <3>1, QueueStep, BytesKept
    <2>4. \/ Begin(r) \/ AcquireUpload(r) \/ Authenticate(r) \/ AcquireFetch(r)
          \/ ReleaseFetch(r) \/ AcquireStream(r) \/ ReleaseUpload(r) \/ OpenStream(r)
          \/ Accepted(r) \/ WaitPermit(r) \/ Start(r) \/ RunEnds(r) \/ StopStream(r)
          \/ DropStream(r) \/ DropUpload(r) \/ Finish(r)
          => UNCHANGED <<slots, line, used, held>>
      BY DEF Begin, AcquireUpload, Authenticate, AcquireFetch, ReleaseFetch, AcquireStream,
             ReleaseUpload, OpenStream, Accepted, WaitPermit, Start, RunEnds, StopStream,
             DropStream, DropUpload, Finish, poolVars
    <2> QED
      BY <1>2, <2>1, <2>2, <2>3, <2>4 DEF Handler
  <1> QED
    BY <1>1, <1>2

\* The inductive invariant holds throughout.
THEOREM Inductive == Spec => []IInv
  BY InitIInv, NextIInv, PTL DEF Spec

-----------------------------------------------------------------------------
(* What follows. *)

\* Whichever of its early returns a handler takes, a request that is over holds
\* nothing, and the byte budget is the sum of what the others hold.
THEOREM HandlersGiveBack == Spec => []NothingLeaks
  <1>1. IInv => NothingLeaks
    <2> SUFFICES ASSUME IInv PROVE NothingLeaks
      OBVIOUS
    <2>1. ASSUME NEW r \in Requests, pc[r] = "idle"
          PROVE  /\ r \notin uploads \cup streams \cup fetching \cup slots \cup Waiting
                 /\ r \notin heartbeats \cup requests
                 /\ held[r] = 0
      BY <2>1 DEF IInv, HoldsOK, Holds, Unopened, Uploading, Streaming, Fetching,
         Placed, Beating,
                  Byteless
    <2> QED
      BY <2>1 DEF NothingLeaks, IInv, BytesOK
  <1> QED
    BY <1>1, Inductive, PTL

\* A job runs only with a slot and a stream admission, no longer as an upload,
\* and registered with the drain; and no deferred call gives anything back twice,
\* nor something that somebody else has inherited.
THEOREM HandlersHaveWhatTheyUse == Spec => []HandlersAreBacked
  <1>1. IInv => HandlersAreBacked
    BY DEF IInv, HoldsOK, Holds, HandlersAreBacked, Unopened, Uploading, Streaming, Fetching,
           Placed, Slotted
  <1> QED
    BY <1>1, Inductive, PTL

\* The handlers use the work lifecycle as it is meant to be used, so what a drain
\* promises it keeps for the whole server.
THEOREM LifecycleRefined == Spec => ImplementsWorkLifecycle
  <1>1. Init => Work!Init
    BY DEF Init
  <1>2. [Next]_vars => [Work!Next]_(Work!lifecycleVars)
    <2> SUFFICES ASSUME [Next]_vars PROVE [Work!Next]_(Work!lifecycleVars)
      OBVIOUS
    <2> USE DEF Work!Next
    <2>1. ASSUME NEW r \in Requests, Begin(r) PROVE Work!Next
      BY <2>1 DEF Begin
    <2>2. ASSUME NEW r \in Requests,
            Handler(r) PROVE Work!Next \/ UNCHANGED Work!lifecycleVars
      BY <2>2 DEF lifecycleVars, Work!lifecycleVars, Handler, AcquireUpload,
         ReserveBody, Authenticate, Decode, AcquireFetch,
             ReserveField, Download, ReleaseFetch, Retain, AcquireStream, AcquirePermit,
             ReleaseUpload, OpenStream, Accepted, WaitPermit, CancelPermit, Start, RunEnds,
             ReleasePermit, StopStream, DropStream, DropBytes, DropUpload, Finish
    <2>3. ASSUME NEW r \in Requests, ClientGone(r) \/ HeartbeatFails(r) PROVE Work!Next
      BY <2>3 DEF ClientGone, HeartbeatFails
    <2>4. ASSUME NEW r \in Requests, HeartbeatEnds(r) PROVE UNCHANGED Work!lifecycleVars
      BY <2>4 DEF HeartbeatEnds, lifecycleVars, Work!lifecycleVars
    <2>5. CASE Shutdown
      BY <2>5 DEF Shutdown
    <2>6. CASE UNCHANGED vars
      BY <2>6 DEF vars, lifecycleVars, Work!lifecycleVars
    <2> QED
      BY <2>1, <2>2, <2>3, <2>4, <2>5, <2>6 DEF Next
  <1> QED
    BY <1>1, <1>2, PTL DEF Spec, Work!Spec, ImplementsWorkLifecycle

-----------------------------------------------------------------------------
(* The drain.  The phase of shutdownServer and the draining flag must agree *)
(* (PhaseOK) for the other conjuncts to be inductive: what start and begin  *)
(* may do depends on the flag, what is promised on the phase.               *)

\* shutdownServer sets the flag first and never clears it; before that, a
\* context is cancelled only because its client went away.
PhaseOK ==
    /\ draining <=> phase # "serving"
    /\ phase = "serving" => requests \cap cancelled \subseteq gone

DrainIInv == Work!TypeOK /\ PhaseOK /\ DrainDecides /\ GraceKept /\ DoneIffDrained

\* A server that has not served anything satisfies the invariant.
LEMMA InitDrainIInv == Work!Init => DrainIInv
  BY DEF Work!Init, DrainIInv, Work!TypeOK, PhaseOK, DrainDecides, GraceKept, DoneIffDrained,
         Work!Phases

\* Every step of a handler, a client or the shutdown keeps the invariant.
LEMMA NextDrainIInv == DrainIInv /\ [Work!Next]_(Work!lifecycleVars) => DrainIInv'
  <1> SUFFICES ASSUME DrainIInv, [Work!Next]_(Work!lifecycleVars) PROVE DrainIInv'
    OBVIOUS
  <1> USE DEF DrainIInv, Work!TypeOK, PhaseOK, DrainDecides, GraceKept, DoneIffDrained, Work!Phases
  <1>1. ASSUME NEW r \in Requests, Work!begin(r) PROVE DrainIInv'
    BY <1>1 DEF Work!begin
  <1>2. ASSUME NEW r \in Requests, Work!start(r) PROVE DrainIInv'
    BY <1>2 DEF Work!start
  <1>3. ASSUME NEW r \in Requests, Work!finish(r) PROVE DrainIInv'
    BY <1>3 DEF Work!finish, Work!signalFinished
  <1>4. ASSUME NEW r \in Requests, Work!ClientGone(r) PROVE DrainIInv'
    BY <1>4 DEF Work!ClientGone
  <1>5. CASE Work!BeginDrain
    BY <1>5 DEF Work!BeginDrain, Work!signalFinished
  <1>6. CASE Work!ShutdownReturns
    BY <1>6 DEF Work!ShutdownReturns
  <1>7. CASE Work!CancelWork
    BY <1>7 DEF Work!CancelWork
  <1>8. CASE Work!WaitForWork
    BY <1>8 DEF Work!WaitForWork
  <1>9. CASE UNCHANGED Work!lifecycleVars
    BY <1>9 DEF Work!lifecycleVars
  <1> QED
    BY <1>1, <1>2, <1>3, <1>4, <1>5, <1>6, <1>7, <1>8, <1>9 DEF Work!Next, Work!Shutdown

\* Once the drain has begun every registered request runs or is cancelled, the
\* grace period is kept for running jobs, and WaitForWork is released exactly when
\* draining has left no handler, for the whole server.
THEOREM ServerDrains == Spec => []DrainIsOrderly
  <1>1. Work!Spec => []DrainIInv
    BY InitDrainIInv, NextDrainIInv, PTL DEF Work!Spec
  <1>2. DrainIInv => DrainIsOrderly
    BY DEF DrainIInv, DrainIsOrderly
  <1> QED
    BY <1>1, <1>2, LifecycleRefined, PTL DEF ImplementsWorkLifecycle

\* The transition from a queue permit to a running job cannot happen once
\* draining has begun, nor can an admission.
THEOREM NothingStartsWhileDraining == Spec => Work!NoStartAfterDrain
  <1> DEFINE Shrinks ==
        draining => requests' \subseteq requests /\ running' \subseteq running
  <1>1. [Work!Next]_(Work!lifecycleVars) => [Shrinks]_(Work!lifecycleVars)
    <2> SUFFICES ASSUME Work!Next, draining PROVE Shrinks
      OBVIOUS
    <2> QED
      BY DEF Work!Next, Work!Shutdown, Work!begin, Work!start, Work!finish, Work!ClientGone,
             Work!BeginDrain, Work!ShutdownReturns, Work!CancelWork, Work!WaitForWork
  <1> QED
    BY <1>1, LifecycleRefined, PTL DEF ImplementsWorkLifecycle, Work!Spec, Work!NoStartAfterDrain

-----------------------------------------------------------------------------
\* The handlers use the queue as the slot pool allows, in every configuration.
THEOREM QueueRefined == Spec => ImplementsQueue
  <1>1. Init => Queue!Init
    BY DEF Init
  <1>2. [Next]_vars => [Queue!Next]_(Queue!vars)
    <2> SUFFICES ASSUME Next, ~UNCHANGED <<slots, line>> PROVE Queue!Next
      BY DEF vars, poolVars, Queue!vars
    <2>1. PICK r \in Requests : AcquirePermit(r) \/ CancelPermit(r) \/ ReleasePermit(r)
      BY DEF Next, Handler, Begin, AcquireUpload, ReserveBody, Authenticate, Decode,
             AcquireFetch, ReserveField, Download, ReleaseFetch, Retain, AcquireStream,
             ReleaseUpload, OpenStream, Accepted, WaitPermit, Start, RunEnds, StopStream,
             DropStream, DropBytes, DropUpload, Finish, ClientGone, HeartbeatFails,
             HeartbeatEnds, Shutdown, poolVars
    <2>2. \/ Queue!Enter(r) \/ Queue!Join(r) \/ Queue!Leave(r)
          \/ \E i \in DOMAIN line : Queue!Abandon(i)
      BY <2>1 DEF AcquirePermit, CancelPermit, LeaveQueue, ReleasePermit
    <2> QED
      BY <2>2 DEF Queue!Next
  <1> QED
    BY <1>1, <1>2, PTL DEF Spec, Queue!Spec, ImplementsQueue
=============================================================================
