---------------------------- MODULE RequestPath ----------------------------
(***************************************************************************)
(* A request's way through the server: compileHandler and executeHandler   *)
(* with their middleware, composed with the work lifecycle, the upload and *)
(* stream limits, the byte budget, the payload fetch slots and the run     *)
(* queue.  A handler takes these resources one by one and returns early at *)
(* many places; the deferred calls then give them back in reverse order.   *)
(*                                                                         *)
(* The limits and the queue appear here as the atomic pools that           *)
(* AdmissionLimit and PermitQueue are shown to implement.  Authentication  *)
(* and request validation appear as steps that succeed or fail.            *)
(***************************************************************************)
EXTENDS DrainPromise, Integers, Sequences, FiniteSets

CONSTANTS Requests,
          ClaimOf,        \* the principal a request claims (upload limit)
          PrincipalOf,    \* the principal it authenticates as (stream limit)
          MaxUploads, MaxPrincipalUploads,
          MaxStreams, MaxPrincipalStreams,
          MaxFetches,     \* cap of payloadURLFetchSlots
          MaxRunning, MaxPending,
          ByteLimit,      \* requestByteBudget.limit
          MaxBody,        \* largest body reservation
          MaxField,       \* largest payload behind one URL
          MaxFields       \* bound: payload URLs of one request

\* Sizes in bytes; NewWithServices replaces a limit that is not positive.
ASSUME ByteAssumption == ByteLimit \in Nat /\ MaxBody \in Nat /\ MaxField \in Nat

VARIABLES uploads, streams,   \* holders of an upload, of a stream admission
          fetching,           \* holders of a payload fetch slot
          used, held,         \* the byte budget
          slots, line,        \* the run queue
          heartbeats,         \* requests whose heartbeat goroutine is alive
          fields,             \* payload URLs still to be fetched
          pc                  \* where each handler stands

poolVars == <<uploads, streams, fetching, used, held, slots, line>>
vars == <<lifecycleVars, poolVars, heartbeats, fields, pc>>

Work    == INSTANCE WorkLifecycle
Uploads == INSTANCE AdmissionPool WITH Callers <- Requests, PrincipalOf <- ClaimOf,
              Capacity <- MaxUploads, Share <- MaxPrincipalUploads, holders <- uploads
Streams == INSTANCE AdmissionPool WITH Callers <- Requests,
              Capacity <- MaxStreams, Share <- MaxPrincipalStreams, holders <- streams
Budget  == INSTANCE ByteBudget WITH Holders <- Requests, Limit <- ByteLimit
Queue   == INSTANCE SlotPool WITH Clients <- Requests, Capacity <- MaxRunning,
              holders <- slots

Init ==
    /\ Work!Init /\ Uploads!Init /\ Streams!Init /\ Budget!Init /\ Queue!Init
    /\ fetching = {} /\ heartbeats = {}
    /\ fields = [r \in Requests |-> 0]
    /\ pc = [r \in Requests |-> "idle"]

Go(r, from, to) == pc[r] = from /\ pc' = [pc EXCEPT ![r] = to]

-----------------------------------------------------------------------------
(* withWorkLifecycle, withUploadAdmission, requireAuth *)

\* A request that arrives while the server drains is answered 503 and leaves
\* no trace.
Begin(r) ==
    /\ Go(r, "idle", "admit") /\ Work!begin(r)
    /\ UNCHANGED <<poolVars, heartbeats, fields>>

\* A refusal is possible even when there is room: see AdmissionLimit.
AcquireUpload(r) ==
    /\ \/ Go(r, "admit", "reserve") /\ Uploads!Enter(r)
       \/ Go(r, "admit", "finish")  /\ UNCHANGED uploads
    /\ UNCHANGED <<lifecycleVars, streams, fetching, used, held, slots, line,
                   heartbeats, fields>>

\* The declared length, or the whole cap for a chunked body.
ReserveBody(r) ==
    /\ \E n \in 0 .. MaxBody :
          \/ Go(r, "reserve", "auth") /\ Budget!resize(r, n)
          \/ /\ Go(r, "reserve", "dropUpload")
             /\ ~Budget!FitsResize(r, n) /\ UNCHANGED <<used, held>>
    /\ UNCHANGED <<lifecycleVars, uploads, streams, fetching, slots, line, heartbeats,
                   fields>>

\* requireAuth, the method check and the principal's rate limit.
Authenticate(r) ==
    /\ \/ Go(r, "auth", "decode")
       \/ Go(r, "auth", "dropBytes")
    /\ UNCHANGED <<lifecycleVars, poolVars, heartbeats, fields>>

-----------------------------------------------------------------------------
(* compileHandler and executeHandler up to the queue *)

\* Decode, retain the decoded strings, apply policies and validate.  A body
\* that does not decode, a budget that is exhausted or an invalid request
\* ends the handler, after the resize if validation is what fails.
Decode(r) ==
    /\ \/ \E n \in 0 .. MaxBody, f \in 0 .. MaxFields,
             next \in {"resolve", "dropBytes"} :
             /\ Budget!resize(r, n)
             /\ fields' = [fields EXCEPT ![r] = f]
             /\ Go(r, "decode", IF next = "resolve" /\ f = 0 THEN "retain" ELSE next)
       \/ Go(r, "decode", "dropBytes") /\ UNCHANGED <<used, held, fields>>
    /\ UNCHANGED <<lifecycleVars, uploads, streams, fetching, slots, line, heartbeats>>

\* acquirePayloadURLFetch does not wait.
AcquireFetch(r) ==
    /\ \/ /\ Go(r, "resolve", "field")
          /\ Cardinality(fetching) < MaxFetches
          /\ fetching' = fetching \cup {r}
       \/ /\ Go(r, "resolve", "dropBytes")
          /\ Cardinality(fetching) >= MaxFetches
          /\ UNCHANGED fetching
    /\ UNCHANGED <<lifecycleVars, uploads, streams, used, held, slots, line,
                   heartbeats, fields>>

\* resolveTextURL and resolveBase64URL reserve the worst case first.
ReserveField(r) ==
    /\ \/ Go(r, "field", "download") /\ Budget!reserve(r, MaxField)
       \/ /\ Go(r, "field", "fetchFailed")
          /\ ~Budget!FitsReserve(MaxField) /\ UNCHANGED <<used, held>>
    /\ UNCHANGED <<lifecycleVars, uploads, streams, fetching, slots, line, heartbeats,
                   fields>>

\* The download ends; an error, a timeout or a cancelled context retains nothing.
Download(r) ==
    /\ \/ /\ r \notin cancelled
          /\ \E n \in 0 .. MaxField : Budget!settle(r, MaxField, n)
          /\ Go(r, "download", IF fields[r] = 1 THEN "fetched" ELSE "field")
       \/ /\ Budget!settle(r, MaxField, 0)
          /\ Go(r, "download", "fetchFailed")
    /\ fields' = [fields EXCEPT ![r] = @ - 1]
    /\ UNCHANGED <<lifecycleVars, uploads, streams, fetching, slots, line, heartbeats>>

ReleaseFetch(r) ==
    /\ Go(r, "fetched", "retain") \/ Go(r, "fetchFailed", "dropBytes")
    /\ fetching' = fetching \ {r}
    /\ UNCHANGED <<lifecycleVars, uploads, streams, used, held, slots, line,
                   heartbeats, fields>>

\* Validate again, retain what the resolved request holds, check its size for
\* a remote executor.
Retain(r) ==
    /\ \/ \E n \in 0 .. MaxBody + MaxField, next \in {"stream", "dropBytes"} :
             Budget!resize(r, n) /\ Go(r, "retain", next)
       \/ Go(r, "retain", "dropBytes") /\ UNCHANGED <<used, held>>
    /\ UNCHANGED <<lifecycleVars, uploads, streams, fetching, slots, line, heartbeats,
                   fields>>

AcquireStream(r) ==
    /\ \/ Go(r, "stream", "queue")     /\ Streams!Enter(r)
       \/ Go(r, "stream", "dropBytes") /\ UNCHANGED streams
    /\ UNCHANGED <<lifecycleVars, uploads, fetching, used, held, slots, line,
                   heartbeats, fields>>

AcquirePermit(r) ==
    /\ \/ Go(r, "queue", "queued") /\ Queue!Enter(r)
       \/ /\ Go(r, "queue", "queued") /\ Queue!Join(r)
          /\ MaxPending > 0 => Len(line) < MaxPending
       \/ /\ Go(r, "queue", "dropStream") /\ Cardinality(slots) >= MaxRunning
          /\ MaxPending > 0 /\ Len(line) >= MaxPending
          /\ UNCHANGED <<slots, line>>
    /\ UNCHANGED <<lifecycleVars, uploads, streams, fetching, used, held, heartbeats,
                   fields>>

-----------------------------------------------------------------------------
(* The stream, the wait for a slot and the run *)

ReleaseUpload(r) ==
    /\ Go(r, "queued", "open") /\ Uploads!Leave(r)
    /\ UNCHANGED <<lifecycleVars, streams, fetching, used, held, slots, line,
                   heartbeats, fields>>

\* Mutant: when no stream can be opened, a permit that may still be waiting is
\* released like a slot.
OpenStream_Releases(r) ==
    /\ \/ Go(r, "open", "accepted") /\ heartbeats' = heartbeats \cup {r}
       \/ Go(r, "open", "releasePermit") /\ UNCHANGED heartbeats
    /\ UNCHANGED <<lifecycleVars, poolVars, fields>>

\* sse.New; the heartbeat goroutine lives from here on.
OpenStream(r) ==
    /\ \/ Go(r, "open", "accepted") /\ heartbeats' = heartbeats \cup {r}
       \/ Go(r, "open", "cancelPermit") /\ UNCHANGED heartbeats
    /\ UNCHANGED <<lifecycleVars, poolVars, fields>>

\* The "accepted" event is written or not.
Accepted(r) ==
    /\ Go(r, "accepted", "wait") \/ Go(r, "accepted", "cancelPermit")
    /\ UNCHANGED <<lifecycleVars, poolVars, heartbeats, fields>>

\* Mutant: Wait returns without an error although no slot was granted.
WaitPermit_ReturnsEarly(r) ==
    /\ \/ Go(r, "wait", "start") /\ r \notin cancelled
       \/ Go(r, "wait", "cancelPermit") /\ r \in cancelled
    /\ UNCHANGED <<lifecycleVars, poolVars, heartbeats, fields>>

\* Permit.Wait: a cancelled context wins over a slot that is already there.
WaitPermit(r) ==
    /\ \/ Go(r, "wait", "start") /\ r \in slots \ cancelled
       \/ Go(r, "wait", "cancelPermit") /\ r \in cancelled
    /\ UNCHANGED <<lifecycleVars, poolVars, heartbeats, fields>>

\* Mutant: a slot granted meanwhile is dropped and not handed on.
LeaveQueue_DropsSlot(r) ==
    \/ r \in slots /\ slots' = slots \ {r} /\ UNCHANGED line
    \/ \E i \in DOMAIN line : line[i] = r /\ Queue!Abandon(i)

\* Leave the line, or give the slot up if it has been granted meanwhile.
LeaveQueue(r) ==
    \/ r \in slots /\ Queue!Leave(r)
    \/ \E i \in DOMAIN line : line[i] = r /\ Queue!Abandon(i)

CancelPermit(r) ==
    /\ Go(r, "cancelPermit", "stopStream") /\ LeaveQueue(r)
    /\ UNCHANGED <<lifecycleVars, uploads, streams, fetching, used, held, heartbeats,
                   fields>>

\* Mutant: the drain is not looked at again after the wait.
Start_IgnoresDrain(r) ==
    /\ Go(r, "start", "run")
    /\ running' = running \cup {r}
    /\ UNCHANGED <<draining, requests, cancelled, gone, finished, phase>>
    /\ UNCHANGED <<poolVars, heartbeats, fields>>

Start(r) ==
    /\ \/ Go(r, "start", "run") /\ Work!start(r)
       \/ /\ Go(r, "start", "releasePermit")
          /\ draining \/ r \in cancelled
          /\ UNCHANGED lifecycleVars
    /\ UNCHANGED <<poolVars, heartbeats, fields>>

\* The run and the events after it; a failed write only ends it sooner.
RunEnds(r) ==
    /\ Go(r, "run", "releasePermit")
    /\ UNCHANGED <<lifecycleVars, poolVars, heartbeats, fields>>

-----------------------------------------------------------------------------
(* Deferred calls, last registered first *)

ReleasePermit(r) ==
    /\ Go(r, "releasePermit", "stopStream") /\ Queue!Leave(r)
    /\ UNCHANGED <<lifecycleVars, uploads, streams, fetching, used, held, heartbeats,
                   fields>>

\* stopStream cancels the stream's context, then heartbeatDone is awaited.
StopStream(r) ==
    /\ Go(r, "stopStream", "dropStream") /\ r \notin heartbeats
    /\ UNCHANGED <<lifecycleVars, poolVars, heartbeats, fields>>

DropStream(r) ==
    /\ Go(r, "dropStream", "dropBytes") /\ Streams!Leave(r)
    /\ UNCHANGED <<lifecycleVars, uploads, fetching, used, held, slots, line,
                   heartbeats, fields>>

DropBytes(r) ==
    /\ Go(r, "dropBytes", "dropUpload") /\ Budget!resize(r, 0)
    /\ UNCHANGED <<lifecycleVars, uploads, streams, fetching, slots, line, heartbeats,
                   fields>>

\* admission.Release runs once: usually ReleaseUpload came first.
DropUpload(r) ==
    /\ Go(r, "dropUpload", "finish")
    /\ uploads' = uploads \ {r}
    /\ UNCHANGED <<lifecycleVars, streams, fetching, used, held, slots, line,
                   heartbeats, fields>>

Finish(r) ==
    /\ Go(r, "finish", "idle") /\ Work!finish(r)
    /\ UNCHANGED <<poolVars, heartbeats, fields>>

-----------------------------------------------------------------------------
(* The client and the heartbeat goroutine *)

ClientGone(r) ==
    /\ Work!ClientGone(r)
    /\ UNCHANGED <<poolVars, heartbeats, fields, pc>>

HeartbeatFails(r) ==
    /\ r \in heartbeats /\ heartbeats' = heartbeats \ {r}
    /\ Work!ClientGone(r)
    /\ UNCHANGED <<poolVars, fields, pc>>

\* Mutant: heartbeatDone is awaited without stopping the stream first.
HeartbeatEnds_RequestOnly(r) ==
    /\ r \in heartbeats /\ r \in cancelled
    /\ heartbeats' = heartbeats \ {r}
    /\ UNCHANGED <<lifecycleVars, poolVars, fields, pc>>

HeartbeatEnds(r) ==
    /\ r \in heartbeats /\ (r \in cancelled \/ pc[r] = "stopStream")
    /\ heartbeats' = heartbeats \ {r}
    /\ UNCHANGED <<lifecycleVars, poolVars, fields, pc>>

Shutdown == Work!Shutdown /\ UNCHANGED <<poolVars, heartbeats, fields, pc>>

Handler(r) ==
    \/ AcquireUpload(r) \/ ReserveBody(r) \/ Authenticate(r) \/ Decode(r)
    \/ AcquireFetch(r) \/ ReserveField(r) \/ Download(r) \/ ReleaseFetch(r)
    \/ Retain(r) \/ AcquireStream(r) \/ AcquirePermit(r) \/ ReleaseUpload(r)
    \/ OpenStream(r) \/ Accepted(r) \/ WaitPermit(r) \/ CancelPermit(r)
    \/ Start(r) \/ RunEnds(r) \/ ReleasePermit(r) \/ StopStream(r)
    \/ DropStream(r) \/ DropBytes(r) \/ DropUpload(r) \/ Finish(r)

Next ==
    \/ \E r \in Requests : \/ Begin(r) \/ Handler(r) \/ ClientGone(r)
                           \/ HeartbeatFails(r) \/ HeartbeatEnds(r)
    \/ Shutdown

Spec == Init /\ [][Next]_vars

\* Every handler goes on: reads have deadlines, downloads time out, runs have a
\* wall-clock limit.  The heartbeat watches its context, and shutdownServer is
\* not held up anywhere but in WaitForWork.
Fairness ==
    /\ \A r \in Requests : WF_vars(Handler(r)) /\ WF_vars(HeartbeatEnds(r))
    /\ WF_vars(Shutdown /\ phase # "serving")

FairSpec == Spec /\ Fairness

-----------------------------------------------------------------------------
(* Properties *)

Waiting == {line[i] : i \in DOMAIN line}

\* Whichever early return a handler takes, it gives back everything it took:
\* a request that is over holds no admission, slot, place in line, byte,
\* goroutine or registration; and the byte budget is what the others hold.
NothingLeaks ==
    /\ Budget!BudgetBalanced
    /\ \A r \in Requests : pc[r] = "idle" =>
          /\ r \notin uploads \cup streams \cup fetching \cup slots \cup Waiting
          /\ r \notin heartbeats \cup requests
          /\ held[r] = 0

\* A job runs only with a slot and a stream admission and its bytes accounted
\* for, never while it still counts as an upload, and never behind the drain's
\* back.  Whatever a handler is about to give back it still has: none of the
\* guards of Leave, finish and settle ever stands in a handler's way, and no
\* deferred call gives anything back twice.
HandlersAreBacked ==
    \A r \in Requests :
        /\ pc[r] = "run" => /\ r \in slots /\ r \in streams /\ r \notin uploads
                           /\ r \in running
        /\ pc[r] = "download" => held[r] >= MaxField
        /\ pc[r] \in {"fetched", "fetchFailed"} => r \in fetching
        /\ pc[r] = "queued" => r \in uploads
        /\ pc[r] = "cancelPermit" => r \in slots \cup Waiting
        /\ pc[r] = "releasePermit" => r \in slots
        /\ pc[r] = "dropStream" => r \in streams
        /\ pc[r] = "finish" => r \in requests

\* Seen from the drain's side, the handlers do nothing but begin, start, be
\* cancelled and finish as WorkLifecycle describes, so what is proved there
\* holds of the whole server.
ImplementsWorkLifecycle == Work!Spec

\* Seen from the queue's side, the handlers use every permit the way the slot
\* pool allows: no slot is given up twice, dropped or used out of turn.
ImplementsQueue == Queue!Spec

\* A shutdown that was requested completes, from any mixture of handlers, and every
\* request that was admitted comes to an end.
EverythingEnds ==
    /\ phase = "grace" ~> phase = "exited"
    /\ \A r \in Requests : pc[r] # "idle" ~> pc[r] = "idle"
=============================================================================
