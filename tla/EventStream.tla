---------------------------- MODULE EventStream ----------------------------
(***************************************************************************)
(* The server-sent event stream of one request: sse.Writer for executions  *)
(* and sse.CompileWriter for compilations, used by the handler, by the     *)
(* callbacks of the run and by the heartbeat goroutine at the same time.   *)
(*                                                                         *)
(* Event takes the lock, decides by the wire budget whether the frame is   *)
(* written, dropped without an error or refused, and then writes it in     *)
(* several calls each of which may fail.  The other end, remoteio.Reader,  *)
(* enforces limits of its own on what arrives.                             *)
(*                                                                         *)
(* Sizes are bytes in small numbers; Overhead is the frame around the      *)
(* payload, the same for all names.                                        *)
(***************************************************************************)
EXTENDS Integers, Sequences, FiniteSetsExt

CONSTANTS Payloads,           \* sizes of payloads
          Overhead,           \* frame bytes around a payload
          EventMax,           \* largest payload (SSEEventBytes)
          LineMax,            \* longest line (SSELineBytes)
          StreamMax,          \* whole stream (SSEStreamBytes)
          HeartbeatReserve,   \* heartbeatWireReserve
          LogReserve          \* what logs leave of the auxiliary share

\* What the constants of the packages sse, remoteio and platform satisfy.
SizesFit ==
    /\ Payloads \subseteq Nat
    /\ {Overhead, EventMax, LineMax, StreamMax, HeartbeatReserve, LogReserve} \subseteq Nat
    /\ EventMax + Overhead <= StreamMax /\ Overhead <= LineMax
    /\ LineMax + LogReserve <= StreamMax /\ HeartbeatReserve <= LogReserve
    /\ HeartbeatReserve <= EventMax /\ HeartbeatReserve <= LineMax

VARIABLES compile,    \* the stream of a compilation: CompileWriter
          mu,         \* who holds the lock, or "nobody"
          failed,     \* Writer.failed is set
          wireBytes, auxBytes, logBytes,
          finished,   \* CompileWriter.finished; for Writer: the result is out
          stopped,    \* stopStream was called
          pc, frame,  \* where each user stands, and the frame it writes
          wire        \* what the peer receives, line by line

vars == <<compile, mu, failed, wireBytes, auxBytes, logBytes, finished, stopped, pc,
          frame, wire>>

Users == {"handler", "run", "heartbeat"}
Idle == [name |-> "none", payload |-> 0]

\* Which events each user sends.  A pipeline's hooks are unset, which is the
\* case that "run" sends nothing.
EventsOf(u) == CASE u = "handler"   -> {"progress", "result"}
                 [] u = "run"       -> {"log", "image"}
                 [] u = "heartbeat" -> {"heartbeat"}

Init ==
    /\ compile \in BOOLEAN
    /\ mu = "nobody" /\ failed = FALSE /\ finished = FALSE /\ stopped = FALSE
    /\ wireBytes = 0 /\ auxBytes = 0 /\ logBytes = 0
    /\ pc = [u \in Users |-> IF u = "handler" THEN "opening" ELSE "waiting"]
    /\ frame = [u \in Users |-> Idle]
    /\ wire = <<>>

budget == <<wireBytes, auxBytes, logBytes>>

\* New: only once the header is flushed are there other users of the stream.
New ==
    /\ pc["handler"] = "opening"
    /\ \/ pc' = [u \in Users |-> "idle"] /\ UNCHANGED stopped
       \/ pc' = [u \in Users |-> "done"] /\ stopped' = TRUE
    /\ UNCHANGED <<compile, mu, failed, budget, finished, frame, wire>>

-----------------------------------------------------------------------------
(* Event: what happens to a payload of n bytes *)

Limit == Min({EventMax, LineMax - Overhead, StreamMax - wireBytes - Overhead})

AuxLimit == StreamMax - LineMax

\* Mutant: display frames may use the heartbeats' share too.
ExecuteDrops_NoReserve(name, n) ==
    /\ name \notin {"heartbeat", "result"}
    /\ auxBytes + n + Overhead > AuxLimit

ExecuteDrops(name, n) ==
    /\ name \notin {"heartbeat", "result"}
    /\ \/ auxBytes + n + Overhead > AuxLimit - HeartbeatReserve
       \/ name = "log" /\ logBytes + n + Overhead > AuxLimit - LogReserve

ExecuteRefuses(name, n) ==
    \/ name = "heartbeat" /\ auxBytes + n + Overhead > AuxLimit
    \/ name # "result" /\ n > Limit

\* Once the result is out, a compile stream is over.
CompileDrops(name, n) == finished

CompileRefuses(name, n) ==
    \/ n > EventMax \/ n + Overhead > LineMax
    \/ wireBytes + n + Overhead > StreamMax
    \/ name # "result" /\ auxBytes + n + Overhead > StreamMax - (EventMax + Overhead)

Drops(name, n)   == IF compile THEN CompileDrops(name, n) ELSE ExecuteDrops(name, n)
Refuses(name, n) == IF compile THEN CompileRefuses(name, n) ELSE ExecuteRefuses(name, n)

\* marshalRunResult shortens the display text of an execute result to the limit,
\* unless what may not be shortened is already too long (CannotShorten).
Shortened(name, n) ==
    IF compile \/ name # "result" \/ n <= Limit THEN {n}
    ELSE {m \in Payloads : m <= Limit}

CannotShorten(name, n) == ~compile /\ name = "result" /\ n > Limit

-----------------------------------------------------------------------------
(* The users *)

\* What an error from Event makes its user do: the handler returns, the run's
\* callbacks stop the stream and go on, the heartbeat stops it and ends.
OnError(u) ==
    /\ pc' = [pc EXCEPT ![u] = IF u = "run" THEN "idle" ELSE "done"]
    /\ stopped' = (stopped \/ u # "handler")

\* After the result the handler is done; heartbeats go on until it has stopped
\* the stream.
OnSuccess(u, name) ==
    /\ pc' = [pc EXCEPT ![u] = IF name = "result" THEN "done" ELSE "idle"]
    /\ UNCHANGED stopped

\* The handler does not send a result on a stopped stream, nor before the run
\* has ended.
MaySend(u, name) ==
    /\ pc[u] = "idle" /\ mu = "nobody" /\ name \in EventsOf(u)
    /\ name = "result" => ~stopped /\ pc["run"] = "done"
    /\ u = "heartbeat" => ~stopped

\* Mutant: a stream that has failed is written to again.
Blocked_Never == FALSE

Blocked == failed

EventFailed(u) ==
    /\ \E name \in EventsOf(u) : MaySend(u, name)
    /\ Blocked /\ OnError(u)
    /\ UNCHANGED <<compile, mu, failed, budget, finished, frame, wire>>

EventDropped(u) ==
    \E name \in EventsOf(u), n \in Payloads :
        /\ MaySend(u, name) /\ ~Blocked /\ Drops(name, n)
        /\ OnSuccess(u, name)
        /\ UNCHANGED <<compile, mu, failed, budget, finished, frame, wire>>

EventRefused(u) ==
    \E name \in EventsOf(u), n \in Payloads :
        /\ MaySend(u, name) /\ ~Blocked /\ ~Drops(name, n)
        /\ Refuses(name, n) \/ CannotShorten(name, n)
        /\ OnError(u)
        /\ UNCHANGED <<compile, mu, failed, budget, finished, frame, wire>>

BeginWrite(u) ==
    \E name \in EventsOf(u), n \in Payloads :
        /\ MaySend(u, name) /\ ~Blocked /\ ~Drops(name, n) /\ ~Refuses(name, n)
        /\ \E m \in Shortened(name, n) :
              frame' = [frame EXCEPT ![u] = [name |-> name, payload |-> m]]
        /\ mu' = u /\ pc' = [pc EXCEPT ![u] = "event"]
        /\ UNCHANGED <<compile, failed, budget, finished, stopped, wire>>

\* One of the two lines of the frame; "data" also stands for the empty line.
WriteLine(u) ==
    /\ pc[u] \in {"event", "data"}
    /\ wire' = Append(wire, [line |-> pc[u], name |-> frame[u].name,
                             payload |-> frame[u].payload])
    /\ pc' = [pc EXCEPT ![u] = IF @ = "event" THEN "data" ELSE "flush"]
    /\ UNCHANGED <<compile, mu, failed, budget, finished, stopped, frame>>

\* The deadline cannot be set, a write or the flush fails: the stream is dead.
WriteFails(u) ==
    /\ pc[u] \in {"event", "data", "flush"}
    /\ failed' = TRUE /\ mu' = "nobody" /\ OnError(u)
    /\ frame' = [frame EXCEPT ![u] = Idle]
    /\ UNCHANGED <<compile, budget, finished, wire>>

\* The frame is out and counted.
Flush(u) ==
    LET bytes == frame[u].payload + Overhead
        name  == frame[u].name
    IN  /\ pc[u] = "flush"
        /\ wireBytes' = wireBytes + bytes
        /\ auxBytes' = auxBytes + IF name = "result" THEN 0 ELSE bytes
        /\ logBytes' = logBytes + IF name = "log" THEN bytes ELSE 0
        /\ finished' = (finished \/ name = "result")
        /\ mu' = "nobody" /\ OnSuccess(u, name)
        /\ frame' = [frame EXCEPT ![u] = Idle]
        /\ UNCHANGED <<compile, failed, wire>>

\* The run is over and its callbacks with it.
RunEnds ==
    /\ pc["run"] = "idle" /\ pc' = [pc EXCEPT !["run"] = "done"]
    /\ UNCHANGED <<compile, mu, failed, budget, finished, stopped, frame, wire>>

\* The client went away, the work was cancelled, or the handler returned.
Cancelled ==
    /\ pc["handler"] # "opening" /\ ~stopped /\ stopped' = TRUE
    /\ UNCHANGED <<compile, mu, failed, budget, finished, pc, frame, wire>>

\* Heartbeat returns once its context is done.
HeartbeatEnds ==
    /\ pc["heartbeat"] = "idle" /\ stopped
    /\ pc' = [pc EXCEPT !["heartbeat"] = "done"]
    /\ UNCHANGED <<compile, mu, failed, budget, finished, stopped, frame, wire>>

Next ==
    \/ New \/ RunEnds \/ Cancelled \/ HeartbeatEnds
    \/ \E u \in Users : \/ EventFailed(u) \/ EventDropped(u) \/ EventRefused(u)
                        \/ BeginWrite(u) \/ WriteLine(u) \/ WriteFails(u) \/ Flush(u)

Spec == Init /\ [][Next]_vars

-----------------------------------------------------------------------------
(* Properties *)

\* The bytes on the wire of the frames with these names.
FramesBytes(names) ==
    Cardinality(UNION {{i} \X (1 .. wire[i].payload + Overhead) :
                           i \in {j \in DOMAIN wire : wire[j].line = "data" /\ wire[j].name \in names}})

\* The peer sees whole frames, whoever writes them; only the last one may be cut
\* short, and then nothing follows it.  remoteio.SSEReader, with the limits its
\* constructor gives it for this kind of stream, never rejects what was written.
StreamIsReadable ==
    /\ \A i \in DOMAIN wire :
          IF i % 2 = 1 THEN wire[i].line = "event"
                       ELSE wire[i].line = "data" /\ wire[i].name = wire[i - 1].name
    /\ \A i \in DOMAIN wire : wire[i].payload <= EventMax /\ wire[i].payload + Overhead <= LineMax
    /\ FramesBytes({"progress", "result", "log", "image", "heartbeat"}) <= StreamMax

\* Nobody uses up what others need.  Until the result is written there is room for
\* the largest result, however much the run has logged and however long it has been
\* kept waiting.  In an execution, a heartbeat is refused only when heartbeats alone
\* used their reserve, and an image is dropped only when frames other than logs used
\* up theirs.
SharesKept ==
    /\ ~finished => IF compile THEN StreamMax - wireBytes >= EventMax + Overhead
                               ELSE Limit = Min({EventMax, LineMax - Overhead})
    /\ ~compile /\ ~failed /\ mu = "nobody" =>
        \A n \in Payloads :
            /\ ExecuteRefuses("heartbeat", n) /\ ~finished =>
                  FramesBytes({"heartbeat"}) + n + Overhead > HeartbeatReserve
            /\ ExecuteDrops("image", n) =>
                  FramesBytes({"heartbeat", "progress", "image"}) + n + Overhead
                      > LogReserve - HeartbeatReserve
=============================================================================
