----------------------------- MODULE RemoteRun -----------------------------
(***************************************************************************)
(* remoteRunner.run of the execute package and Run of the compile package: *)
(* one request handed to another server.  The client authorizes, uploads,  *)
(* checks the response and then reads events until a result, while four    *)
(* clocks and the caller may each cancel it: the upload timer, the timer   *)
(* for an error body, the idle timer and the absolute deadline.            *)
(*                                                                         *)
(* The peer is external: it may answer early or never, send frames of any  *)
(* kind, stop in the middle of one, close or break the connection.         *)
(***************************************************************************)
EXTENDS Integers, Sequences, FiniteSets

CONSTANTS MaxFrames,   \* bound: frames the peer begins
          EventLimit,  \* remoteLogLimits: one chunk, one stream, and what is
          StreamLimit, \*   passed on to the hooks
          CaptureLimit

VARIABLES pc, response,
          callerGone,            \* ctx is done
          streamErr,             \* streamCtx.Err(): "none", "cancelled" or "deadline"
          upload, body, idle,    \* timers
          timedOut,              \* the upload timer's own flag
          wire, last,            \* lines not yet read, and the last one sent
          connection,            \* "none", "open", "eof" or "broken"
          frames,                \* frames the peer has begun
          complete,              \* ghost: the peer has sent all the data of a valid result
          event, data,           \* SSEReader.Next's eventName, and its data
          logBytes, passedOn,    \* log bytes received, and given to the hooks
          errorSeen              \* remoteErrorReason is set

timers == <<upload, body, idle, timedOut>>
peer   == <<wire, last, connection, frames, complete>>
reader == <<event, data, logBytes, passedOn, errorSeen>>
vars   == <<pc, response, callerGone, streamErr, timers, peer, reader>>

Frames == {"heartbeat", "progress", "log", "image", "error", "result"}

NoData == [kind |-> "none", size |-> 0]

\* What a data line carries: "cut" is the beginning of one, "bad" does not decode
\* or fails a check of its kind; the size of a log chunk matters.
DataOf(name) ==
    {[kind |-> k, size |-> 0] : k \in {"cut", "bad"}} \cup
    {[kind |-> "good", size |-> n] : n \in IF name = "log" THEN 1 .. EventLimit + 1 ELSE {0}}

Line(kind, name, d) == [line |-> kind, name |-> name, data |-> d]
Blank == Line("blank", "none", NoData)

Init ==
    /\ pc = "validate" /\ response = "none" /\ callerGone = FALSE /\ streamErr = "none"
    /\ upload = "off" /\ body = "off" /\ idle = "off" /\ timedOut = FALSE
    /\ wire = <<>> /\ last = Blank /\ connection = "none" /\ frames = 0 /\ complete = FALSE
    /\ event = "none" /\ data = NoData /\ logBytes = 0 /\ passedOn = 0
    /\ errorSeen = FALSE

Go(from, to) == pc = from /\ pc' = to

\* Every return stops the timers and cancels streamCtx, which is not used again.
Return(what) ==
    /\ pc' = "returned" /\ response' = what
    /\ upload' = IF upload = "armed" THEN "stopped" ELSE upload
    /\ idle' = IF idle = "armed" THEN "stopped" ELSE idle
    /\ UNCHANGED <<body, timedOut>>

-----------------------------------------------------------------------------
(* Timers and contexts *)

Cancel(cause) == streamErr' = IF streamErr = "none" THEN cause ELSE streamErr

\* Mutant: the upload timer cancels before it records that it fired.
UploadFires_CancelsFirst ==
    /\ \/ upload = "armed" /\ upload' = "firing" /\ Cancel("cancelled") /\ UNCHANGED timedOut
       \/ upload = "firing" /\ upload' = "fired" /\ timedOut' = TRUE /\ UNCHANGED streamErr
    /\ UNCHANGED <<pc, response, callerGone, body, idle, peer, reader>>

UploadFires ==
    /\ \/ upload = "armed" /\ upload' = "firing" /\ timedOut' = TRUE /\ UNCHANGED streamErr
       \/ upload = "firing" /\ upload' = "fired" /\ Cancel("cancelled") /\ UNCHANGED timedOut
    /\ UNCHANGED <<pc, response, callerGone, body, idle, peer, reader>>

\* WroteRequest stops the timer; the peer may have answered before.
WroteRequest ==
    /\ upload = "armed" /\ pc \in {"do", "reading", "errorBody"}
    /\ upload' = "stopped"
    /\ UNCHANGED <<pc, response, callerGone, streamErr, body, idle, timedOut, peer, reader>>

BodyFires ==
    /\ \/ body = "armed" /\ body' = "firing" /\ UNCHANGED streamErr
       \/ body = "firing" /\ body' = "fired" /\ Cancel("cancelled")
    /\ UNCHANGED <<pc, response, callerGone, upload, idle, timedOut, peer, reader>>

IdleFires ==
    /\ idle = "armed" /\ idle' = "fired" /\ Cancel("cancelled")
    /\ UNCHANGED <<pc, response, callerGone, upload, body, timedOut, peer, reader>>

\* Mutant: the deadline covers the request but not the stream.
Deadline_RequestOnly ==
    /\ pc \in {"authorize", "do", "errorBody"} /\ streamErr = "none" /\ Cancel("deadline")
    /\ UNCHANGED <<pc, response, callerGone, timers, peer, reader>>

Deadline ==
    /\ pc \notin {"validate", "returned"} /\ streamErr = "none" /\ Cancel("deadline")
    /\ UNCHANGED <<pc, response, callerGone, timers, peer, reader>>

CallerLeaves ==
    /\ ~callerGone /\ callerGone' = TRUE
    /\ IF pc = "validate" THEN UNCHANGED streamErr ELSE Cancel("cancelled")
    /\ UNCHANGED <<pc, response, timers, peer, reader>>

-----------------------------------------------------------------------------
(* Before the stream *)

Validate ==
    /\ \/ /\ Go("validate", "authorize")
          /\ streamErr' = IF callerGone THEN "cancelled" ELSE "none"
          /\ UNCHANGED <<response, timers>>
       \/ pc = "validate" /\ Return("invalid") /\ UNCHANGED streamErr
    /\ UNCHANGED <<callerGone, peer, reader>>

\* The metadata client has a time limit of its own.
authorizationHeader ==
    /\ \/ /\ Go("authorize", "do") /\ upload' = "armed"
          /\ UNCHANGED <<response, body, idle, timedOut>>
       \/ pc = "authorize" /\ Return("auth failed")
    /\ UNCHANGED <<callerGone, streamErr, peer, reader>>

\* What client.Do and, later, reader.Next report when the stream was cancelled.
\* finishUpload stops the upload timer and says whether it had fired.
CancelReason ==
    IF timedOut THEN "upload timeout"
    ELSE IF streamErr = "deadline" THEN "deadline" ELSE "idle timeout"

DoFails ==
    /\ pc = "do"
    /\ Return(IF timedOut THEN "upload timeout"
              ELSE IF streamErr = "deadline" /\ ~callerGone THEN "deadline"
              ELSE "request failed")
    /\ UNCHANGED <<callerGone, streamErr, peer, reader>>

\* The response's status, type and protocol version are checked at once.
DoReturns ==
    /\ pc = "do" /\ streamErr = "none"
    /\ connection' = "open"
    /\ \/ /\ pc' = "reading" /\ idle' = "armed"
          /\ UNCHANGED <<response, upload, body, timedOut>>
       \/ /\ pc' = "errorBody" /\ body' = "armed"
          /\ UNCHANGED <<response, upload, idle, timedOut>>
       \/ Return("unexpected response")
    /\ UNCHANGED <<callerGone, streamErr, wire, last, frames, complete, reader>>

\* ReadBoundedBodyWithTimeout: the read ends, by itself or because streamCtx was
\* cancelled.  If the timer can no longer be stopped its callback is waited for.
ErrorBody ==
    /\ pc = "errorBody"
    /\ \/ /\ body = "armed"
          /\ pc' = "returned" /\ response' = "error response"
          /\ body' = "stopped"
          /\ upload' = IF upload = "armed" THEN "stopped" ELSE upload
          /\ UNCHANGED <<idle, timedOut>>
       \/ body \in {"firing", "fired"} /\ Return("error body timeout")
    /\ UNCHANGED <<callerGone, streamErr, peer, reader>>

-----------------------------------------------------------------------------
(* The peer (external) *)

Send(l) == wire' = Append(wire, l) /\ last' = l

PeerBegins ==
    /\ pc = "reading" /\ connection = "open" /\ last.line = "blank" /\ frames < MaxFrames
    /\ \E name \in Frames : Send(Line("event", name, NoData))
    /\ frames' = frames + 1
    /\ UNCHANGED <<pc, response, callerGone, streamErr, timers, connection, complete, reader>>

\* The frame goes on where the last line left it.
PeerContinues ==
    /\ pc = "reading" /\ connection = "open"
    /\ \/ /\ last.line = "event"
          /\ \E d \in DataOf(last.name) :
                /\ Send(Line("data", last.name, d))
                /\ complete' = (complete \/ (last.name = "result" /\ d.kind = "good"))
       \/ /\ last.line = "data" /\ last.data.kind # "cut"
          /\ Send(Blank) /\ UNCHANGED complete
    /\ UNCHANGED <<pc, response, callerGone, streamErr, timers, connection, frames, reader>>

PeerEnds ==
    /\ pc = "reading" /\ connection = "open" /\ connection' \in {"eof", "broken"}
    /\ UNCHANGED <<pc, response, callerGone, streamErr, timers, wire, last, frames, complete, reader>>

-----------------------------------------------------------------------------
(* The event loop *)

Consume == 
    /\ wire' = IF wire = <<>> THEN wire ELSE Tail(wire)
    /\ UNCHANGED <<last, connection, frames, complete>>

\* readLine: a line of a frame, kept until the blank one.  Every line read sets
\* the idle timer back, which only keeps it armed.
ReadLine ==
    /\ pc = "reading" /\ streamErr = "none" /\ wire # <<>>
    /\ \/ Head(wire).line = "event" /\ event' = Head(wire).name /\ UNCHANGED data
       \/ Head(wire).line = "data" /\ data' = Head(wire).data /\ UNCHANGED event
    /\ Consume
    /\ UNCHANGED <<pc, response, callerGone, streamErr, timers, logBytes, passedOn, errorSeen>>

\* Next returns an event: at its blank line, or at the end of the stream if the
\* frame has a name by then.
EventReady ==
    /\ pc = "reading" /\ streamErr = "none" /\ event # "none"
    /\ \/ wire # <<>> /\ Head(wire).line = "blank"
       \/ wire = <<>> /\ connection = "eof"

NextEvent == event' = "none" /\ data' = NoData

\* Mutant: an event cut short by the end of the stream is taken for a whole one.
Malformed_IgnoresCut == data.kind \in {"none", "bad"}

Malformed == data.kind # "good"

\* Events that only count as activity.
HandleOther ==
    /\ EventReady /\ event \in {"heartbeat", "progress"}
    /\ NextEvent /\ Consume
    /\ UNCHANGED <<pc, response, callerGone, streamErr, timers, logBytes, passedOn, errorSeen>>

\* Any other event that does not decode or fails its checks ends the run.
HandleMalformed ==
    /\ EventReady /\ event \in {"log", "image", "error", "result"} /\ Malformed
    /\ Return("invalid event") /\ NextEvent /\ Consume
    /\ UNCHANGED <<callerGone, streamErr, logBytes, passedOn, errorSeen>>

HandleLog ==
    /\ EventReady /\ event = "log" /\ ~Malformed
    /\ NextEvent /\ Consume
    /\ logBytes' = logBytes + data.size
    /\ IF data.size > EventLimit \/ logBytes' > StreamLimit
       THEN Return("log too large") /\ UNCHANGED passedOn
       ELSE /\ passedOn' = IF logBytes' > CaptureLimit THEN CaptureLimit ELSE logBytes'
            /\ UNCHANGED <<pc, response, timers>>
    /\ UNCHANGED <<callerGone, streamErr, errorSeen>>

\* An image may be one too many for the stream's limit.
HandleImage ==
    /\ EventReady /\ event = "image" /\ ~Malformed
    /\ NextEvent /\ Consume
    /\ \/ UNCHANGED <<pc, response, timers>>
       \/ Return("image too large")
    /\ UNCHANGED <<callerGone, streamErr, logBytes, passedOn, errorSeen>>

HandleError ==
    /\ EventReady /\ event = "error" /\ ~Malformed
    /\ NextEvent /\ Consume /\ errorSeen' = TRUE
    /\ UNCHANGED <<pc, response, callerGone, streamErr, timers, logBytes, passedOn>>

\* The result is checked field by field before it is believed; "bad" covers all
\* the ways to fail.  An empty reason is replaced by the last error's.
HandleResult ==
    /\ EventReady /\ event = "result" /\ ~Malformed
    /\ Return("result") /\ NextEvent /\ Consume
    /\ UNCHANGED <<callerGone, streamErr, logBytes, passedOn, errorSeen>>

\* The stream ends between two frames.
ReadEnd ==
    /\ pc = "reading" /\ streamErr = "none" /\ wire = <<>> /\ event = "none"
    /\ connection = "eof" /\ Return("ended without result")
    /\ UNCHANGED <<callerGone, streamErr, peer, reader>>

\* A cancelled context or a broken connection fails the read.
ReadFails ==
    /\ pc = "reading"
    /\ \/ streamErr # "none" \/ (connection = "broken" /\ wire = <<>>)
    /\ Return(IF streamErr # "none" /\ ~callerGone THEN CancelReason ELSE "stream failed")
    /\ UNCHANGED <<callerGone, streamErr, peer, reader>>

Client ==
    \/ Validate \/ authorizationHeader
    \/ ReadLine \/ HandleOther \/ HandleMalformed \/ HandleLog \/ HandleImage
    \/ HandleError \/ HandleResult \/ ReadEnd \/ ReadFails

Next ==
    \/ Client \/ DoFails \/ DoReturns \/ ErrorBody \/ PeerBegins \/ PeerContinues \/ PeerEnds
    \/ UploadFires \/ WroteRequest \/ BodyFires \/ IdleFires \/ Deadline \/ CallerLeaves

Spec == Init /\ [][Next]_vars

\* The deadline comes, a cancelled request fails, and the client goes on when it
\* can.  Nothing is assumed of the peer, of the caller or of the idle timer, which
\* may be switched off.
FairSpec == Spec /\ WF_vars(Client) /\ WF_vars(Deadline)
                 /\ WF_vars((DoFails \/ ErrorBody) /\ streamErr # "none")

-----------------------------------------------------------------------------
(* Properties *)

\* A result is reported only if the peer sent all the data of a valid one, however
\* the stream was cut, cancelled or closed.
ResultIsComplete == response = "result" => complete

\* The reason reported for a cancelled stream names a clock that really ran out:
\* the three share one cancel function and may fire in any order.
ReasonMatchesCause ==
    /\ response = "upload timeout" => upload \in {"firing", "fired"}
    /\ response = "idle timeout"   => idle = "fired"
    /\ response = "deadline"       => streamErr = "deadline"

\* The run returns although the peer sends nothing, or heartbeats for ever.
RunReturns == <>(pc = "returned")
=============================================================================
