----------------------------- MODULE MCStreams -----------------------------
(***************************************************************************)
(* The way of a result to the caller of another server: the writers share  *)
(* the stream, a result is cut to its share of it, the client reads it,    *)
(* and judges the CPU time in it by a clock that is not its own.           *)
(* The client takes nothing for granted about the stream that it reads, so *)
(* the four are checked side by side: in each behaviour one of them, the   *)
(* focus, moves.                                                           *)
(***************************************************************************)
EXTENDS CPUTime

CONSTANTS Payloads, Overhead, EventMax, LineMax, StreamMax, HeartbeatReserve, LogReserve,
          RuneCosts, MaxRunes, Fields, MaxBase, FlagBytes, MaxLimit,
          MaxFrames, EventLimit, StreamLimit, CaptureLimit

VARIABLES focus,
          compile, mu, failed, wireBytes, auxBytes, writtenLogs, finished, stopped,
          user, frame, written,
          text, limit, base, low, high, clipStep, clipped,
          client, response, callerGone, streamErr, upload, body, idle, timedOut,
          wire, last, connection, frames, complete, event, data, logBytes, passedOn, errorSeen

writerVars == <<compile, mu, failed, wireBytes, auxBytes, writtenLogs, finished, stopped,
                user, frame, written>>
clipVars == <<text, limit, base, low, high, clipStep, clipped>>
remoteVars == <<client, response, callerGone, streamErr, upload, body, idle, timedOut,
                wire, last, connection, frames, complete, event, data, logBytes, passedOn,
                errorSeen>>

Writer == INSTANCE EventStream WITH logBytes <- writtenLogs, pc <- user, wire <- written
Clip   == INSTANCE ResultClip WITH pc <- clipStep
Remote == INSTANCE RemoteRun WITH pc <- client

ASSUME ClockConstantsFit == ConstantsFit
ASSUME StreamConstantsFit == Writer!SizesFit
ASSUME ClipConstantsFit == Clip!SizesFit

\* Only the focus's own input varies; a clock that is not the focus never serves.
MCInit ==
    /\ focus \in {"writer", "clip", "clock", "remote"}
    /\ Init /\ (focus # "clock" => pc = "calibrating" /\ reference = MinTime)
    /\ Writer!Init /\ (focus # "writer" => compile)
    /\ Remote!Init
    /\ \/ focus = "clip"
       \/ focus # "clip" /\ limit = 0 /\ base = 0
    /\ Clip!Init

MCNext ==
    \/ focus = "clock" /\ Next /\ UNCHANGED <<focus, writerVars, clipVars, remoteVars>>
    \/ focus = "writer" /\ Writer!Next /\ UNCHANGED <<focus, vars, clipVars, remoteVars>>
    \/ focus = "clip" /\ Clip!Next /\ UNCHANGED <<focus, vars, writerVars, remoteVars>>
    \/ focus = "remote" /\ Remote!Next /\ UNCHANGED <<focus, vars, writerVars, clipVars>>

\* The fairness of RemoteRun.
MCSpec ==
    /\ MCInit /\ [][MCNext]_<<focus, vars, writerVars, clipVars, remoteVars>>
    /\ WF_remoteVars(focus = "remote" /\ Remote!Client)
    /\ WF_remoteVars(focus = "remote" /\ Remote!Deadline)
    /\ WF_remoteVars(focus = "remote" /\ (Remote!DoFails \/ Remote!ErrorBody) /\ streamErr # "none")

\* The properties of the instances: a stream that its reader accepts, shares of it
\* that are kept, results that are cut as little as they must, a client that believes
\* whole results only, blames the right clock, and returns.
StreamIsReadable == Writer!StreamIsReadable
SharesKept == Writer!SharesKept
ClipIsFair == Clip!ClipIsFair
ResultIsComplete == Remote!ResultIsComplete
ReasonMatchesCause == Remote!ReasonMatchesCause
RemoteReturns == focus = "remote" ~> client = "returned"
=============================================================================
