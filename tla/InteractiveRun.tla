--------------------------- MODULE InteractiveRun ---------------------------
(***************************************************************************)
(* runInteractiveExecution and interactiveExecutionTimers of               *)
(* internal/execute: a contestant and an interactor, each in a sandbox of  *)
(* its own, their outputs connected to each other's input.                 *)
(*                                                                         *)
(* A sandboxed run is what SandboxRun shows it to be: it is set up, waits  *)
(* at the gate, runs, and returns with a verdict; when its context is      *)
(* canceled it returns, too.  A canceled run that was running reports the  *)
(* wall time, unless os/exec, which watches the same context, has killed   *)
(* and reaped the process before the watchdog looks: then the parent knows *)
(* no reason for the SIGKILL and reports signal_unattributed.              *)
(***************************************************************************)
EXTENDS Integers

C == "contestant"
I == "interactor"
Side == {C, I}
Peer(s) == IF s = C THEN I ELSE C
Both(b) == [s \in Side |-> b]

VARIABLES pc,        \* where runInteractiveExecution stands
          dirs,      \* work directories on disk
          parent,    \* the request's context is done
          canceled,  \* the contexts of the two sides are
          phase,     \* of each sandboxed run
          result,    \* what it returned
          why,       \* what really ended it
          relay,     \* the error its writer to the peer has recorded
          gor,       \* the goroutine around it
          done,      \* contestantFinished, interactorFinished
          release,   \* the channel is closed
          startup,   \* the startup timer
          alarm,     \* the execution timers
          readied, ended, started, stopped,   \* of interactiveExecutionTimers
          grace,     \* the timer of interactiveAcceptedGrace
          deadlineHit, blamed,   \* contestantDeadlineHit, contestantCanceledByInteractor
          response

side   == <<phase, result, why, relay>>
timers == <<release, startup, alarm, readied, ended, started, stopped>>
flags  == <<deadlineHit, blamed>>
vars   == <<pc, dirs, parent, canceled, side, gor, done, timers, grace, flags, response>>

Res(st, src, e) == [status |-> st, source |-> src, exit |-> e, said |-> FALSE,
                    over |-> "none", copy |-> "none"]
None == -1
Nothing == Res("OK", "none", None)
Answer(st, src) == [status |-> st, source |-> src]

Init ==
    /\ pc = "contestant" /\ dirs = {} /\ parent = FALSE /\ canceled = Both(FALSE)
    /\ phase = Both("none") /\ result = Both(Nothing) /\ why = Both("none") /\ relay = Both("none")
    /\ gor = Both("run") /\ done = Both(FALSE)
    /\ release = FALSE /\ startup = "none" /\ alarm = Both("none")
    /\ readied = Both(FALSE) /\ ended = Both(FALSE) /\ started = FALSE /\ stopped = FALSE
    /\ grace = "none" /\ deadlineHit = FALSE /\ blamed = FALSE
    /\ response = Answer("none", "none")

-----------------------------------------------------------------------------
(* Preparation *)

Go(from, to) == pc = from /\ pc' = to

\* An early return; the deferred calls remove what has been prepared.
GiveUp(from) ==
    /\ Go(from, "returned") /\ dirs' = {} /\ response' = Answer("InitFail", "none")
    /\ UNCHANGED <<parent, canceled, side, gor, done, timers, grace, flags>>

prepareInteractiveCommand(s, next) ==
    \/ /\ Go(s, next) /\ dirs' = dirs \cup {s}
       /\ UNCHANGED <<parent, canceled, side, gor, done, timers, grace, flags, response>>
    \/ GiveUp(s)

\* Input and answer files and the two pipes are made; then the timers and both
\* goroutines start.
Launch ==
    \/ /\ Go("files", "collect") /\ phase' = Both("setup") /\ startup' = "armed"
       /\ UNCHANGED <<dirs, parent, canceled, result, why, relay, gor, done, release, alarm,
                      readied, ended, started, stopped, grace, flags, response>>
    \/ GiveUp("files")

Prepare ==
    \/ prepareInteractiveCommand(C, I)
    \/ prepareInteractiveCommand(I, "files")
    \/ Launch

-----------------------------------------------------------------------------
(* The two sandboxed runs *)

Quiet == <<pc, dirs, parent, canceled, gor, done, grace, flags, response>>

Returns(s, r, cause) ==
    /\ phase' = [phase EXCEPT ![s] = "over"]
    /\ result' = [result EXCEPT ![s] = r] /\ why' = [why EXCEPT ![s] = cause]

SetupFails(s) ==
    /\ phase[s] = "setup" /\ Returns(s, Res("InitFail", "none", None), "setup")
    /\ UNCHANGED <<Quiet, relay, timers>>

\* A run canceled before its target runs.  Only cmd.Start reports the context's
\* own error; every other place has a message of its own.
CanceledEarly(s) ==
    /\ canceled[s] /\ phase[s] \in {"setup", "ready", "passed"}
    /\ \E said \in IF phase[s] = "setup" THEN BOOLEAN ELSE {FALSE} :
          Returns(s, [Res("InitFail", "none", None) EXCEPT !.said = said], "canceled")
    /\ UNCHANGED <<Quiet, relay, timers>>

\* Mutant: it does not matter whether the startup timer could be stopped.
targetReady_IgnoresStop(s) ==
    /\ phase[s] = "setup" /\ phase' = [phase EXCEPT ![s] = "ready"]
    /\ IF stopped \/ started \/ parent THEN UNCHANGED timers
       ELSE /\ readied' = [readied EXCEPT ![s] = TRUE]
            /\ IF ~readied'[Peer(s)] THEN UNCHANGED <<startup, stopped, started, release, alarm>>
               ELSE /\ startup' = "off" /\ started' = TRUE /\ release' = TRUE
                    /\ alarm' = Both("armed") /\ UNCHANGED stopped
            /\ UNCHANGED ended
    /\ UNCHANGED <<Quiet, result, why, relay>>

\* Mutant: the gate opens without starting the clocks.
targetReady_NoClock(s) ==
    /\ phase[s] = "setup" /\ phase' = [phase EXCEPT ![s] = "ready"]
    /\ readied' = [readied EXCEPT ![s] = TRUE]
    /\ IF stopped \/ started \/ parent \/ ~readied[Peer(s)] \/ startup # "armed"
       THEN UNCHANGED <<startup, started, release>>
       ELSE startup' = "off" /\ started' = TRUE /\ release' = TRUE
    /\ UNCHANGED <<Quiet, result, why, relay, stopped, alarm, ended>>

targetReady(s) ==
    /\ phase[s] = "setup" /\ phase' = [phase EXCEPT ![s] = "ready"]
    /\ IF stopped \/ started \/ parent THEN UNCHANGED timers
       ELSE /\ readied' = [readied EXCEPT ![s] = TRUE]
            /\ IF ~readied'[Peer(s)] THEN UNCHANGED <<startup, stopped, started, release, alarm>>
               ELSE IF startup # "armed"
               THEN stopped' = TRUE /\ UNCHANGED <<startup, started, release, alarm>>
               ELSE /\ startup' = "off" /\ started' = TRUE /\ release' = TRUE
                    /\ alarm' = Both("armed") /\ UNCHANGED stopped
            /\ UNCHANGED ended
    /\ UNCHANGED <<Quiet, result, why, relay>>

\* Past the gate startWallTimer looks at the context once more.
PassGate(s) ==
    /\ phase[s] = "ready" /\ release /\ ~canceled[s]
    /\ phase' = [phase EXCEPT ![s] = "passed"]
    /\ UNCHANGED <<Quiet, result, why, relay, timers>>

Exec(s) ==
    /\ phase[s] = "passed" /\ phase' = [phase EXCEPT ![s] = "running"]
    /\ UNCHANGED <<Quiet, result, why, relay, timers>>

\* What only the final figures, or the capture of its output, show of a target.
Excess == {"none", "cpu", "memory", "stdout"}

\* What the target does by itself: it exits; it exceeds a limit the watchdog
\* sees, or one that only the final figures show; it is killed by a signal.
OwnEnds == {Res("OK", "none", e) : e \in {0, 1, 3}}
           \cup {[Res("OK", "none", 0) EXCEPT !.over = o] : o \in Excess \ {"none"}}
           \cup {Res("TLE", "cpu_time", None), Res("RE", "signal", None)}

EndsItself(s) ==
    /\ phase[s] = "running"
    /\ \E r \in OwnEnds : Returns(s, r, IF r = Res("OK", "none", 0) THEN "clean" ELSE "own")
    /\ UNCHANGED <<Quiet, relay, timers>>

\* Its output could not be delivered: the peer is gone, or the pipe broke.  The
\* copying goroutine stops, and a run that is otherwise good reports it.
WriteFails(s) ==
    /\ phase[s] = "running" /\ relay[s] = "none"
    /\ \E e \in {"io"} \cup IF phase[Peer(s)] = "over" THEN {"closed"} ELSE {} :
          /\ relay' = [relay EXCEPT ![s] = e]
          /\ \E r \in {[Res("RE", "stream_io", 0) EXCEPT !.copy = e], Res("OK", "none", 1)} :
                Returns(s, r, IF r.exit = 1 THEN "own" ELSE IF e = "io" THEN "io" ELSE "clean")
    /\ UNCHANGED <<Quiet, timers>>

\* The interruption is what is reported, with what the target had done by then: it may
\* have just exited, its output may be cut off, its final figures may be too high.
InterruptedEnds ==
    {Res("TLE", "wall_time", e) : e \in {0, 1}}
    \cup {[r EXCEPT !.over = o] : r \in {Res("TLE", "wall_time", None),
                                       Res("RE", "signal_unattributed", None)}, o \in Excess}

Killed(s) ==
    /\ canceled[s] /\ phase[s] = "running"
    /\ \E r \in InterruptedEnds : Returns(s, r, "canceled")
    /\ UNCHANGED <<Quiet, relay, timers>>

SandboxedRun(s) ==
    \/ SetupFails(s) \/ CanceledEarly(s) \/ targetReady(s) \/ PassGate(s) \/ Exec(s)
    \/ EndsItself(s) \/ WriteFails(s) \/ Killed(s)

-----------------------------------------------------------------------------
(* The goroutine around a run *)

Around(s, from, to) == gor[s] = from /\ gor' = [gor EXCEPT ![s] = to]

StoreFinished(s) ==
    /\ phase[s] = "over" /\ Around(s, "run", "finish") /\ done' = [done EXCEPT ![s] = TRUE]
    /\ UNCHANGED <<pc, dirs, parent, canceled, side, timers, grace, flags, response>>

finish(s) ==
    /\ ended' = [ended EXCEPT ![s] = TRUE]
    /\ IF started
       THEN /\ alarm' = [alarm EXCEPT ![s] = IF @ = "armed" THEN "off" ELSE @]
            /\ Around(s, "finish", "send") /\ UNCHANGED <<startup, stopped>>
       ELSE /\ Around(s, "finish", IF stopped THEN "send" ELSE "abort") /\ stopped' = TRUE
            /\ UNCHANGED alarm
            /\ startup' = IF startup = "armed" THEN "off" ELSE startup
    /\ UNCHANGED <<pc, dirs, parent, canceled, side, done, release, readied, started, grace, flags,
                   response>>

abortPeer(s) ==
    /\ Around(s, "abort", "send") /\ canceled' = Both(TRUE)
    /\ UNCHANGED <<pc, dirs, parent, side, done, timers, grace, flags, response>>

Send(s) ==
    /\ Around(s, "send", "sent")
    /\ UNCHANGED <<pc, dirs, parent, canceled, side, done, timers, grace, flags, response>>

Goroutine(s) == StoreFinished(s) \/ finish(s) \/ abortPeer(s) \/ Send(s)

-----------------------------------------------------------------------------
(* Timers.  A timer that has fired runs its function some time later. *)

StartupFires ==
    /\ startup = "armed" /\ startup' = "fired"
    /\ UNCHANGED <<pc, dirs, parent, canceled, side, gor, done, release, alarm, readied, ended,
                   started, stopped, grace, flags, response>>

startupExpired ==
    /\ startup = "fired" /\ startup' = "off" /\ canceled' = Both(TRUE)
    /\ UNCHANGED <<pc, dirs, parent, side, gor, done, release, alarm, readied, ended, started,
                   stopped, grace, flags, response>>

AlarmFires(s) ==
    /\ alarm[s] = "armed" /\ alarm' = [alarm EXCEPT ![s] = "fired"]
    /\ UNCHANGED <<pc, dirs, parent, canceled, side, gor, done, release, startup, readied, ended,
                   started, stopped, grace, flags, response>>

\* Under the lock; what follows is not.
AlarmLooks(s) ==
    /\ alarm[s] = "fired"
    /\ alarm' = [alarm EXCEPT ![s] = IF stopped \/ ended[s] THEN "off" ELSE "active"]
    /\ UNCHANGED <<pc, dirs, parent, canceled, side, gor, done, release, startup, readied, ended,
                   started, stopped, grace, flags, response>>

\* Mutant: the interactor's alarm leaves no record.
expired_Silent(s) ==
    /\ alarm[s] = "active" /\ alarm' = [alarm EXCEPT ![s] = "off"]
    /\ IF done[s] THEN UNCHANGED <<canceled, flags>>
       ELSE canceled' = Both(TRUE) /\ deadlineHit' = (deadlineHit \/ s = C) /\ UNCHANGED blamed
    /\ UNCHANGED <<pc, dirs, parent, side, gor, done, release, startup, readied, ended, started,
                   stopped, grace, response>>

expired(s) ==
    /\ alarm[s] = "active" /\ alarm' = [alarm EXCEPT ![s] = "off"]
    /\ IF done[s] THEN UNCHANGED <<canceled, flags>>
       ELSE /\ canceled' = Both(TRUE)
            /\ deadlineHit' = (deadlineHit \/ s = C) /\ blamed' = (blamed \/ (s = I /\ ~done[C]))
    /\ UNCHANGED <<pc, dirs, parent, side, gor, done, release, startup, readied, ended, started,
                   stopped, grace, response>>

GraceEnds ==
    /\ grace = "armed" /\ grace' = "off"
    /\ IF done[C] THEN UNCHANGED <<canceled, blamed>>
       ELSE blamed' = TRUE /\ canceled' = [canceled EXCEPT ![C] = TRUE]
    /\ UNCHANGED <<pc, dirs, parent, side, gor, done, timers, deadlineHit, response>>

ParentCancels ==
    /\ ~parent /\ pc = "collect" /\ parent' = TRUE /\ canceled' = Both(TRUE)
    /\ UNCHANGED <<pc, dirs, side, gor, done, timers, grace, flags, response>>

Timer == \/ StartupFires \/ startupExpired \/ GraceEnds
         \/ \E s \in Side : AlarmFires(s) \/ AlarmLooks(s) \/ expired(s)

-----------------------------------------------------------------------------
(* The verdict *)

applyStdoutLimitVerdict(v, r) ==
    IF r.over = "stdout" /\ v.status \in {"OK", "AC"} THEN Answer("RE", "stdout_limit") ELSE v

classifyRunStatusWithoutOutput(r) ==
    IF r.status # "OK" THEN Answer(r.status, r.source)
    ELSE IF r.over = "cpu" THEN Answer("TLE", "cpu_time_final")
    ELSE IF r.over = "memory" THEN Answer("MLE", "memory_reported")
    ELSE IF r.exit \notin {None, 0} THEN Answer("RE", "exit_code")
    ELSE Answer("OK", r.source)

\* The interactor has no memory limit of this kind, and is not timed out but broken.
classifyInteractorStatus(r) ==
    IF r.status # "OK" THEN Answer(IF r.status = "TLE" THEN "RE" ELSE r.status, r.source)
    ELSE IF r.over = "cpu" THEN Answer("RE", "cpu_time_final")
    ELSE IF r.exit = None THEN Answer("RE", "interactor")
    ELSE IF r.exit = 0 THEN applyStdoutLimitVerdict(Answer("AC", "exit_code"), r)
    ELSE Answer(IF r.exit = 3 THEN "RE" ELSE "WA", "exit_code")

reconcileInteractiveRelayResults(s) ==
    LET r == result[s]
        final == result[C].exit = 0 /\ result[I].exit # None
    IN  IF relay[s] = "none" THEN r
        ELSE IF final /\ relay[s] = "closed"
        THEN IF r.status = "RE" /\ r.source = "stream_io" /\ r.copy = "closed"
             THEN [r EXCEPT !.status = "OK", !.source = "none"] ELSE r
        ELSE IF r.status = "OK" THEN [r EXCEPT !.status = "RE", !.source = "stream_io"] ELSE r

\* Mutant: whatever the interactor has interrupted is forgiven.
ignoreContestantStatus_All(c) == blamed

ignoreContestantStatus(c) ==
    /\ blamed
    /\ \/ c.status = "TLE" /\ c.source = "wall_time"
       \/ c.status = "InitFail" /\ c.said

interactiveResponse(c, i) ==
    LET verdict == applyStdoutLimitVerdict(classifyRunStatusWithoutOutput(c), c)
        inter   == classifyInteractorStatus(i)
        ignored == ignoreContestantStatus(c)
    IN  IF c.status = "InitFail" /\ ~ignored THEN Answer("InitFail", C)
        ELSE IF i.status = "InitFail" THEN Answer("InitFail", I)
        ELSE IF deadlineHit \/ parent THEN Answer("TLE", "interactive:wall_time")
        ELSE IF ~ignored /\ verdict.status # "OK" THEN Answer(verdict.status, C)
        ELSE Answer(inter.status, I)

-----------------------------------------------------------------------------
(* The loop that collects both results *)

Got(s) == gor[s] = "got"

CollectContestant ==
    /\ pc = "collect" /\ Around(C, "sent", "got")
    /\ canceled' = IF classifyRunStatusWithoutOutput(result[C]).status # "OK"
                   THEN [canceled EXCEPT ![I] = TRUE] ELSE canceled
    /\ UNCHANGED <<pc, dirs, parent, side, done, timers, grace, flags, response>>

CollectInteractor ==
    /\ pc = "collect" /\ Around(I, "sent", "got")
    /\ IF classifyInteractorStatus(result[I]).status = "AC"
       THEN grace' = "armed" /\ UNCHANGED <<canceled, blamed>>
       ELSE /\ blamed' = (blamed \/ ~done[C])
            /\ canceled' = [canceled EXCEPT ![C] = TRUE] /\ UNCHANGED grace
    /\ UNCHANGED <<pc, dirs, parent, side, done, timers, deadlineHit, response>>

Respond ==
    /\ Go("collect", "stop") /\ Got(C) /\ Got(I) /\ canceled' = Both(TRUE)
    /\ response' = interactiveResponse(reconcileInteractiveRelayResults(C),
                                       reconcileInteractiveRelayResults(I))
    /\ UNCHANGED <<dirs, parent, side, gor, done, timers, grace, flags>>

\* The deferred calls: timers.stop and the removal of the work directories.
Stop ==
    /\ Go("stop", "returned") /\ dirs' = {} /\ stopped' = TRUE
    /\ startup' = IF startup = "armed" THEN "off" ELSE startup
    /\ alarm' = [s \in Side |-> IF alarm[s] = "armed" THEN "off" ELSE alarm[s]]
    /\ UNCHANGED <<parent, canceled, side, gor, done, release, readied, ended, started, grace,
                   flags, response>>

Collector == CollectContestant \/ CollectInteractor \/ Respond \/ Stop

Next == \/ Prepare \/ Timer \/ ParentCancels \/ Collector
        \/ \E s \in Side : SandboxedRun(s) \/ Goroutine(s)

Spec == Init /\ [][Next]_vars

\* Setup and a canceled run come to an end (SandboxRun), timers fire, and the
\* goroutines run.  A target owes nothing.
Fairness ==
    /\ WF_vars(Prepare) /\ WF_vars(Timer) /\ WF_vars(Collector)
    /\ \A s \in Side : WF_vars(Goroutine(s)) /\ WF_vars(CanceledEarly(s) \/ Killed(s))

FairSpec == Spec /\ Fairness

-----------------------------------------------------------------------------
(* Properties *)

At(s) == CASE phase[s] \in {"none", "setup"} -> "setup"
           [] phase[s] = "ready" -> "ready"
           [] phase[s] \in {"passed", "running"} -> "running"
           [] phase[s] = "over" -> "gone"

Gate == IF release THEN "open"
        ELSE IF stopped \/ startup \in {"fired", "off"} THEN "broken" ELSE "closed"

Barrier == INSTANCE StartBarrier WITH Party <- Side, at <- [s \in Side |-> At(s)], gate <- Gate

\* The two timers of the start, whatever the order in which readiness, failure and
\* expiry meet, make a barrier: both sides run or none, and a start that has timed
\* out is never revived.
ImplementsBarrier == Barrier!Spec

\* An accepted run was accepted by the interactor, which ended by itself and within its
\* limits.  The contestant ended well, or the interactor interrupted it, before its time
\* was up and before the client gave up.  The interruption forgives what the contestant
\* has done until then, an output that was cut off or final figures that are too high:
\* of those the property says nothing.
AcceptedIsEarned ==
    response.status = "AC" =>
        /\ result[I].exit = 0 /\ result[I].over \in {"none", "memory"} /\ why[I] # "canceled"
        /\ why[C] \in {"clean", "canceled"}
        /\ why[C] = "canceled" => blamed /\ ~deadlineHit /\ ~parent

\* A contestant that is interrupted while its target may be running is interrupted for
\* a recorded reason: its own time, the interactor, or the request.  Without the
\* record the verdict below would blame it for having been killed.
InterruptionIsRecorded ==
    canceled[C] /\ phase[C] \in {"passed", "running"} => parent \/ deadlineHit \/ blamed

\* Whatever the targets do, the request is answered.
RunReturns == <>(pc = "returned")
=============================================================================
