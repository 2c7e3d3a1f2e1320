-------------------------- MODULE CommunicationRun --------------------------
(***************************************************************************)
(* runCommunication of internal/execute: participants that talk to a       *)
(* manager over pipes, each in a sandbox of its own.  Version 1, for any   *)
(* number of participants, reports the manager's verdict or the first      *)
(* participant that failed; version 2 is a match of two, which is          *)
(* completed, forfeited by one seat, or not scored.                        *)
(*                                                                         *)
(* Who is blamed depends on the order of completion times, wall deadlines, *)
(* the end of the manager's result and the coordinator's own cancellation, *)
(* while the results arrive in any order.                                  *)
(*                                                                         *)
(* Times are stamps of a logical clock; 0 is the zero time.Time.  A        *)
(* canceled target is reported as out of wall time.  Prompt is the timing  *)
(* assumption under which that is all that can happen: a goroutine that    *)
(* can run, the collecting one too, does so within the exit grace period,  *)
(* and a done context is noticed before the target passes the gate, before *)
(* its wall timer fires, and before os/exec or the cgroup's killer has     *)
(* ended it.  Nothing in the code enforces it; without it a canceled       *)
(* target is also reported as signal_unattributed.                         *)
(***************************************************************************)
EXTENDS Integers, FiniteSets, TLC

CONSTANTS Seat,      \* the participants
          Prompt     \* the timing assumption

ASSUME SeatAssumption ==
    IsFiniteSet(Seat) /\ Seat \cap {"manager", "proto", "cancel", "nobody"} = {}
ASSUME PromptAssumption == Prompt \in BOOLEAN

Symmetry == Permutations(Seat)

M == "manager"
Proc == Seat \cup {M}

VARIABLES match,      \* Version = 2
          pc,         \* where runCommunication stands
          parent,     \* the request's context is done
          comm,       \* communicationCtx is done
          phase,      \* of each sandboxed run
          readied,    \* messages sent to readyCh
          result,     \* what each run returned
          why,        \* what really ended it
          begun,      \* targets that have been started
          startup,    \* the startup timer's tick has been received
          armed,      \* the wall time timers run
          fired,      \* those that have fired: the process's own context is done
          deadline,   \* those that fired before its completion and the cancellation
          proto,      \* the reader of the manager's result
          clock, at,  \* the last stamp; the stamps
          boundary,   \* who waits in cancelCommunicationAfterStartupBoundary
          first,      \* firstParticipantFailure
          triggered,  \* cancellationTriggered
          response

now   == <<clock, at>>
run   == <<phase, readied, result, why, begun>>
timer == <<startup, armed, fired, deadline>>
loop  == <<first, triggered, boundary>>
vars  == <<match, pc, parent, comm, run, timer, proto, now, loop, response>>

None == -1
Nobody == "nobody"
Res(st, src, e) == [status |-> st, source |-> src, exit |-> e]
Answer(o, src, s) == [outcome |-> o, source |-> src, seat |-> s]

Stamp(e) == clock' = clock + 1 /\ at' = [at EXCEPT ![e] = clock + 1]

\* Only a match looks at the times of the cancellation and of the manager's result.
StampMatch(e) == IF match /\ at[e] = 0 THEN Stamp(e) ELSE UNCHANGED now

Init ==
    /\ match \in BOOLEAN /\ (match => Cardinality(Seat) = 2)
    /\ pc = "prepare" /\ parent = FALSE /\ comm = FALSE
    /\ phase = [p \in Proc |-> "none"] /\ readied = {} /\ begun = {}
    /\ result = [p \in Proc |-> Res("OK", "none", None)] /\ why = [p \in Proc |-> "none"]
    /\ startup = FALSE /\ armed = FALSE /\ fired = {} /\ deadline = {}
    /\ proto = "none" /\ clock = 0 /\ at = [e \in Proc \cup {"proto", "cancel"} |-> 0]
    /\ boundary = {} /\ first = Nobody /\ triggered = FALSE
    /\ response = Answer("none", "none", Nobody)

Go(from, to) == pc = from /\ pc' = to

\* Capability, validation, fingerprint, admission, work directories, input and
\* answer files, the cgroup and the pipes: whatever fails, nothing has been started
\* and what exists is removed.
Prepare ==
    /\ \/ Go("prepare", "await") /\ phase' = [p \in Proc |-> "setup"] /\ UNCHANGED response
       \/ Go("prepare", "returned") /\ response' = Answer("error", "communication:admission", Nobody)
          /\ UNCHANGED phase
    /\ UNCHANGED <<match, parent, comm, readied, result, why, begun, timer, proto, now, loop>>

-----------------------------------------------------------------------------
(* The sandboxed runs *)

Outside == <<match, pc, parent, comm, timer, proto, loop, response>>
Canceled(p) == comm \/ p \in fired

\* The run is over; the goroutine around it takes the time and sends the result, in
\* one step for a seat: until then nobody can tell that it has ended.  A process whose
\* deadline has passed is at fault however it fails then.
Returns(p, r, cause) ==
    /\ phase' = [phase EXCEPT ![p] = IF p = M THEN "over" ELSE "sent"]
    /\ IF p = M THEN UNCHANGED now ELSE Stamp(p)
    /\ result' = [result EXCEPT ![p] = r]
    /\ why' = [why EXCEPT ![p] = IF why[p] = "deadline" /\ cause # "clean" THEN why[p] ELSE cause]

Setup(p) ==
    /\ phase[p] = "setup"
    /\ \/ phase' = [phase EXCEPT ![p] = "ready"] /\ readied' = readied \cup {p}
          /\ UNCHANGED <<result, why, now>>
       \/ Returns(p, Res("InitFail", "none", None), "setup") /\ UNCHANGED readied
    /\ UNCHANGED <<Outside, begun>>

CanceledEarly(p) ==
    /\ Canceled(p) /\ phase[p] \in {"setup", "ready"}
    /\ Returns(p, Res("InitFail", "none", None), "canceled") /\ UNCHANGED <<Outside, readied, begun>>

\* The gate opens when the first loop ends, however it ends.  There is no
\* startWallTimer here: a target that has passed the gate is started, canceled or not.
TargetStarts(p) ==
    /\ phase[p] = "ready" /\ pc # "await" /\ (Prompt => ~Canceled(p))
    /\ phase' = [phase EXCEPT ![p] = "running"] /\ begun' = begun \cup {p}
    /\ UNCHANGED <<Outside, now, readied, result, why>>

\* "limit" stands for every source that is nobody else's doing: CPU time and memory,
\* found at once or in the final figures of a killed process, and the budget of
\* communicationOutputWriter.
EndsItself(p) ==
    /\ phase[p] = "running"
    /\ \E r \in {Res("OK", "none", 0), Res("OK", "none", 1), Res("TLE", "limit", None)} :
          Returns(p, r, IF r.exit = 0 THEN "clean" ELSE "own")
    /\ UNCHANGED <<Outside, readied, begun>>

\* The sandbox fails at the open gate, or when it executes the target, which has been
\* counted as started by then.
SandboxFails(p) ==
    /\ \/ phase[p] = "ready" /\ pc # "await" /\ Returns(p, Res("InitFail", "none", None), "setup")
       \/ phase[p] = "running" /\ Returns(p, Res("InitFail", "sandbox_init", 1), "setup")
    /\ UNCHANGED <<Outside, readied, begun>>

\* The parent's ends of the manager's pipes are closed once every participant runs,
\* the manager's result is sent, or all is canceled.
managerFilesClosed == Seat \subseteq begun \/ comm \/ phase[M] \in {"sent", "got"}

\* Its output cannot be delivered: the manager has ended, perhaps while its own run is
\* still accounted for, or it has closed its end and goes on.  The goroutine that
\* copies stops, so that one that writes again dies of SIGPIPE, or exits nonzero.
PipeBreaks(p) ==
    /\ p \in Seat /\ phase[p] = "running"
    /\ managerFilesClosed /\ phase[M] \in {"running", "over", "sent", "got"}
    /\ \E r \in {Res("RE", "stream_io", 0), Res("RE", "signal", None)} : Returns(p, r, "pipe")
    /\ UNCHANGED <<Outside, readied, begun>>

\* A target that had just exited is reported with its exit code: with 0 it is judged
\* like one without a code, and otherwise as one that has failed by itself.
Killed(p) ==
    /\ phase[p] = "running" /\ Canceled(p)
    /\ \/ Returns(p, Res("TLE", "wall_time", None), "canceled")
       \/ ~Prompt /\ Returns(p, Res("RE", "signal_unattributed", None), "canceled")
    /\ UNCHANGED <<Outside, readied, begun>>

\* publishCommunicationManagerProcess.
ManagerCompletes ==
    /\ phase[M] = "over" /\ phase' = [phase EXCEPT ![M] = "sent"] /\ Stamp(M)
    /\ UNCHANGED <<Outside, readied, result, why, begun>>

SandboxedRun(p) ==
    \/ Setup(p) \/ CanceledEarly(p) \/ TargetStarts(p) \/ SandboxFails(p) \/ EndsItself(p)
    \/ PipeBreaks(p) \/ Killed(p)

\* The reader sees the end of the result when the manager has closed it, too, which it
\* may do at any time, and whatever it has written by then.
ReadResult ==
    /\ proto = "none" /\ managerFilesClosed /\ phase[M] \in {"running", "over", "sent", "got"}
    /\ proto' \in IF M \in begun THEN {"valid", "invalid", "incomplete"} ELSE {"incomplete"}
    /\ StampMatch("proto")
    /\ UNCHANGED <<match, pc, parent, comm, run, timer, loop, response>>

-----------------------------------------------------------------------------
(* Timers and cancellation *)

ParentCancels ==
    /\ ~parent /\ pc \in {"await", "collect"} /\ parent' = TRUE /\ comm' = TRUE
    /\ UNCHANGED <<match, pc, run, timer, proto, now, loop, response>>

\* A match records when; version 1 only cancels.  A timer that fires after the
\* completion has no effect any more.
WallFires(p) ==
    /\ armed /\ p \notin fired /\ at[p] = 0 /\ (Prompt => ~comm) /\ fired' = fired \cup {p}
    /\ deadline' = IF match /\ at["cancel"] = 0 THEN deadline \cup {p} ELSE deadline
    /\ why' = IF phase[p] = "running" /\ ~comm THEN [why EXCEPT ![p] = "deadline"] ELSE why
    /\ UNCHANGED <<match, pc, parent, comm, phase, readied, result, begun, startup, armed, proto, now,
                   loop, response>>

\* "fault": the goroutine of cancelAfterParticipantFailure, which waits for all
\* targets; "exit": the function of the exit grace timer, which waits for the
\* participants.  Both take the tick of the startup timer or the cancellation instead.
Boundary(b) ==
    /\ b \in boundary
    /\ Prompt /\ b = "exit" /\ ~comm => "fault" \notin boundary /\ \A p \in Proc : phase[p] # "sent"
    /\ boundary' = boundary \ {b} /\ comm' = TRUE
    /\ \/ (IF b = "fault" THEN Proc ELSE Seat) \subseteq begun /\ UNCHANGED startup
       \/ ~startup /\ startup' = TRUE
       \/ comm /\ UNCHANGED startup
    /\ IF b = "fault" THEN StampMatch("cancel") ELSE UNCHANGED now
    /\ UNCHANGED <<match, pc, parent, run, armed, fired, deadline, proto, first, triggered, response>>

Background == ManagerCompletes \/ ReadResult \/ (\E p \in Proc : WallFires(p)) \/ \E b \in {"fault", "exit"} : Boundary(b)

-----------------------------------------------------------------------------
(* Judging a single process *)

classify(r) == IF r.status # "OK" THEN r.status ELSE IF r.exit # 0 THEN "RE" ELSE "OK"

communicationProcessFailed(p) == classify(result[p]) # "OK" \/ result[p].exit # 0

communicationParticipantInfrastructureFailure(p) == result[p].status = "InitFail"

\* communicationFinalProcessStatus.
finalOK(p) == classify(result[p]) = "OK" /\ result[p].exit = 0

\* Mutant: the wall time is never the coordinator's doing.
communicationIndependentParticipantFault_Wall(p) ==
    /\ ~finalOK(p)
    /\ ~communicationParticipantInfrastructureFailure(p)
    /\ \/ result[p].exit \notin {None, 0} \/ p \in deadline
       \/ result[p].source # "stream_io"

communicationIndependentParticipantFault(p) ==
    /\ ~finalOK(p)
    /\ ~communicationParticipantInfrastructureFailure(p)
    /\ \/ result[p].exit \notin {None, 0} \/ p \in deadline
       \/ result[p].source \notin {"wall_time", "stream_io"}

-----------------------------------------------------------------------------
(* Judging the whole *)

\* Mutant: the verdict of a manager that has one is preferred.
buildCommunicationResponse_ManagerFirst ==
    IF ~communicationProcessFailed(M) /\ proto = "valid" THEN Answer("scored", "manager", Nobody)
    ELSE IF first # Nobody THEN Answer("RE", "participant", first)
    ELSE Answer("RE", "manager:runtime", Nobody)

buildCommunicationResponse ==
    IF first # Nobody THEN Answer("RE", "participant", first)
    ELSE IF communicationProcessFailed(M) THEN Answer("RE", "manager:runtime", Nobody)
    ELSE IF proto # "valid" THEN Answer("RE", "manager:result_protocol", Nobody)
    ELSE Answer("scored", "manager", Nobody)

managerValid ==
    M \notin deadline /\ finalOK(M) /\ proto = "valid"

\* Mutant: a manager that ran out of its own time is excused.
managerCanceledForForfeit_Deadline ==
    /\ first # Nobody /\ at["cancel"] # 0 /\ at[M] >= at["cancel"]
    /\ result[M].exit \in {None, 0} /\ classify(result[M]) = "TLE" /\ result[M].source = "wall_time"
    /\ proto = "valid" \/ (proto = "incomplete" /\ at["proto"] >= at["cancel"])

managerCanceledForForfeit ==
    /\ first # Nobody /\ at["cancel"] # 0 /\ at[M] >= at["cancel"]
    /\ result[M].exit \in {None, 0} /\ classify(result[M]) = "TLE" /\ result[M].source = "wall_time"
    /\ M \notin deadline
    /\ \/ proto = "valid"
       \/ proto = "incomplete" /\ at["proto"] >= at["cancel"]

\* The first independent fault replaces a first failure that was none, or was later.
\* Results are visited in the order in which they were received; with two seats and
\* distinct times that order does not matter.
firstFault ==
    LET faults == {p \in Seat : communicationIndependentParticipantFault(p)}
    IN  IF faults = {} THEN first
        ELSE CHOOSE p \in faults : \A q \in faults : at[p] <= at[q]

\* Did the failure of p, which is not the first, also count?
alsoFailed(p) ==
    /\ communicationProcessFailed(p)
    /\ ~(/\ result[p].source = "stream_io" /\ ~communicationIndependentParticipantFault(p)
         /\ \/ managerValid /\ (at[p] >= at["proto"] \/ at[p] >= at[M])
            \/ at["cancel"] # 0 /\ at[p] >= at["cancel"])
    /\ \/ communicationIndependentParticipantFault(p)
       \/ at["cancel"] # 0 /\ at[p] <= at["cancel"]

Fail(src) == Answer("error", src, Nobody)

buildCommunicationMatchResponse ==
    IF parent THEN Fail("communication:request_canceled")
    ELSE IF ~(Seat \subseteq begun) THEN Fail("communication:startup")
    ELSE IF \E p \in Seat : communicationParticipantInfrastructureFailure(p)
    THEN Fail("communication:participant:init")
    ELSE IF ~managerValid /\ ~managerCanceledForForfeit THEN Fail("manager:runtime")
    ELSE LET f == firstFault IN
         IF managerValid /\ (f = Nobody \/ (/\ ~communicationIndependentParticipantFault(f)
                                           /\ \/ result[f].source = "stream_io" \/ at[M] <= at[f]))
         THEN Answer("completed", "none", Nobody)
         ELSE IF f = Nobody THEN Fail("manager:result_protocol")
         ELSE IF ~managerValid /\ at[M] < at[f] THEN Fail("manager:runtime")
         ELSE IF \E p \in Seat \ {f} : alsoFailed(p) THEN Fail("communication:double_forfeit")
         ELSE Answer("forfeit", "none", f)

-----------------------------------------------------------------------------
(* The loop that waits until all are ready *)

\* Mutant: the start is given up but nobody is told.
Abort_NoCancel ==
    /\ Go("await", "collect") /\ triggered' = TRUE
    /\ UNCHANGED <<match, parent, comm, armed, fired, deadline, proto, result, why, begun, readied,
                   boundary, response>>

\* cancelCommunication, then the gate is opened for whoever waits there.
Abort ==
    /\ Go("await", "collect") /\ comm' = TRUE /\ triggered' = TRUE
    /\ UNCHANGED <<match, parent, armed, fired, deadline, proto, result, why, begun, readied, boundary,
                   response>>

AwaitResult(p) ==
    /\ phase[p] = "sent" /\ Abort /\ phase' = [phase EXCEPT ![p] = "got"]
    /\ first' = IF p \in Seat /\ communicationProcessFailed(p) THEN p ELSE first
    /\ UNCHANGED <<startup, now>>

AwaitGivesUp ==
    /\ \/ parent /\ UNCHANGED startup
       \/ ~startup /\ startup' = TRUE
    /\ Abort /\ UNCHANGED <<phase, first, now>>

AwaitAll ==
    /\ Go("await", "collect") /\ readied = Proc /\ armed' = TRUE
    /\ UNCHANGED <<match, parent, comm, run, startup, fired, deadline, proto, now, loop, response>>

-----------------------------------------------------------------------------
(* The loop that collects the results *)

Collected(p) == pc = "collect" /\ phase[p] = "sent" /\ phase' = [phase EXCEPT ![p] = "got"]
CollectRest == <<match, pc, parent, readied, result, why, begun, timer, proto, response>>

\* It waits for the end of the manager's result as well.
CollectManager ==
    /\ Collected(M) /\ proto # "none"
    /\ IF communicationProcessFailed(M) \/ proto # "valid"
       THEN triggered' = TRUE /\ comm' = TRUE /\ UNCHANGED boundary
       ELSE boundary' = boundary \cup {"exit"} /\ UNCHANGED <<triggered, comm>>
    /\ UNCHANGED <<CollectRest, now, first>>

\* Mutant: a participant that fails after the manager has finished is blamed.
communicationParticipantFailureOverridesManager_Always(p) == TRUE

\* managerCompletedAt is known once the manager's result has been collected.
communicationParticipantFailureOverridesManager(p) ==
    result[p].source = "sandbox_init" \/ phase[M] # "got" \/ at[p] < at[M]

CollectSeat(p) ==
    /\ Collected(p)
    /\ IF /\ communicationProcessFailed(p) /\ first = Nobody /\ ~triggered /\ ~parent
          /\ communicationParticipantFailureOverridesManager(p)
       THEN /\ first' = p /\ triggered' = TRUE
            /\ IF match THEN boundary' = boundary \cup {"fault"} /\ UNCHANGED comm
                        ELSE comm' = TRUE /\ UNCHANGED boundary
       ELSE UNCHANGED <<first, triggered, boundary, comm>>
    /\ UNCHANGED <<CollectRest, now>>

AllCollected ==
    /\ Go("collect", "judge") /\ \A p \in Proc : phase[p] = "got"
    /\ comm' = TRUE /\ IF first # Nobody THEN StampMatch("cancel") ELSE UNCHANGED now
    /\ UNCHANGED <<match, parent, run, timer, proto, loop, response>>

\* Once the exit timer's function has ended and the result is there.  With a cgroup,
\* a limit of the aggregate or a failure to read it takes the score away.  The
\* deferred calls stop the timers and remove cgroup and work directories.
Judge ==
    /\ Go("judge", "returned") /\ "exit" \notin boundary /\ proto # "none"
    /\ LET r == IF match THEN buildCommunicationMatchResponse ELSE buildCommunicationResponse
       IN  response' \in {r} \cup IF match THEN {Fail("communication:aggregate")}
                                  ELSE IF r.outcome = "scored"
                                  THEN {Answer("RE", "communication:aggregate", Nobody)} ELSE {}
    /\ UNCHANGED <<match, parent, comm, run, startup, armed, fired, deadline, proto, now, loop>>

Coordinator ==
    \/ Prepare \/ AwaitAll \/ AwaitGivesUp \/ CollectManager \/ AllCollected \/ Judge
    \/ \E p \in Proc : AwaitResult(p)
    \/ \E p \in Seat : CollectSeat(p)

Returned == pc = "returned" /\ UNCHANGED vars

Next == Coordinator \/ Background \/ ParentCancels \/ Returned \/ \E p \in Proc : SandboxedRun(p)

Spec == Init /\ [][Next]_vars

-----------------------------------------------------------------------------
(* Properties.  TLC's deadlock check adds that no wait of one for another, at the   *)
(* gate, at a boundary or for the manager's result, is ever stuck for good.         *)

Genuine(p) == why[p] \in {"own", "deadline"}

\* No target runs before every process has reported that it is ready, and one that
\* runs always has a wall timer or a done context to end it, however the start ended.
StartedTogether ==
    /\ begun # {} => readied = Proc
    /\ \A p \in Proc : phase[p] = "running" => armed \/ comm

\* A version 1 verdict of the manager's stands only if the manager ended by itself and
\* every participant that failed by itself completed after it.
ManagerVerdictStands ==
    response.outcome = "scored" /\ ~parent =>
        /\ why[M] = "clean" /\ proto = "valid"
        /\ \A p \in Seat : /\ Genuine(p) => at[p] > at[M]
                            /\ result[p].source # "sandbox_init"

\* A match is forfeited by a seat that failed by itself or whose pipe broke, against one
\* that did not fail by itself, and scored by a manager that did its work: a fault of the
\* manager's own is never turned into a forfeit, and no fault of a seat is hidden behind
\* the manager's result.  A broken pipe that the seat has survived counts against it only
\* if it came first, before a manager that was then canceled.
MatchIsFair ==
    /\ response.outcome = "forfeit" =>
          /\ Genuine(response.seat) \/ why[response.seat] = "pipe"
          /\ result[response.seat].source = "stream_io" /\ ~Genuine(response.seat) =>
                why[M] = "canceled" /\ at[response.seat] < at[M]
          /\ \A p \in Seat \ {response.seat} : ~Genuine(p)
    /\ response.outcome = "completed" => \A p \in Seat : ~Genuine(p)
    /\ response.outcome \in {"completed", "forfeit"} => ~Genuine(M)

\* A match is unscored for two faults only if both seats failed: being canceled by the
\* coordinator is never counted as the second fault.
CancellationIsNoFault ==
    response.source = "communication:double_forfeit" => \A p \in Seat : why[p] # "canceled"
=============================================================================
