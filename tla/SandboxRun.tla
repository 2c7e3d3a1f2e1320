----------------------------- MODULE SandboxRun -----------------------------
(***************************************************************************)
(* One sandboxed execution: runCommandWithSandbox and                      *)
(* executeSandboxCommandWithStreams of internal/execute.                   *)
(*                                                                         *)
(* The parent prepares, starts the helper, puts it into a cgroup, waits    *)
(* until it is ready, releases it, watches the target it becomes, and in   *)
(* the end decides on a verdict.  Concurrently run the process itself, its *)
(* children, the goroutine in cmd.Wait, the image stream, the timer of the *)
(* context and whoever may cancel it.                                      *)
(*                                                                         *)
(* Of the resources only "over the limit or not" is kept: `ever' for what  *)
(* meters add up, `now' for what is seen only while it is so.  The target  *)
(* cannot leave its process group (seccomp), so a kill reaches everybody.  *)
(***************************************************************************)
EXTENDS Naturals, FiniteSets

CONSTANT MaxExceeded   \* bound: how many limits one run exceeds

ASSUME BoundAssumption == MaxExceeded \in Nat

VARIABLES kind,        \* "plain", or one of the two kinds that run in pairs
          cgroup,      \* a cgroup parent is configured
          pc,          \* where the parent stands
          lease,       \* the runtime state lease is held
          group,       \* the run's cgroup
          leader,      \* the helper and, once it has called exec, the target
          exit,        \* how the leader ended
          kids,        \* other processes of the group, and do they hold stdout?
          ready, released,   \* the two synchronization messages
          waitCh,      \* the channel of the goroutine in cmd.Wait
          copyFailed,  \* cmd.Wait reports that a stream could not be copied
          image,       \* the goroutine that streams images
          timer, budget, expired,   \* of sandboxExecutionContext
          cause,       \* context.Cause, "none" while the context is alive
          ever, now,   \* limits exceeded at some time, at this time
          nearLimit,   \* maxVmSizeKB came near the address space limit
          statsRead,   \* the final cgroup statistics could be read
          killReason,  \* parentKillReason
          verdict      \* Status and VerdictSource

proc  == <<leader, exit, kids>>
clock == <<timer, budget, expired, cause>>
meter == <<ever, now>>
sync  == <<ready, released, waitCh, copyFailed, image>>
fixed == <<kind, cgroup>>
final == <<nearLimit, statsRead, killReason, verdict>>
vars  == <<fixed, pc, lease, group, proc, sync, clock, meter, final>>

Verdict(s, src) == [status |-> s, source |-> src]
OK == Verdict("OK", "")
Clean == verdict.status = "OK"

Alive == leader \in {"helper", "ready", "target"}

Init ==
    /\ kind \in {"plain", "interactive", "communication"} /\ cgroup \in BOOLEAN
    /\ pc = "setup" /\ lease = FALSE /\ group = "none"
    /\ leader = "none" /\ exit = "none" /\ kids = "none"
    /\ ready = FALSE /\ released = FALSE /\ waitCh = "none" /\ copyFailed = FALSE
    /\ image = "done" /\ timer = "armed" /\ expired = "none" /\ cause = "none"
    /\ budget = IF kind = "plain" THEN "startup" ELSE "execution"
    /\ ever = {} /\ now = {} /\ nearLimit = FALSE /\ statsRead = FALSE
    /\ killReason = "" /\ verdict = OK

Go(from, to) == pc = from /\ pc' = to

\* kill(-pid, SIGKILL)
KillGroup ==
    /\ leader' = IF Alive THEN "dead" ELSE leader
    /\ exit' = IF Alive THEN "kill" ELSE exit
    /\ kids' = "none"

-----------------------------------------------------------------------------
(* The context and its timer *)

TimerFires ==
    /\ timer = "armed" /\ timer' = "fired" /\ expired' = budget
    /\ UNCHANGED <<fixed, pc, lease, group, proc, sync, budget, cause, meter, final>>

\* The timer's function runs in a goroutine of its own, some time later.
TimerCancels ==
    /\ timer = "fired" /\ timer' = "spent"
    /\ cause' = IF cause = "none" THEN "deadline" ELSE cause
    /\ UNCHANGED <<fixed, pc, lease, group, proc, sync, budget, expired, meter, final>>

ParentCancels ==
    /\ cause = "none" /\ cause' = "canceled"
    /\ UNCHANGED <<fixed, pc, lease, group, proc, sync, timer, budget, expired, meter, final>>

-----------------------------------------------------------------------------
(* Preparation.  Whatever fails, the helper is killed and reaped before the  *)
(* parent returns.                                                           *)

InitFail(from) ==
    /\ Go(from, "failed") /\ KillGroup /\ verdict' = Verdict("InitFail", "")
    /\ UNCHANGED <<fixed, lease, group, sync, meter, nearLimit, statsRead, killReason>>

Fails(from) == InitFail(from) /\ UNCHANGED clock

Prepare ==
    /\ \/ Go("setup", "start") /\ lease' = TRUE /\ UNCHANGED verdict
       \/ Go("setup", "stop") /\ verdict' = Verdict("InitFail", "") /\ UNCHANGED lease
    /\ UNCHANGED <<fixed, group, proc, sync, clock, meter, nearLimit, statsRead, killReason>>

StartHelper ==
    /\ \/ Go("start", "group") /\ leader' = "helper" /\ UNCHANGED verdict
       \/ Go("start", "stop") /\ verdict' = Verdict("InitFail", "") /\ UNCHANGED leader
    /\ UNCHANGED <<fixed, lease, group, exit, kids, sync, clock, meter, nearLimit, statsRead,
                   killReason>>

CreateRunGroup ==
    \/ /\ Go("group", IF cgroup THEN "join" ELSE "request")
       /\ group' = IF cgroup THEN "present" ELSE "none"
       /\ UNCHANGED <<fixed, lease, proc, sync, clock, meter, final>>
    \/ cgroup /\ Fails("group")

AddProc ==
    \/ Go("join", "request") /\ UNCHANGED <<fixed, lease, group, proc, sync, clock, meter, final>>
    \/ Fails("join")

\* The write blocks until the helper has read what the pipe does not hold.
WriteRequest ==
    /\ leader = "helper" /\ Go("request", "sync") /\ waitCh' = "empty"
    /\ UNCHANGED <<fixed, lease, group, proc, ready, released, copyFailed, image, clock, meter, final>>

\* Nobody is left to read: the parent closed its own reading end.
WriteFails == ~Alive /\ Fails("request")

\* cmd.Wait, or the channel of the goroutine that is in cmd.Wait.
FailedWait ==
    /\ \/ waitCh = "none" /\ leader = "dead" /\ leader' = "reaped" /\ UNCHANGED waitCh
       \/ waitCh = "full" /\ waitCh' = "received" /\ UNCHANGED leader
    /\ Go("failed", "clean")
    /\ UNCHANGED <<fixed, lease, group, exit, kids, ready, released, copyFailed, image, clock, meter,
                   final>>

-----------------------------------------------------------------------------
(* Synchronization with the helper *)

SyncReady ==
    /\ ready /\ Go("sync", "baseline")
    /\ UNCHANGED <<fixed, lease, group, proc, sync, clock, meter, final>>

\* The pipe was closed without a message, or the context is done.
SyncFails == (leader \in {"dead", "reaped"} /\ ~ready) \/ cause # "none"

SyncFailed == SyncFails /\ Fails("sync")

SyncExited ==
    /\ Go("sync", "clean") /\ waitCh = "full" /\ waitCh' = "received"
    /\ verdict' = Verdict("InitFail", "")
    /\ UNCHANGED <<fixed, lease, group, proc, ready, released, copyFailed, image, clock, meter,
                   nearLimit, statsRead, killReason>>

Baseline ==
    \/ /\ Go("baseline", IF kind = "plain" THEN "startWall" ELSE "gate")
       /\ UNCHANGED <<fixed, lease, group, proc, sync, clock, meter, final>>
    \/ ~cgroup /\ ~Alive /\ Fails("baseline")

\* The other side of the pair is ready too, and the caller closes targetRelease.
GateOpens ==
    /\ Go("gate", "startWall")
    /\ UNCHANGED <<fixed, lease, group, proc, sync, clock, meter, final>>

GateCanceled == cause # "none" /\ Fails("gate")

\* Mutant: the result of timer.Stop is ignored.
StartWallTimer_IgnoresStop ==
    \/ /\ cause = "none" \/ kind = "communication"
       /\ Go("startWall", "release")
       /\ timer' = IF kind = "plain" THEN "armed" ELSE timer
       /\ budget' = "execution"
       /\ UNCHANGED <<fixed, lease, group, proc, sync, expired, cause, meter, final>>
    \/ cause # "none" /\ kind # "communication" /\ Fails("startWall")

\* A timer that has fired cannot be stopped, whether or not its function has run.
StartWallTimer ==
    \/ /\ kind = "plain"       => timer = "armed" /\ cause = "none"
       /\ kind = "interactive" => cause = "none"
       /\ Go("startWall", "release") /\ budget' = "execution"
       /\ UNCHANGED <<fixed, lease, group, proc, sync, timer, expired, cause, meter, final>>
    \/ /\ kind = "plain" /\ timer # "armed" /\ InitFail("startWall")
       /\ cause' = IF cause = "none" THEN "deadline" ELSE cause
       /\ UNCHANGED <<timer, budget, expired>>
    \/ kind # "communication" /\ cause # "none" /\ Fails("startWall")

Release ==
    \/ /\ Go("release", "exec") /\ released' = TRUE
       /\ UNCHANGED <<fixed, lease, group, proc, ready, waitCh, copyFailed, image, clock, meter, final>>
    \/ ~Alive /\ Fails("release")

\* The ready pipe is closed by exec, or by the helper's death.
ExecSync ==
    \/ /\ Go("exec", "watch") /\ leader \in {"target", "dead", "reaped"}
       /\ image' \in {"on", "done"}
       /\ UNCHANGED <<fixed, lease, group, proc, ready, released, waitCh, copyFailed, clock, meter,
                      final>>
    \/ cause # "none" /\ Fails("exec")

-----------------------------------------------------------------------------
(* The watchdog *)

\* Mutant: when time is up the target is not killed.
WatchDone_NoKill ==
    /\ cause # "none" /\ Go("watch", "reap")
    /\ UNCHANGED <<fixed, lease, group, proc, sync, clock, meter, final>>

WatchDone ==
    /\ cause # "none" /\ Go("watch", "reap") /\ KillGroup
    /\ killReason' = IF killReason = "" THEN "wall_time" ELSE killReason
    /\ UNCHANGED <<fixed, lease, group, sync, clock, meter, nearLimit, statsRead, verdict>>

Reap ==
    /\ Go("reap", "done") /\ waitCh = "full" /\ waitCh' = "received"
    /\ verdict' = IF Clean THEN Verdict("TLE", "wall_time") ELSE verdict
    /\ UNCHANGED <<fixed, lease, group, proc, ready, released, copyFailed, image, clock, meter,
                   nearLimit, statsRead, killReason>>

WatchExit ==
    /\ Go("watch", "done") /\ waitCh = "full" /\ waitCh' = "received"
    /\ copyFailed' \in IF exit = "zero" THEN BOOLEAN ELSE {FALSE}
    /\ UNCHANGED <<fixed, lease, group, proc, ready, released, image, clock, meter, final>>

\* A tick of the watchdog looks at one limit after the other; what it reads may
\* be gone or unreadable.  The first breach it finds is the verdict.
Look(breached, v) ==
    /\ Go("watch", "kill") /\ Clean /\ breached /\ verdict' = v
    /\ UNCHANGED <<fixed, lease, group, proc, sync, clock, meter, nearLimit, statsRead, killReason>>

LookVM ==
    /\ pc = "watch" /\ leader = "target" /\ "vm" \in ever /\ ~nearLimit /\ nearLimit' = TRUE
    /\ UNCHANGED <<fixed, pc, lease, group, proc, sync, clock, meter, statsRead, killReason, verdict>>

LookRSS == Look(leader = "target" /\ "memory" \in now, Verdict("MLE", "memory_rss"))

LookGroupCPU == Look(group = "present" /\ "cpu" \in ever, Verdict("TLE", "cpu_time_cgroup"))

Events == ever \cap {"memory", "pids"}

\* cgroupLimitBreachSince: memory before processes.
Breach == IF "memory" \in ever THEN Verdict("MLE", "memory_cgroup")
                               ELSE Verdict("RE", "pids_cgroup")

LookEvents == Look(group = "present" /\ Events # {}, Breach)

LookCPU == Look(leader = "target" /\ "cpu" \in ever, Verdict("TLE", "cpu_time"))

LookFiles ==
    \/ Look("files" \in now, Verdict("WLE", "workspace"))
    \/ Look(TRUE, Verdict("WLE", "workspace_scan"))

killTarget ==
    /\ Go("kill", "watch") /\ KillGroup
    /\ killReason' = IF killReason = "" THEN verdict.source ELSE killReason
    /\ UNCHANGED <<fixed, lease, group, sync, clock, meter, nearLimit, statsRead, verdict>>

-----------------------------------------------------------------------------
(* The verdict *)

\* Mutant: what is left of the group is not killed.
Done_NoKill ==
    /\ Go("done", "relay")
    /\ UNCHANGED <<fixed, lease, group, proc, sync, clock, meter, final>>

Done ==
    /\ Go("done", "relay") /\ KillGroup
    /\ UNCHANGED <<fixed, lease, group, sync, clock, meter, final>>

\* Runs in pairs have a live stdin, whose relay may have failed or not stop.
Relay ==
    /\ Go("relay", "image")
    /\ \/ UNCHANGED verdict
       \/ kind # "plain" /\ Clean /\ verdict' = Verdict("RE", "stream_io")
    /\ UNCHANGED <<fixed, lease, group, proc, sync, clock, meter, nearLimit, statsRead, killReason>>

AwaitImage ==
    /\ Go("image", "stats") /\ image = "done"
    /\ UNCHANGED <<fixed, lease, group, proc, sync, clock, meter, final>>

FinalStats ==
    /\ Go("stats", "scan")
    /\ \/ group = "present" /\ statsRead' = TRUE
          /\ verdict' = IF Clean /\ Events # {} THEN Breach ELSE verdict
       \/ UNCHANGED <<statsRead, verdict>>
    /\ UNCHANGED <<fixed, lease, group, proc, sync, clock, meter, nearLimit, killReason>>

FinalScan ==
    /\ Go("scan", "classify")
    /\ \/ verdict' = IF Clean /\ "files" \in now THEN Verdict("WLE", "workspace") ELSE verdict
       \/ Clean /\ verdict' = Verdict("WLE", "workspace_scan")
    /\ UNCHANGED <<fixed, lease, group, proc, sync, clock, meter, nearLimit, statsRead, killReason>>

KillStatus(reason) ==
    CASE reason = "wall_time"                      -> "TLE"
      [] reason \in {"cpu_time", "cpu_time_cgroup"} -> "TLE"
      [] reason \in {"memory_rss", "memory_cgroup"} -> "MLE"
      [] reason \in {"workspace", "workspace_scan"} -> "WLE"
      [] reason = "pids_cgroup"                    -> "RE"

classifySandboxSignal(v) ==
    IF v.status # "OK" \/ exit \notin {"xcpu", "signal", "kill"} THEN v
    ELSE IF exit = "xcpu" THEN Verdict("TLE", "cpu_rlimit")
    ELSE IF exit = "signal" THEN Verdict("RE", "signal")
    ELSE IF killReason # "" THEN Verdict(KillStatus(killReason), killReason)
    ELSE IF cause = "deadline" THEN Verdict("TLE", "wall_time")
    ELSE Verdict("RE", "signal_unattributed")

waitError(v) == IF v.status = "OK" /\ copyFailed THEN Verdict("RE", "stream_io") ELSE v

\* The rusage of the reaped process, when it makes sense; a run without a cgroup
\* that exits with zero is not believed without it.
finalizeWaitCPUTime(v, rusage) ==
    IF ~cgroup /\ ~rusage /\ v.status = "OK" /\ exit \notin {"nonzero", "init"}
    THEN Verdict("InitFail", "cpu_accounting") ELSE v

addressSpace(v) ==
    IF nearLimit /\ v.status \notin {"TLE", "InitFail"} THEN Verdict("MLE", "address_space") ELSE v

\* A script engine may report that it ran out of memory.
runtimeMemory(v) ==
    IF v.status \notin {"TLE", "InitFail"} THEN Verdict("MLE", "runtime_memory") ELSE v

\* Mutant: the unsampled tail is forgotten.
applyFinalCPUTimeStatus_Sampled(v, rusage) == v

applyFinalCPUTimeStatus(v, rusage) ==
    IF v.status = "OK" /\ "cpu" \in ever /\ (IF cgroup THEN statsRead ELSE rusage)
    THEN Verdict("TLE", "cpu_time_final") ELSE v

sandboxInit(v) == IF exit = "init" THEN Verdict("InitFail", "sandbox_init") ELSE v

wallTime(v) == IF v.status = "OK" /\ cause = "deadline" THEN Verdict("TLE", "wall_time") ELSE v

Classify ==
    /\ Go("classify", "clean")
    /\ \E rusage, near, said \in BOOLEAN :
          LET signalled == waitError(classifySandboxSignal(verdict))
              counted   == finalizeWaitCPUTime(signalled, rusage)
              reported  == IF said THEN runtimeMemory(counted) ELSE counted
              memory    == IF near THEN addressSpace(reported) ELSE reported
              cpu       == applyFinalCPUTimeStatus(memory, rusage)
          IN  verdict' = wallTime(sandboxInit(cpu))
    /\ UNCHANGED <<fixed, lease, group, proc, sync, clock, meter, nearLimit, statsRead, killReason>>

\* The deferred calls: the cgroup, which may be left behind with a warning ...
cleanupSandboxCgroup ==
    /\ Go("clean", "stop")
    /\ IF group = "present" THEN group' \in {"none", "stuck"} /\ KillGroup
                            ELSE UNCHANGED <<group, proc>>
    /\ UNCHANGED <<fixed, lease, sync, clock, meter, final>>

\* ... then the runtime state, the timer and the context.
Return ==
    /\ Go("stop", "returned") /\ lease' = FALSE
    /\ timer' = IF timer = "armed" THEN "spent" ELSE timer
    /\ cause' = IF cause = "none" THEN "canceled" ELSE cause
    /\ UNCHANGED <<fixed, group, proc, sync, budget, expired, meter, final>>

Parent ==
    \/ Prepare \/ StartHelper \/ CreateRunGroup \/ AddProc \/ WriteFails \/ FailedWait
    \/ SyncReady \/ SyncFailed \/ SyncExited \/ Baseline \/ GateCanceled \/ StartWallTimer
    \/ Release \/ ExecSync \/ WatchDone \/ Reap \/ WatchExit \/ LookVM \/ LookRSS \/ LookGroupCPU
    \/ LookEvents \/ LookCPU \/ LookFiles \/ killTarget \/ Done \/ Relay \/ AwaitImage \/ FinalStats
    \/ FinalScan \/ Classify \/ cleanupSandboxCgroup \/ Return

-----------------------------------------------------------------------------
(* The parent's goroutines *)

\* cmd.Wait returns when the leader is dead and nobody holds its output open.
WaitGoroutine ==
    /\ waitCh = "empty" /\ leader = "dead" /\ kids # "holding"
    /\ leader' = "reaped" /\ waitCh' = "full"
    /\ UNCHANGED <<fixed, pc, lease, group, exit, kids, ready, released, copyFailed, image, clock, meter,
                   final>>

\* streamImageEvents ends once stopImageStream is called or the context is done.
ImageEnds ==
    /\ image = "on" /\ image' = "done"
    /\ cause # "none" \/ pc \in {"relay", "image"}
    /\ UNCHANGED <<fixed, pc, lease, group, proc, ready, released, waitCh, copyFailed, clock,
                   meter, final>>

\* Mutant: exec.Command.
CommandContextKills_Never == FALSE /\ UNCHANGED vars

\* exec.CommandContext kills the leader, and nobody else, once the context is done,
\* whatever the parent is waiting for.
CommandContextKills ==
    /\ cause # "none" /\ Alive /\ leader' = "dead" /\ exit' = "kill"
    /\ UNCHANGED <<fixed, pc, lease, group, kids, sync, clock, meter, final>>

-----------------------------------------------------------------------------
(* The process *)

Quiet == <<fixed, pc, lease, group, waitCh, copyFailed, image, clock, final>>

HelperReady ==
    /\ leader = "helper" /\ waitCh # "none" /\ leader' = "ready" /\ ready' = TRUE
    /\ UNCHANGED <<Quiet, exit, kids, released, meter>>

HelperExec ==
    /\ leader = "ready" /\ released /\ leader' = "target"
    /\ UNCHANGED <<Quiet, exit, kids, ready, released, meter>>

\* The helper gives up with its own exit code.
HelperFails ==
    /\ leader \in {"helper", "ready"} /\ leader' = "dead" /\ exit' = "init"
    /\ UNCHANGED <<Quiet, kids, ready, released, meter>>

HostKills ==
    /\ Alive /\ leader' = "dead" /\ exit' = "kill"
    /\ UNCHANGED <<Quiet, kids, ready, released, meter>>

TargetExits ==
    /\ leader = "target" /\ leader' = "dead"
    /\ exit' \in {"zero", "nonzero", "signal"} \cup IF "cpu" \in ever THEN {"xcpu"} ELSE {}
    /\ UNCHANGED <<Quiet, kids, ready, released, meter>>

Fork ==
    /\ leader = "target" /\ kids = "none" /\ kids' \in {"holding", "quiet"}
    /\ UNCHANGED <<Quiet, leader, exit, ready, released, meter>>

KidsEnd ==
    /\ kids # "none" /\ kids' = "none"
    /\ UNCHANGED <<Quiet, leader, exit, ready, released, meter>>

\* Only a cgroup meters the children.
Spend ==
    /\ leader = "target" \/ (group = "present" /\ kids # "none")
    /\ \E what \in {"cpu", "vm"} \cup IF group = "present" THEN {"pids"} ELSE {} :
          what \notin ever /\ ever' = ever \cup {what}
    /\ Cardinality(ever') <= MaxExceeded
    /\ UNCHANGED <<Quiet, proc, ready, released, now>>

Grow ==
    /\ leader = "target" \/ kids # "none"
    /\ \E what \in {"memory", "files"} :
          /\ what = "memory" => leader = "target" \/ group = "present"
          /\ what \notin now /\ now' = now \cup {what} /\ ever' = ever \cup {what}
    /\ Cardinality(ever') <= MaxExceeded
    /\ UNCHANGED <<Quiet, proc, ready, released>>

Shrink ==
    /\ leader = "target" \/ kids # "none"
    /\ \E what \in now : now' = now \ {what}
    /\ UNCHANGED <<Quiet, proc, ready, released, ever>>

Process ==
    \/ HelperReady \/ HelperExec \/ HelperFails \/ HostKills \/ TargetExits
    \/ Fork \/ KidsEnd \/ Spend \/ Grow \/ Shrink

Next == \/ Parent \/ WriteRequest \/ WaitGoroutine \/ ImageEnds \/ CommandContextKills \/ Process
        \/ GateOpens \/ TimerFires \/ TimerCancels \/ ParentCancels

Spec == Init /\ [][Next]_vars

\* The parent and its goroutines run; a timer fires; the process owes nothing, not
\* even that it reads its request.
Fairness == /\ WF_vars(Parent) /\ WF_vars(WaitGoroutine) /\ WF_vars(ImageEnds)
            /\ WF_vars(CommandContextKills)
            /\ WF_vars(TimerFires) /\ WF_vars(TimerCancels)

FairSpec == Spec /\ Fairness

-----------------------------------------------------------------------------
(* Properties *)

\* On every path, the parent returns with all processes of the run dead and the
\* leader reaped, the cgroup removed or reported, the lease given back and no
\* goroutine waiting for a channel nobody reads.
NothingLeft ==
    pc = "returned" =>
        /\ leader \in {"none", "reaped"} /\ kids = "none"
        /\ group # "present" /\ ~lease
        /\ waitCh \in {"none", "received"} /\ image = "done"

\* A run that is found good has not exceeded a limit that a meter keeps, not even
\* after the watchdog's last look, and leaves a workspace within its quota.  A
\* verdict that blames the use of a resource is about a limit that was exceeded.  The
\* wall time is blamed for any done context, a client's cancellation included, but
\* never for a preparation that used up its own budget.
VerdictIsTrue ==
    LET because(sources, what) == verdict.source \in sources => what \in ever IN
    /\ pc = "returned" /\ Clean /\ exit = "zero" =>
        /\ cgroup => ~statsRead \/ ever \cap {"cpu", "memory", "pids"} = {}
        /\ ~cgroup => "cpu" \notin ever
        /\ "files" \notin now
    /\ because({"cpu_time", "cpu_time_cgroup", "cpu_time_final", "cpu_rlimit"}, "cpu")
    /\ because({"memory_rss", "memory_cgroup"}, "memory")
    /\ because({"pids_cgroup"}, "pids")
    /\ because({"address_space"}, "vm")
    /\ because({"workspace"}, "files")
    /\ verdict.source = "wall_time" => cause # "none" /\ expired # "startup"
    /\ verdict.source = "signal_unattributed" => killReason = ""

\* Whatever the target does, the run returns.
RunReturns == <>(pc = "returned")
=============================================================================
