-------------------------- MODULE SandboxRunProofs --------------------------
(***************************************************************************)
(* Machine-checked proofs about SandboxRun, however many limits a run      *)
(* exceeds.                                                                *)
(*                                                                         *)
(* What is left when the parent returns follows from where it stands and   *)
(* how far the leader and the goroutine in cmd.Wait are (PathOK).  That    *)
(* the verdict is true has four parts: the wall time limit can only have   *)
(* expired after the startup budget was exchanged for it (TimeOK), every   *)
(* reason that may end up in the verdict was a fact when it was noted      *)
(* (BlameOK), nothing is spent once the group has been killed (PathOK      *)
(* again), and after each of the final checks a verdict that is still      *)
(* clean has passed it (CheckedOK).                                        *)
(***************************************************************************)
EXTENDS SandboxRun, TLAPS

CPUSources    == {"cpu_time", "cpu_time_cgroup", "cpu_time_final", "cpu_rlimit"}
MemorySources == {"memory_rss", "memory_cgroup"}
KillReasons   == {"wall_time", "cpu_time", "cpu_time_cgroup", "memory_rss", "memory_cgroup",
                  "workspace", "workspace_scan", "pids_cgroup"}

\* Stages of the parent.
Preparing == {"setup", "start", "group", "join", "request"}
Starting  == {"sync", "baseline", "gate", "startWall", "release"}
Watching  == {"exec", "watch", "kill", "reap"}
Judging   == {"relay", "image", "stats", "scan", "classify"}
Ending    == {"clean", "stop", "returned"}

TypeOK ==
    /\ kind \in {"plain", "interactive", "communication"}
    /\ leader \in {"none", "helper", "ready", "target", "dead", "reaped"}
    /\ waitCh \in {"none", "empty", "full", "received"}
    /\ timer \in {"armed", "fired", "spent"} /\ budget \in {"startup", "execution"}
    /\ killReason \in KillReasons \cup {""}
    /\ now \subseteq ever

\* How far everybody is.
PathOK ==
    /\ pc \in {"setup", "start"} => leader = "none"
    /\ leader = "none" => pc \in {"setup", "start", "stop", "returned"}
    /\ pc \in Preparing => waitCh = "none"
    /\ pc \in Starting \cup Watching => waitCh \in {"empty", "full"}
    /\ pc = "failed" => waitCh # "received"
    /\ pc \in {"done"} \cup Judging => waitCh = "received"
    /\ pc \in Ending => waitCh \in {"none", "received"}
    /\ waitCh \in {"full", "received"} => leader = "reaped"
    /\ leader = "reaped" => waitCh \in {"full", "received"} \/ pc \in Ending
    /\ pc = "failed" => leader \in {"dead", "reaped"}
    /\ pc = "clean" => leader = "reaped"
    /\ pc \in {"stop", "returned"} => leader \in {"none", "reaped"}
    /\ leader = "target" => released
    /\ kids # "none" => released
    /\ released => pc \notin Preparing \cup Starting
    /\ pc \in {"failed"} \cup Judging \cup Ending => kids = "none"
    /\ image # "done" => pc \in {"watch", "kill", "reap", "done", "relay", "image"}
    /\ pc \in {"setup", "start"} => group = "none"
    /\ pc \in {"stop", "returned"} => group # "present"
    /\ pc = "returned" => ~lease

\* The startup budget ends before the target is released.
TimeOK ==
    /\ timer = "armed" => expired = "none"
    /\ kind # "plain" => budget = "execution"
    /\ budget = "execution" => expired # "startup"
    /\ pc \in {"release", "done"} \cup Watching \cup Judging => budget = "execution"
    /\ pc = "reap" => cause # "none"

\* s is a reason that is true of the run.
Fact(s) ==
    /\ s \in CPUSources => "cpu" \in ever
    /\ s \in MemorySources => "memory" \in ever
    /\ s = "pids_cgroup" => "pids" \in ever
    /\ s = "address_space" => "vm" \in ever
    /\ s = "workspace" => "files" \in ever
    /\ s = "wall_time" => cause # "none" /\ budget = "execution"

BlameOK ==
    /\ Fact(killReason) /\ Fact(verdict.source)
    /\ exit = "xcpu" => "cpu" \in ever
    /\ nearLimit => "vm" \in ever
    /\ pc = "kill" => verdict.source \in KillReasons
    /\ verdict.source = "signal_unattributed" => pc \in Ending /\ killReason = ""

\* A verdict that is clean so far has passed the checks that were made.
CheckedOK ==
    /\ pc = "failed" => ~Clean
    /\ pc \in Ending /\ leader = "none" => ~Clean
    /\ statsRead => pc \in {"scan", "classify"} \cup Ending
    /\ statsRead /\ Clean => ever \cap {"memory", "pids"} = {}
    /\ pc = "classify" /\ Clean => "files" \notin now
    /\ pc \in Ending /\ Clean /\ exit = "zero" =>
          /\ cgroup => ~statsRead \/ "cpu" \notin ever
          /\ ~cgroup => "cpu" \notin ever
          /\ "files" \notin now

IInv == TypeOK /\ PathOK /\ TimeOK /\ BlameOK /\ CheckedOK

-----------------------------------------------------------------------------
(* Verdicts. *)

\* The fields of a verdict.
LEMMA VerdictFacts ==
    \A v, s, src : v = Verdict(s, src) => v.status = s /\ v.source = src
  <1> TAKE v, s, src
  <1> QED
    BY DEF Verdict

\* Each of the final classifications leaves a verdict as it is or replaces it by
\* one that is not clean, for a reason that is true.
Sound(v) == Fact(v.source) /\ (v.source = "signal_unattributed" => killReason = "")

Keeps(v, w) == Sound(w) /\ (w.status = "OK" => w = v)

LEMMA Kept ==
    \A v : Sound(v) => Keeps(v, v)
  BY DEF Keeps

LEMMA Replaced ==
    \A v, s, src :
        s # "OK" /\ Fact(src) /\ (src = "signal_unattributed" => killReason = "")
        => Keeps(v, Verdict(s, src))
  <1> TAKE v, s, src
  <1> HAVE s # "OK" /\ Fact(src) /\ (src = "signal_unattributed" => killReason = "")
  <1>1. Verdict(s, src).status = s /\ Verdict(s, src).source = src
    BY VerdictFacts
  <1> QED
    BY <1>1 DEF Keeps, Sound

LEMMA SignalIsSound ==
    ASSUME TypeOK, TimeOK, BlameOK, pc = "classify"
    PROVE  \A v : Sound(v) => Keeps(v, classifySandboxSignal(v))
  <1> TAKE v
  <1> HAVE Sound(v)
  <1>1. \/ classifySandboxSignal(v) = v
        \/ exit = "xcpu" /\ classifySandboxSignal(v) = Verdict("TLE", "cpu_rlimit")
        \/ classifySandboxSignal(v) = Verdict("RE", "signal")
        \/ /\ killReason # ""
           /\ classifySandboxSignal(v) = Verdict(KillStatus(killReason), killReason)
        \/ cause = "deadline" /\ classifySandboxSignal(v) = Verdict("TLE", "wall_time")
        \/ killReason = "" /\ classifySandboxSignal(v) = Verdict("RE", "signal_unattributed")
    BY DEF classifySandboxSignal
  <1>2. budget = "execution" /\ (exit = "xcpu" => "cpu" \in ever) /\ Fact(killReason)
    BY DEF TimeOK, BlameOK, Judging
  <1>3. ASSUME exit = "xcpu" PROVE Keeps(v, Verdict("TLE", "cpu_rlimit"))
    <2>1. Fact("cpu_rlimit")
      BY <1>2, <1>3 DEF Fact, CPUSources, MemorySources
    <2> QED
      BY <2>1, Replaced
  <1>4. Keeps(v, Verdict("RE", "signal"))
    <2>1. Fact("signal")
      BY DEF Fact, CPUSources, MemorySources
    <2> QED
      BY <2>1, Replaced
  <1>5. ASSUME killReason # "" PROVE Keeps(v, Verdict(KillStatus(killReason), killReason))
    <2>1. KillStatus(killReason) # "OK" /\ killReason # "signal_unattributed"
      BY <1>5 DEF KillStatus, TypeOK, KillReasons
    <2> QED
      BY <1>2, <2>1, Replaced
  <1>6. ASSUME cause = "deadline" PROVE Keeps(v, Verdict("TLE", "wall_time"))
    <2>1. Fact("wall_time")
      BY <1>2, <1>6 DEF Fact, CPUSources, MemorySources
    <2> QED
      BY <2>1, Replaced
  <1>7. ASSUME killReason = "" PROVE Keeps(v, Verdict("RE", "signal_unattributed"))
    <2>1. Fact("signal_unattributed")
      BY DEF Fact, CPUSources, MemorySources
    <2> QED
      BY <1>7, <2>1, Replaced
  <1> QED
    BY <1>1, <1>3, <1>4, <1>5, <1>6, <1>7, Kept

LEMMA AccountingIsSound ==
    ASSUME BlameOK
    PROVE  \A v, b : Sound(v) =>
              /\ Keeps(v, waitError(v)) /\ Keeps(v, finalizeWaitCPUTime(v, b))
              /\ Keeps(v, runtimeMemory(v)) /\ Keeps(v, addressSpace(v))
              /\ Keeps(v, applyFinalCPUTimeStatus(v, b)) /\ Keeps(v, sandboxInit(v))
  <1> TAKE v, b
  <1> HAVE Sound(v)
  <1>1. Keeps(v, waitError(v))
    <2>1. \/ waitError(v) = v
          \/ waitError(v) = Verdict("RE", "stream_io")
      BY DEF waitError
    <2>2. Fact("stream_io")
      BY DEF Fact, CPUSources, MemorySources
    <2> QED
      BY <2>1, <2>2, Kept, Replaced
  <1>2. Keeps(v, finalizeWaitCPUTime(v, b))
    <2>1. \/ finalizeWaitCPUTime(v, b) = v
          \/ finalizeWaitCPUTime(v, b) = Verdict("InitFail", "cpu_accounting")
      BY DEF finalizeWaitCPUTime
    <2>2. Fact("cpu_accounting")
      BY DEF Fact, CPUSources, MemorySources
    <2> QED
      BY <2>1, <2>2, Kept, Replaced
  <1>3. Keeps(v, runtimeMemory(v))
    <2>1. \/ runtimeMemory(v) = v
          \/ runtimeMemory(v) = Verdict("MLE", "runtime_memory")
      BY DEF runtimeMemory
    <2>2. Fact("runtime_memory")
      BY DEF Fact, CPUSources, MemorySources
    <2> QED
      BY <2>1, <2>2, Kept, Replaced
  <1>4. Keeps(v, addressSpace(v))
    <2>1. \/ addressSpace(v) = v
          \/ nearLimit /\ addressSpace(v) = Verdict("MLE", "address_space")
      BY DEF addressSpace
    <2>2. ASSUME nearLimit PROVE Fact("address_space")
      BY <2>2 DEF Fact, CPUSources, MemorySources, BlameOK
    <2> QED
      BY <2>1, <2>2, Kept, Replaced
  <1>5. Keeps(v, applyFinalCPUTimeStatus(v, b))
    <2>1. \/ applyFinalCPUTimeStatus(v, b) = v
          \/ "cpu" \in ever /\ applyFinalCPUTimeStatus(v, b) = Verdict("TLE", "cpu_time_final")
      BY DEF applyFinalCPUTimeStatus
    <2>2. ASSUME "cpu" \in ever PROVE Fact("cpu_time_final")
      BY <2>2 DEF Fact, CPUSources, MemorySources
    <2> QED
      BY <2>1, <2>2, Kept, Replaced
  <1>6. Keeps(v, sandboxInit(v))
    <2>1. \/ sandboxInit(v) = v
          \/ sandboxInit(v) = Verdict("InitFail", "sandbox_init")
      BY DEF sandboxInit
    <2>2. Fact("sandbox_init")
      BY DEF Fact, CPUSources, MemorySources
    <2> QED
      BY <2>1, <2>2, Kept, Replaced
  <1> QED
    BY <1>1, <1>2, <1>3, <1>4, <1>5, <1>6

LEMMA WallTimeIsSound ==
    ASSUME TimeOK, pc = "classify"
    PROVE  \A v : Sound(v) => Keeps(v, wallTime(v))
  <1> TAKE v
  <1> HAVE Sound(v)
  <1>1. wallTime(v) = v \/ (cause = "deadline" /\ wallTime(v) = Verdict("TLE", "wall_time"))
    BY DEF wallTime
  <1>2. ASSUME cause = "deadline" PROVE Fact("wall_time")
    BY <1>2 DEF TimeOK, Judging, Fact, CPUSources, MemorySources
  <1> QED
    BY <1>1, <1>2, Kept, Replaced

\* What the whole chain does: the new verdict is sound, and if it is clean then the
\* verdict was clean before and no classification had anything against it.
LEMMA ClassifyFacts ==
    ASSUME TypeOK, TimeOK, BlameOK, Classify
    PROVE  /\ Sound(verdict')
           /\ Clean' => Clean /\ (exit = "zero" =>
                 /\ cgroup => ~statsRead \/ "cpu" \notin ever
                 /\ ~cgroup => "cpu" \notin ever)
  <1>1. PICK rusage, near, said \in BOOLEAN :
          LET signalled == waitError(classifySandboxSignal(verdict))
              counted   == finalizeWaitCPUTime(signalled, rusage)
              reported  == IF said THEN runtimeMemory(counted) ELSE counted
              memory    == IF near THEN addressSpace(reported) ELSE reported
              cpu       == applyFinalCPUTimeStatus(memory, rusage)
          IN  verdict' = wallTime(sandboxInit(cpu))
    BY DEF Classify
  <1> DEFINE a == classifySandboxSignal(verdict)
             b == waitError(a)
             c == finalizeWaitCPUTime(b, rusage)
             d == IF said THEN runtimeMemory(c) ELSE c
             e == IF near THEN addressSpace(d) ELSE d
             f == applyFinalCPUTimeStatus(e, rusage)
             g == sandboxInit(f)
  <1>2. verdict' = wallTime(g)
    BY <1>1
  <1>3. pc = "classify" /\ Sound(verdict)
    BY DEF Classify, Go, BlameOK, Sound, Ending
  <1> HIDE DEF g
  <1>a. Keeps(verdict, a) /\ Sound(a)
    BY <1>3, SignalIsSound DEF Keeps
  <1> HIDE DEF a
  <1>b. Keeps(a, b) /\ Sound(b)
    BY <1>a, AccountingIsSound DEF Keeps
  <1> HIDE DEF b
  <1>c. Keeps(b, c) /\ Sound(c) /\ c = finalizeWaitCPUTime(b, rusage)
    BY <1>b, AccountingIsSound DEF Keeps
  <1> HIDE DEF c
  <1>d. Keeps(c, d) /\ Sound(d)
    BY <1>c, AccountingIsSound DEF Keeps
  <1> HIDE DEF d
  <1>e. Keeps(d, e) /\ Sound(e)
    BY <1>d, AccountingIsSound DEF Keeps
  <1> HIDE DEF e
  <1>f. Keeps(e, f) /\ Sound(f) /\ f = applyFinalCPUTimeStatus(e, rusage)
    BY <1>e, AccountingIsSound DEF Keeps
  <1> HIDE DEF f
  <1>g. Keeps(f, g) /\ Sound(g)
    BY <1>f, AccountingIsSound DEF Keeps, g
  <1>h. Keeps(g, verdict')
    BY <1>2, <1>3, <1>g, WallTimeIsSound
  <1>4. ASSUME verdict'.status = "OK"
        PROVE  /\ verdict.status = "OK"
               /\ b.status = "OK" /\ c.status = "OK" /\ e.status = "OK"
               /\ c = b /\ f = e
    BY <1>4, <1>a, <1>b, <1>c, <1>d, <1>e, <1>f, <1>g, <1>h DEF Keeps
  <1>5. \A s, src : Verdict(s, src).status = s /\ Verdict(s, src).source = src
    BY VerdictFacts
  <1>6. ASSUME verdict'.status = "OK", exit = "zero"
        PROVE  /\ ~cgroup => rusage
               /\ ~("cpu" \in ever /\ (IF cgroup THEN statsRead ELSE rusage))
    <2>1. ~cgroup => rusage
      BY <1>4, <1>5, <1>6, <1>c DEF finalizeWaitCPUTime
    <2>2. ~("cpu" \in ever /\ (IF cgroup THEN statsRead ELSE rusage))
      BY <1>4, <1>5, <1>6, <1>f DEF applyFinalCPUTimeStatus
    <2> QED
      BY <2>1, <2>2
  <1> QED
    BY <1>4, <1>6, <1>h DEF Keeps, Clean

-----------------------------------------------------------------------------
(* The steps, by what they are about. *)

\* A step of the preparation, which may fail.
Begins == \/ CreateRunGroup \/ AddProc \/ WriteFails \/ SyncFailed \/ Baseline
          \/ GateCanceled \/ StartWallTimer \/ Release \/ ExecSync

\* The parent before the helper runs.
Prepares == Prepare \/ StartHelper

\* The parent waits for the helper, or for its end.
Awaits == FailedWait \/ SyncReady \/ SyncExited \/ WriteRequest \/ GateOpens

\* The watchdog looks at one limit.
Samples == LookVM \/ LookRSS \/ LookGroupCPU \/ LookEvents \/ LookCPU \/ LookFiles

\* The watchdog kills, or notices the end.
Stops == WatchDone \/ Reap \/ WatchExit \/ killTarget

\* The parent after the run, up to the classification.
Judges == Done \/ Relay \/ AwaitImage \/ FinalStats \/ FinalScan

\* The deferred calls.
Leaves == cleanupSandboxCgroup \/ Return

\* The context and the goroutines of the parent.
Ticks == \/ WaitGoroutine \/ ImageEnds \/ CommandContextKills
         \/ TimerFires \/ TimerCancels \/ ParentCancels

\* The helper, the death of the leader.
Helps == HelperReady \/ HelperExec \/ HelperFails \/ HostKills \/ TargetExits

\* The target and its children.
Uses == Fork \/ KidsEnd \/ Spend \/ Grow \/ Shrink

LEMMA Steps ==
    [Next]_vars => \/ Begins \/ Classify \/ UNCHANGED vars
                   \/ Prepares \/ Awaits \/ Samples \/ Stops \/ Judges
                   \/ Leaves \/ Ticks \/ Helps \/ Uses
  BY DEF Next, Parent, Process, Begins, Prepares, Awaits, Samples, Stops, Judges, Leaves,
     Ticks, Helps, Uses

\* How the steps outside Classify change the verdict.
LEMMA NewVerdict ==
    ASSUME TypeOK
    PROVE  /\ Prepare => \/ pc' = "start" /\ verdict' = verdict
                         \/ pc' = "stop" /\ verdict'.status = "InitFail" /\ verdict'.source = ""
           /\ StartHelper => \/ pc' = "group" /\ verdict' = verdict
                             \/ pc' = "stop" /\ verdict'.status = "InitFail" /\ verdict'.source = ""
           /\ SyncExited => verdict'.status = "InitFail" /\ verdict'.source = ""
           /\ LookRSS => verdict'.source = "memory_rss" /\ "memory" \in ever
           /\ LookGroupCPU => verdict'.source = "cpu_time_cgroup" /\ "cpu" \in ever
           /\ LookEvents => \/ verdict'.source = "memory_cgroup" /\ "memory" \in ever
                            \/ verdict'.source = "pids_cgroup" /\ "pids" \in ever
           /\ LookCPU => verdict'.source = "cpu_time" /\ "cpu" \in ever
           /\ LookFiles => \/ verdict'.source = "workspace" /\ "files" \in ever
                           \/ verdict'.source = "workspace_scan"
           /\ Reap => \/ verdict' = verdict
                      \/ verdict'.source = "wall_time"
           /\ Relay => \/ verdict' = verdict
                       \/ verdict'.source = "stream_io"
           /\ FinalStats => \/ verdict' = verdict
                            \/ verdict'.source = "memory_cgroup" /\ "memory" \in ever
                            \/ verdict'.source = "pids_cgroup" /\ "pids" \in ever
           /\ FinalScan => \/ verdict' = verdict
                           \/ verdict'.source = "workspace" /\ "files" \in ever
                           \/ verdict'.source = "workspace_scan"
  <1>0. \A x : x \in now => x \in ever
    BY DEF TypeOK
  <1>1. ASSUME Prepare
        PROVE  \/ pc' = "start" /\ verdict' = verdict
               \/ pc' = "stop" /\ verdict'.status = "InitFail" /\ verdict'.source = ""
    BY <1>1, VerdictFacts DEF Prepare, Go
  <1>2. ASSUME StartHelper
        PROVE  \/ pc' = "group" /\ verdict' = verdict
               \/ pc' = "stop" /\ verdict'.status = "InitFail" /\ verdict'.source = ""
    BY <1>2, VerdictFacts DEF StartHelper, Go
  <1>3. ASSUME SyncExited
        PROVE  verdict'.status = "InitFail" /\ verdict'.source = ""
    BY <1>3, VerdictFacts DEF SyncExited, Go
  <1>4. ASSUME LookRSS
        PROVE  verdict'.source = "memory_rss" /\ "memory" \in ever
    BY <1>4, <1>0, VerdictFacts DEF LookRSS, Go, Look
  <1>5. ASSUME LookGroupCPU
        PROVE  verdict'.source = "cpu_time_cgroup" /\ "cpu" \in ever
    BY <1>5, VerdictFacts DEF LookGroupCPU, Go, Look
  <1>6. ASSUME LookEvents
        PROVE  \/ verdict'.source = "memory_cgroup" /\ "memory" \in ever
               \/ verdict'.source = "pids_cgroup" /\ "pids" \in ever
    BY <1>6, VerdictFacts DEF LookEvents, Go, Look, Breach, Events
  <1>7. ASSUME LookCPU
        PROVE  verdict'.source = "cpu_time" /\ "cpu" \in ever
    BY <1>7, VerdictFacts DEF LookCPU, Go, Look
  <1>8. ASSUME LookFiles
        PROVE  \/ verdict'.source = "workspace" /\ "files" \in ever
               \/ verdict'.source = "workspace_scan"
    BY <1>8, <1>0, VerdictFacts DEF LookFiles, Go, Look
  <1>9. ASSUME Reap
        PROVE  \/ verdict' = verdict
               \/ verdict'.source = "wall_time"
    BY <1>9, VerdictFacts DEF Reap, Go
  <1>10. ASSUME Relay
        PROVE  \/ verdict' = verdict
               \/ verdict'.source = "stream_io"
    BY <1>10, VerdictFacts DEF Relay, Go
  <1>11. ASSUME FinalStats
        PROVE  \/ verdict' = verdict
               \/ verdict'.source = "memory_cgroup" /\ "memory" \in ever
               \/ verdict'.source = "pids_cgroup" /\ "pids" \in ever
    BY <1>11, VerdictFacts DEF FinalStats, Go, Breach, Events
  <1>12. ASSUME FinalScan
        PROVE  \/ verdict' = verdict
               \/ verdict'.source = "workspace" /\ "files" \in ever
               \/ verdict'.source = "workspace_scan"
    BY <1>12, <1>0, VerdictFacts DEF FinalScan, Go
  <1> QED
    BY <1>1, <1>2, <1>3, <1>4, <1>5, <1>6, <1>7, <1>8, <1>9, <1>10, <1>11, <1>12

FailPoints ==
    {"group", "join", "request", "sync", "baseline", "gate", "startWall", "release", "exec"}

\* The preparation fails: the group is killed, the verdict is InitFail.
LEMMA FailStep ==
    ASSUME IInv, UNCHANGED <<timer, budget, expired>>, cause = "none" \/ cause' = cause,
           NEW from \in FailPoints, InitFail(from)
    PROVE  IInv'
  <1>0. verdict'.status = "InitFail" /\ verdict'.source = ""
    BY VerdictFacts DEF InitFail
  <1> USE DEF IInv, InitFail, FailPoints, KillGroup, Alive, Go, fixed, proc, clock, meter, sync,
              TypeOK, PathOK, TimeOK, Preparing, Starting, Watching, Judging, Ending
  <1>1. TypeOK'
    OBVIOUS
  <1>2. PathOK'
    OBVIOUS
  <1>3. TimeOK'
    OBVIOUS
  <1>4. BlameOK'
    BY <1>0 DEF BlameOK, Fact, CPUSources, MemorySources
  <1>5. CheckedOK'
    BY <1>0 DEF CheckedOK, Clean
  <1> QED
    BY <1>1, <1>2, <1>3, <1>4, <1>5

\* The preparation goes on to its next point.
Advance ==
    /\ \/ pc = "group" /\ pc' \in {"join", "request"}
       \/ pc = "join" /\ pc' = "request"
       \/ pc = "baseline" /\ pc' \in {"startWall", "gate"}
       \/ /\ pc = "startWall" /\ pc' = "release"
          /\ budget' = "execution" /\ expired # "startup"
       \/ pc = "release" /\ pc' = "exec" /\ released'
       \/ pc = "exec" /\ pc' = "watch"
    /\ pc # "startWall" => budget' = budget
    /\ pc # "group" => group' = group
    /\ pc # "release" => (released' <=> released)
    /\ pc # "exec" => image' = image
    /\ UNCHANGED <<fixed, lease, proc, ready, waitCh, copyFailed, timer, expired, cause, meter,
                   final>>

\* One of the steps fails, possibly because the timer has.
Failure ==
    \E from \in FailPoints :
        /\ InitFail(from) /\ UNCHANGED <<timer, budget, expired>>
        /\ cause = "none" \/ cause' = cause

LEMMA BeginStep == ASSUME IInv, Begins PROVE IInv'
  <1>1. Failure \/ Advance
    <2> USE DEF Failure, FailPoints, Fails, clock
    <2>1. ASSUME NEW from \in FailPoints, Fails(from) PROVE Failure
      BY <2>1
    <2> HIDE DEF Failure, FailPoints, Fails
    <2> USE DEF Advance, Go, FailPoints, fixed, proc, sync, meter, final
    <2>2. CASE CreateRunGroup
      BY <2>1, <2>2 DEF CreateRunGroup
    <2>3. CASE AddProc
      BY <2>1, <2>3 DEF AddProc
    <2>4. CASE WriteFails \/ SyncFailed \/ GateCanceled
      BY <2>1, <2>4 DEF WriteFails, SyncFailed, GateCanceled
    <2>5. CASE Baseline
      BY <2>1, <2>5 DEF Baseline
    <2>6. CASE StartWallTimer
      <3>1. CASE /\ kind = "plain" /\ timer # "armed" /\ InitFail("startWall")
                 /\ cause' = IF cause = "none" THEN "deadline" ELSE cause
                 /\ UNCHANGED <<timer, budget, expired>>
        BY <3>1 DEF Failure
      <3>2. CASE kind # "communication" /\ cause # "none" /\ Fails("startWall")
        BY <2>1, <3>2
      <3>3. CASE /\ kind = "plain"       => timer = "armed" /\ cause = "none"
                 /\ kind = "interactive" => cause = "none"
                 /\ Go("startWall", "release") /\ budget' = "execution"
                 /\ UNCHANGED <<fixed, lease, group, proc, sync, timer, expired, cause, meter,
                               final>>
        BY <3>3 DEF IInv, TimeOK
      <3> QED
        BY <2>6, <3>1, <3>2, <3>3 DEF StartWallTimer
    <2>7. CASE Release
      BY <2>1, <2>7 DEF Release
    <2>8. CASE ExecSync
      BY <2>1, <2>8 DEF ExecSync
    <2> QED
      BY <2>2, <2>3, <2>4, <2>5, <2>6, <2>7, <2>8 DEF Begins
  <1>2. CASE Failure
    BY <1>2, FailStep DEF Failure
  <1>3. CASE Advance
    <2> USE <1>3 DEF IInv, Advance, fixed, proc, clock, meter, final, TypeOK, PathOK, TimeOK,
                     Preparing, Starting, Watching, Judging, Ending
    <2>1. TypeOK'
      OBVIOUS
    <2>2. PathOK'
      <3>1. CASE pc = "group"
        BY <3>1
      <3>2. CASE pc = "join"
        BY <3>2
      <3>3. CASE pc = "baseline"
        BY <3>3
      <3>4. CASE pc = "startWall"
        BY <3>4
      <3>5. CASE pc = "release"
        BY <3>5
      <3>6. CASE pc = "exec"
        BY <3>6
      <3> QED
        BY <3>1, <3>2, <3>3, <3>4, <3>5, <3>6
    <2>3. TimeOK'
      OBVIOUS
    <2>4. BlameOK'
      BY ZenonT(30) DEF BlameOK, Fact, CPUSources, MemorySources
    <2>5. CheckedOK'
      BY DEF CheckedOK, Clean
    <2> QED
      BY <2>1, <2>2, <2>3, <2>4, <2>5
  <1> QED
    BY <1>1, <1>2, <1>3

-----------------------------------------------------------------------------
(* Every step preserves every part of the invariant. *)

\* The kinds of values.
LEMMA TypeStep == IInv /\ [Next]_vars => TypeOK'
  <1> SUFFICES ASSUME IInv, [Next]_vars PROVE TypeOK'
    OBVIOUS
  <1> USE DEF IInv, Go, fixed, proc, clock, meter, sync, final, TypeOK, KillReasons, BlameOK
  <1>1. CASE Begins
    BY <1>1, BeginStep DEF IInv
  <1>2. CASE Prepares
    BY <1>2, VerdictFacts DEF Prepares, Prepare, StartHelper
  <1>3. CASE Awaits
    BY <1>3, VerdictFacts DEF Awaits, FailedWait, SyncReady, SyncExited, WriteRequest, GateOpens
  <1>4. CASE Samples
    BY <1>4, VerdictFacts DEF Samples, LookVM, LookRSS, LookGroupCPU, LookEvents, LookCPU,
       LookFiles, Look, Breach, Events
  <1>5. CASE Stops
    BY <1>5, VerdictFacts DEF Stops, WatchDone, Reap, WatchExit, killTarget, KillGroup, Alive
  <1>6. CASE Judges
    BY <1>6, VerdictFacts DEF Judges, Done, Relay, AwaitImage, FinalStats, FinalScan,
       KillGroup, Alive, Breach, Events
  <1>7. CASE Leaves
    BY <1>7, VerdictFacts DEF Leaves, cleanupSandboxCgroup, Return, KillGroup, Alive
  <1>8. CASE Ticks
    BY <1>8, VerdictFacts DEF Ticks, WaitGoroutine, ImageEnds, CommandContextKills,
       TimerFires, TimerCancels, ParentCancels, Alive
  <1>9. CASE Helps
    BY <1>9, VerdictFacts DEF Helps, HelperReady, HelperExec, HelperFails, HostKills,
       TargetExits, Alive, Quiet
  <1>10. CASE Uses
    BY <1>10, VerdictFacts DEF Uses, Fork, KidsEnd, Spend, Grow, Shrink, Quiet
  <1>11. CASE Classify
    BY <1>11, ZenonT(30) DEF Classify
  <1>12. CASE UNCHANGED vars
    BY <1>12, ZenonT(30) DEF vars
  <1> QED
    BY Steps, <1>1, <1>2, <1>3, <1>4, <1>5, <1>6, <1>7, <1>8, <1>9, <1>10, <1>11, <1>12

\* Nobody gets ahead of the others.
LEMMA PathStep == IInv /\ [Next]_vars => PathOK'
  <1> SUFFICES ASSUME IInv, [Next]_vars PROVE PathOK'
    OBVIOUS
  <1> USE DEF IInv, Go, fixed, proc, clock, meter, sync, final, TypeOK, PathOK, Preparing,
        Starting, Watching, Judging, Ending
  <1>1. CASE Begins
    BY <1>1, BeginStep DEF IInv
  <1>2. CASE Prepares
    <2>1. CASE Prepare
      BY <2>1 DEF Prepare
    <2>2. CASE StartHelper
      BY <2>2 DEF StartHelper
    <2> QED
      BY <1>2, <2>1, <2>2 DEF Prepares
  <1>3. CASE Awaits
    <2>1. CASE FailedWait
      BY <2>1 DEF FailedWait
    <2>2. CASE SyncReady
      BY <2>2 DEF SyncReady
    <2>3. CASE SyncExited
      BY <2>3 DEF SyncExited
    <2>4. CASE WriteRequest
      BY <2>4 DEF WriteRequest
    <2>5. CASE GateOpens
      BY <2>5 DEF GateOpens
    <2> QED
      BY <1>3, <2>1, <2>2, <2>3, <2>4, <2>5 DEF Awaits
  <1>4. CASE Samples
    BY <1>4 DEF Samples, LookVM, LookRSS, LookGroupCPU, LookEvents, LookCPU, LookFiles,
       Look, Breach, Events
  <1>5. CASE Stops
    BY <1>5 DEF Stops, WatchDone, Reap, WatchExit, killTarget, KillGroup, Alive
  <1>6. CASE Judges
    BY <1>6 DEF Judges, Done, Relay, AwaitImage, FinalStats, FinalScan, KillGroup, Alive,
       Breach, Events
  <1>7. CASE Leaves
    BY <1>7 DEF Leaves, cleanupSandboxCgroup, Return, KillGroup, Alive
  <1>8. CASE Ticks
    <2>1. CASE WaitGoroutine
      BY <2>1 DEF WaitGoroutine
    <2>2. CASE ImageEnds
      BY <2>2 DEF ImageEnds
    <2>3. CASE CommandContextKills
      BY <2>3 DEF CommandContextKills, Alive
    <2>4. CASE TimerFires
      BY <2>4 DEF TimerFires
    <2>5. CASE TimerCancels
      BY <2>5 DEF TimerCancels
    <2>6. CASE ParentCancels
      BY <2>6 DEF ParentCancels
    <2> QED
      BY <1>8, <2>1, <2>2, <2>3, <2>4, <2>5, <2>6 DEF Ticks
  <1>9. CASE Helps
    <2>1. CASE HelperReady
      BY <2>1 DEF HelperReady, Alive, Quiet
    <2>2. CASE HelperExec
      BY <2>2 DEF HelperExec, Alive, Quiet
    <2>3. CASE HelperFails
      BY <2>3 DEF HelperFails, Alive, Quiet
    <2>4. CASE HostKills
      BY <2>4 DEF HostKills, Alive, Quiet
    <2>5. CASE TargetExits
      BY <2>5 DEF TargetExits, Alive, Quiet
    <2> QED
      BY <1>9, <2>1, <2>2, <2>3, <2>4, <2>5 DEF Helps
  <1>10. CASE Uses
    BY <1>10 DEF Uses, Fork, KidsEnd, Spend, Grow, Shrink, Quiet
  <1>11. CASE Classify
    BY <1>11 DEF Classify
  <1>12. CASE UNCHANGED vars
    BY <1>12 DEF vars
  <1> QED
    BY Steps, <1>1, <1>2, <1>3, <1>4, <1>5, <1>6, <1>7, <1>8, <1>9, <1>10, <1>11, <1>12

\* No step lets the startup budget expire once it has been exchanged.
LEMMA TimeStep == IInv /\ [Next]_vars => TimeOK'
  <1> SUFFICES ASSUME IInv, [Next]_vars PROVE TimeOK'
    OBVIOUS
  <1> USE DEF IInv, Go, fixed, proc, clock, meter, sync, final, TypeOK, PathOK, TimeOK,
        Preparing, Starting, Watching, Judging, Ending
  <1>1. CASE Begins
    BY <1>1, BeginStep DEF IInv
  <1>2. CASE Prepares
    BY <1>2 DEF Prepares, Prepare, StartHelper
  <1>3. CASE Awaits
    BY <1>3 DEF Awaits, FailedWait, SyncReady, SyncExited, WriteRequest, GateOpens
  <1>4. CASE Samples
    BY <1>4 DEF Samples, LookVM, LookRSS, LookGroupCPU, LookEvents, LookCPU, LookFiles,
       Look, Breach, Events
  <1>5. CASE Stops
    BY <1>5 DEF Stops, WatchDone, Reap, WatchExit, killTarget, KillGroup, Alive
  <1>6. CASE Judges
    BY <1>6 DEF Judges, Done, Relay, AwaitImage, FinalStats, FinalScan, KillGroup, Alive,
       Breach, Events
  <1>7. CASE Leaves
    BY <1>7 DEF Leaves, cleanupSandboxCgroup, Return, KillGroup, Alive
  <1>8. CASE Ticks
    BY <1>8 DEF Ticks, WaitGoroutine, ImageEnds, CommandContextKills, TimerFires,
       TimerCancels, ParentCancels, Alive
  <1>9. CASE Helps
    BY <1>9 DEF Helps, HelperReady, HelperExec, HelperFails, HostKills, TargetExits, Alive,
       Quiet
  <1>10. CASE Uses
    BY <1>10 DEF Uses, Fork, KidsEnd, Spend, Grow, Shrink, Quiet
  <1>11. CASE Classify
    BY <1>11 DEF Classify
  <1>12. CASE UNCHANGED vars
    BY <1>12 DEF vars
  <1> QED
    BY Steps, <1>1, <1>2, <1>3, <1>4, <1>5, <1>6, <1>7, <1>8, <1>9, <1>10, <1>11, <1>12

\* Whatever is blamed was a fact when it was blamed, and remains one.
LEMMA BlameStep == IInv /\ [Next]_vars => BlameOK'
  <1> SUFFICES ASSUME IInv, [Next]_vars PROVE BlameOK'
    OBVIOUS
  <1> USE DEF IInv, Go, fixed, proc, clock, meter, sync, final, TypeOK, PathOK, TimeOK,
        BlameOK, Fact, CPUSources, MemorySources, KillReasons, Preparing, Starting,
        Watching, Judging, Ending
  <1>1. CASE Begins
    BY <1>1, BeginStep DEF IInv
  <1>2. CASE Prepares
    <2>1. CASE Prepare
      BY <2>1, NewVerdict DEF Prepare
    <2>2. CASE StartHelper
      BY <2>2, NewVerdict, ZenonT(30) DEF StartHelper
    <2> QED
      BY <1>2, <2>1, <2>2 DEF Prepares
  <1>3. CASE Awaits
    <2>1. CASE FailedWait
      BY <2>1 DEF FailedWait
    <2>2. CASE SyncReady
      BY <2>2 DEF SyncReady
    <2>3. CASE SyncExited
      BY <2>3, NewVerdict DEF SyncExited
    <2>4. CASE WriteRequest
      BY <2>4 DEF WriteRequest
    <2>5. CASE GateOpens
      BY <2>5 DEF GateOpens
    <2> QED
      BY <1>3, <2>1, <2>2, <2>3, <2>4, <2>5 DEF Awaits
  <1>4. CASE Samples
    <2>1. CASE LookVM
      BY <2>1 DEF LookVM
    <2>2. CASE LookRSS
      BY <2>2, NewVerdict DEF LookRSS, Look
    <2>3. CASE LookGroupCPU
      BY <2>3, NewVerdict DEF LookGroupCPU, Look
    <2>4. CASE LookEvents
      BY <2>4, NewVerdict DEF LookEvents, Look
    <2>5. CASE LookCPU
      BY <2>5, NewVerdict DEF LookCPU, Look
    <2>6. CASE LookFiles
      <3>1. /\ pc = "watch" /\ pc' = "kill"
            /\ UNCHANGED <<fixed, proc, clock, meter, nearLimit, statsRead, killReason>>
        BY <2>6 DEF LookFiles, Look
      <3> QED
        BY <2>6, <3>1, NewVerdict
    <2> QED
      BY <1>4, <2>1, <2>2, <2>3, <2>4, <2>5, <2>6 DEF Samples
  <1>5. CASE Stops
    <2>1. CASE WatchDone
      BY <2>1, ZenonT(30) DEF WatchDone, KillGroup, Alive
    <2>2. CASE Reap
      BY <2>2, NewVerdict DEF Reap
    <2>3. CASE WatchExit
      BY <2>3 DEF WatchExit
    <2>4. CASE killTarget
      BY <2>4, ZenonT(30) DEF killTarget, KillGroup, Alive
    <2> QED
      BY <1>5, <2>1, <2>2, <2>3, <2>4 DEF Stops
  <1>6. CASE Judges
    <2>1. CASE Done
      BY <2>1 DEF Done, KillGroup, Alive
    <2>2. CASE Relay
      BY <2>2, NewVerdict DEF Relay
    <2>3. CASE AwaitImage
      BY <2>3 DEF AwaitImage
    <2>4. CASE FinalStats
      BY <2>4, NewVerdict DEF FinalStats
    <2>5. CASE FinalScan
      BY <2>5, NewVerdict DEF FinalScan
    <2> QED
      BY <1>6, <2>1, <2>2, <2>3, <2>4, <2>5 DEF Judges
  <1>7. CASE Leaves
    <2>1. CASE cleanupSandboxCgroup
      BY <2>1 DEF cleanupSandboxCgroup, KillGroup, Alive
    <2>2. CASE Return
      BY <2>2 DEF Return
    <2> QED
      BY <1>7, <2>1, <2>2 DEF Leaves
  <1>8. CASE Ticks
    <2>1. CASE WaitGoroutine
      BY <2>1 DEF WaitGoroutine
    <2>2. CASE ImageEnds
      BY <2>2 DEF ImageEnds
    <2>3. CASE CommandContextKills
      BY <2>3 DEF CommandContextKills, Alive
    <2>4. CASE TimerFires
      BY <2>4 DEF TimerFires
    <2>5. CASE TimerCancels
      BY <2>5 DEF TimerCancels
    <2>6. CASE ParentCancels
      BY <2>6 DEF ParentCancels
    <2> QED
      BY <1>8, <2>1, <2>2, <2>3, <2>4, <2>5, <2>6 DEF Ticks
  <1>9. CASE Helps
    <2>1. CASE HelperReady
      BY <2>1 DEF HelperReady, Alive, Quiet
    <2>2. CASE HelperExec
      BY <2>2 DEF HelperExec, Alive, Quiet
    <2>3. CASE HelperFails
      BY <2>3 DEF HelperFails, Alive, Quiet
    <2>4. CASE HostKills
      BY <2>4 DEF HostKills, Alive, Quiet
    <2>5. CASE TargetExits
      BY <2>5 DEF TargetExits, Alive, Quiet
    <2> QED
      BY <1>9, <2>1, <2>2, <2>3, <2>4, <2>5 DEF Helps
  <1>10. CASE Uses
    <2>1. CASE Fork
      BY <2>1 DEF Fork, Quiet
    <2>2. CASE KidsEnd
      BY <2>2 DEF KidsEnd, Quiet
    <2>3. CASE Spend
      BY <2>3, ZenonT(30) DEF Spend, Quiet
    <2>4. CASE Grow
      BY <2>4 DEF Grow, Quiet
    <2>5. CASE Shrink
      BY <2>5 DEF Shrink, Quiet
    <2> QED
      BY <1>10, <2>1, <2>2, <2>3, <2>4, <2>5 DEF Uses
  <1>11. CASE Classify
    BY <1>11, ClassifyFacts DEF Classify, Sound
  <1>12. CASE UNCHANGED vars
    BY <1>12 DEF vars
  <1> QED
    BY Steps, <1>1, <1>2, <1>3, <1>4, <1>5, <1>6, <1>7, <1>8, <1>9, <1>10, <1>11, <1>12

\* What was checked stays true: the group is dead by then.
LEMMA CheckedStep == IInv /\ [Next]_vars => CheckedOK'
  <1> SUFFICES ASSUME IInv, [Next]_vars PROVE CheckedOK'
    OBVIOUS
  <1> USE DEF IInv, Go, fixed, proc, clock, meter, sync, final, PathOK, CheckedOK, Clean,
        Preparing, Starting, Watching, Judging, Ending
  <1>1. CASE Begins
    BY <1>1, BeginStep DEF IInv
  <1>2. CASE Prepares
    <2>1. CASE Prepare
      BY <2>1, NewVerdict DEF Prepare
    <2>2. CASE StartHelper
      BY <2>2, NewVerdict DEF StartHelper
    <2> QED
      BY <1>2, <2>1, <2>2 DEF Prepares
  <1>3. CASE Awaits
    <2>1. CASE FailedWait
      BY <2>1 DEF FailedWait
    <2>2. CASE SyncReady
      BY <2>2 DEF SyncReady
    <2>3. CASE SyncExited
      BY <2>3, NewVerdict DEF SyncExited
    <2>4. CASE WriteRequest
      BY <2>4 DEF WriteRequest
    <2>5. CASE GateOpens
      BY <2>5 DEF GateOpens
    <2> QED
      BY <1>3, <2>1, <2>2, <2>3, <2>4, <2>5 DEF Awaits
  <1>4. CASE Samples
    BY <1>4, VerdictFacts DEF Samples, LookVM, LookRSS, LookGroupCPU, LookEvents, LookCPU,
       LookFiles, Look, Breach, Events
  <1>5. CASE Stops
    <2>1. CASE WatchDone
      BY <2>1 DEF WatchDone, KillGroup, Alive
    <2>2. CASE Reap
      BY <2>2, VerdictFacts DEF Reap
    <2>3. CASE WatchExit
      BY <2>3 DEF WatchExit
    <2>4. CASE killTarget
      BY <2>4 DEF killTarget, KillGroup, Alive
    <2> QED
      BY <1>5, <2>1, <2>2, <2>3, <2>4 DEF Stops
  <1>6. CASE Judges
    BY <1>6, VerdictFacts DEF Judges, Done, Relay, AwaitImage, FinalStats, FinalScan,
       KillGroup, Alive, Breach, Events
  <1>7. CASE Leaves
    BY <1>7, VerdictFacts DEF Leaves, cleanupSandboxCgroup, Return, KillGroup, Alive
  <1>8. CASE Ticks
    BY <1>8, VerdictFacts DEF Ticks, WaitGoroutine, ImageEnds, CommandContextKills,
       TimerFires, TimerCancels, ParentCancels, Alive
  <1>9. CASE Helps
    BY <1>9, VerdictFacts DEF Helps, HelperReady, HelperExec, HelperFails, HostKills,
       TargetExits, Alive, Quiet
  <1>10. CASE Uses
    BY <1>10, VerdictFacts DEF Uses, Fork, KidsEnd, Spend, Grow, Shrink, Quiet
  <1>11. CASE Classify
    BY <1>11, ClassifyFacts DEF Classify, Sound
  <1>12. CASE UNCHANGED vars
    BY <1>12 DEF vars
  <1> QED
    BY Steps, <1>1, <1>2, <1>3, <1>4, <1>5, <1>6, <1>7, <1>8, <1>9, <1>10, <1>11, <1>12

-----------------------------------------------------------------------------
(* The theorems. *)

LEMMA InitIInv == Init => IInv
  <1> SUFFICES ASSUME Init PROVE IInv
    OBVIOUS
  <1> USE DEF Init, OK, Clean
  <1>0. verdict.status = "OK" /\ verdict.source = ""
    BY VerdictFacts
  <1>1. TypeOK
    BY DEF TypeOK
  <1>2. PathOK
    BY DEF PathOK, Preparing, Starting, Watching, Judging, Ending
  <1>3. TimeOK
    BY DEF TimeOK, Watching, Judging
  <1>4. BlameOK
    BY <1>0 DEF BlameOK, Fact, CPUSources, MemorySources
  <1>5. CheckedOK
    BY <1>0 DEF CheckedOK, Ending
  <1> QED
    BY <1>1, <1>2, <1>3, <1>4, <1>5 DEF IInv

\* The invariant the two theorems need, of everybody's progress, of the clock, of
\* every reason for the verdict and of every check it has passed.
THEOREM Inductive == Spec => []IInv
  <1>1. IInv /\ [Next]_vars => IInv'
    BY TypeStep, PathStep, TimeStep, BlameStep, CheckedStep DEF IInv
  <1> QED
    BY InitIInv, <1>1, PTL DEF Spec

\* However the run of executeSandboxCommandWithStreams ends (a failing preparation, a
\* limit, a deadline, a cancellation, an exit), its deferred calls leave no process, no
\* cgroup, no lease and no goroutine behind, however many limits the target exceeds.
THEOREM RunLeavesNothing == Spec => []NothingLeft
  <1>1. IInv => NothingLeft
    BY DEF IInv, PathOK, NothingLeft, Ending
  <1> QED
    BY <1>1, Inductive, PTL

\* What Classify and the watchdog report is true: a run that is found good is within every
\* metered limit, a resource that is blamed was overused, and a slow preparation is never
\* reported as the target's time (a client's cancellation may be).
THEOREM VerdictsAreTrue == Spec => []VerdictIsTrue
  <1>1. IInv => VerdictIsTrue
    <2> SUFFICES ASSUME IInv PROVE VerdictIsTrue
      OBVIOUS
    <2> USE DEF IInv, Ending
    <2>1. pc = "returned" /\ Clean /\ exit = "zero" =>
              /\ cgroup => ~statsRead \/ ever \cap {"cpu", "memory", "pids"} = {}
              /\ ~cgroup => "cpu" \notin ever
              /\ "files" \notin now
      BY DEF CheckedOK
    <2>2. Fact(verdict.source) /\ (verdict.source = "signal_unattributed" => killReason = "")
      BY DEF BlameOK
    <2>3. budget = "execution" => expired # "startup"
      BY DEF TimeOK
    <2> QED
      BY <2>1, <2>2, <2>3 DEF VerdictIsTrue, Fact, CPUSources, MemorySources
  <1> QED
    BY <1>1, Inductive, PTL
=============================================================================
