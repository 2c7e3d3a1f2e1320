# A verification project for aonohako

aonohako is a judge server written in Go. Its HTTP API takes compile and execute requests,
authenticates and admits them through several limits, queues them for a small number of run slots,
runs them in a sandbox on this host or on another aonohako server, and answers with a stream of
server-sent events that ends in one result.

This directory holds TLA+ modules translated from the Go source, TLC configurations that check them
on small instances, and TLAPS proofs. `PROJECT.json` maps every definition to the lines it models,
and lists the runs, the mutants that show each property can fail, the hazards, the findings and the
theorems.

Contents: 1 inventory, 2 modules and their correspondence to the code, 3 runs and what they show,
4 findings and observations, 5 bounds, 6 fairness and assumptions, 7 proofs, 8 what is not modelled,
9 what could come next.

## 1. Inventory

How a request travels, with the part of the system each step belongs to:

    client -> body limit, auth, replay cache, rate limit, upload and stream limits   internal/api
           -> byte budget, JSON decoding, payload downloads                          internal/api, payloadurl
           -> work lifecycle (draining) and the run queue                            internal/api, internal/queue
           -> local or remote runner                                                 internal/execute, internal/compile
                local:  service -> steps -> sandboxed run -> judge                   internal/execute
                        service -> compiler recipe -> compile sandbox                internal/compile
                                   helper, cgroup, leases                            internal/sandbox, isolation, security
                remote: upload, event reader, four clocks                            remoteio
           -> event stream back to the client                                        internal/sse

| Component | State it keeps | Operations | What is hard | What makes it correct |
|---|---|---|---|---|
| Run queue, `queue/manager.go` | active count, line of entries, state of each permit, one channel per entry | Acquire, Wait, Cancel, Release | Wait races Cancel, Release, the grant and the context; the slot is given back after unlocking | no slot lost or doubled, nobody sleeps while a slot is free, first come first served |
| Work lifecycle and shutdown, `api/lifecycle.go`, `cmd/server/shutdown.go` | registered requests, running flags, draining flag, done channel | begin, start, finish, BeginDrain, CancelWork, WaitForWork | draining races admission, the step to running, and the last finish | draining decides every request's fate, running jobs keep their grace period, shutdown ends |
| Upload and stream limits, `api/server.go` | an atomic counter, counts per principal | acquire, release | increment-then-compare with a rollback on two levels | never more admitted than allowed, no count leaks, idle principals are forgotten |
| Byte budget, `api/request_budget.go` | bytes in use, reservations | reserve, settle, release | a reservation is settled with a difference after the lock was dropped | bytes in use are exactly the reservations |
| Compile and execute handlers, `api/server.go`, `api/url_payload.go` | what one request holds | the handler with its deferred calls, the heartbeat goroutine | up to seven resources and an early return after each | everything is given back on every path; a running job holds what it should |
| Authentication and replay cache, `api/server.go`, `api/platform_replay.go` | nonces with expiries per principal, a total, hashing slots | authenticate, admit, prune, sweep | clock values taken before the lock; three limits | a nonce is remembered until it expires; expired ones are in nobody's way |
| Rate limit, `api/server.go` | a window per principal, time of the last cleanup | allow | late clock values, cleanups made by other principals' requests | bounded bursts, no old windows |
| Event writers, `sse/*` | wire, auxiliary and log byte counts, a sticky failure | Event, Result, heartbeats; the shortening of a large result | three goroutines on one connection, a budget shared by the result that comes last | whole frames, room for the result, a result that fits and is cut as little as possible |
| Remote runners, `execute/remote.go`, `compile/remote.go`, `remoteio/*` | timers, reader state, log budgets | upload, read events, cancel | four clocks and the caller cancel one context; the peer stops anywhere | it returns, believes only whole results, blames the right clock |
| Sandboxed run, `execute/sandbox_exec.go` | process, cgroup, lease, context timer, watchdog samples | start, handshake, watch, kill, reap, classify, clean up | the process and its children against the watchdog, the timer and cmd.Wait | nothing left behind, no good verdict for a bad run, no blame without cause |
| Interactive runs, `execute/interactive*.go` | two runs, a start barrier, three timers, flags of who ended whom | start, ready, expire, finish, reconcile | either side may end first and cancels the other | both released or neither; a victim is not blamed |
| Communication runs, `execute/communication*.go` | a manager and n participants, barrier, timers, completion times | start, ready, collect, cancel, build the response | results in any order, ordered again by completion time | released once; a failure outranks the manager only if it came first; at most one forfeit |
| Execution service and pipelines, `execute/service.go`, `pipeline.go` | artifacts and their bytes, step results, time budget of downloads | run a step, store, hand over, judge | an early return in every step | the response lists what ran; no artifact outlives the request |
| Short-case sampling, `execute/short_repeat*.go` | samples | repeat, median | cancellation or failure between samples | the first failure is kept |
| Judge, `execute/judge.go`, `compare.go` | none | evaluate, special judge | the order in which findings outrank one another | a verdict with a cause |
| Workspace and commands, `execute/workspace.go`, `command.go` | a directory tree | prepare, capture | files that change while they are read | only regular files of the workspace are captured |
| Compile service and sandbox, `compile/service.go`, `sandbox_command.go` | process, cgroup, lease | run, watch, kill, scan | children that outlive the compiler or leave its process group | artifacts are read when nobody writes them; every build returns its lease |
| Compilers and artifacts, `compile/*` | none between requests | one recipe per language | sequential I/O | |
| Cgroups, `isolation/cgroup` | directories of the kernel | create, add, kill, remove | retry loops against forking members | removed or reported |
| Helper and seccomp, `sandbox/*` | the process itself | handshake, limits, exec | failing after "ready" | the target starts only after the release |
| Runtime state lease, `security/runtime_state.go` | a read-write lock, links under /tmp | acquire, release | TryLock without waiting, failing cleanup | exclusive holders are alone, and the shared path leads to their workspace |
| Communication identities, `security/communication_identity.go` | none | one check at start | | |
| CPU time, `timing/*`, `execute/time_budget.go`, `remote_timeout.go` | calibration of this host | calibrate, normalize, raw limit, wall limit, the caller's allowance | rounding at boundaries, saturation, limits computed in four places | one verdict on the CPU time; no wall limit ends a run within its CPU limit |
| Validation and JSON, `runvalidation/*`, `api/json_*.go` | none | predicates over a request | many combinations | |
| Configuration, platform, health | constants of a process | load, check | | |
| Runtime packs, policies, tools, scripts | none | | | |

Shared state between components is the handler's: it calls the queue, the lifecycle, the limits and
the budget, each of which has its own lock. A run calls
back into the event writer through hooks while the heartbeat goroutine writes to it as well.

## 2. Modules

Abstract specifications, which say what a component promises:

* `SlotPool`: at most `Capacity` holders and a first-come-first-served line that is empty while a
  slot is free.
* `AdmissionPool`: a set of holders within a capacity and a share per principal.
* `StartBarrier`: programs that talk to each other start together or not at all; the barrier opens
  or breaks, once.
* `DrainPromise`: the state of admitted work, and what a drain owes it.

Admission, `internal/queue` and `internal/api`:

* `PermitQueue` models `queue.Manager` and `queue.Permit`. Each critical section of either mutex is
  one action, and so is each look at the context in `Permit.Wait` between them. A permit has an
  owner goroutine; a permit in `Shared` also has a peer that calls Cancel or Release once at any
  time. Giving the slot back (`p.once.Do`) is an action of its own because the code makes it after
  unlocking. It implements `SlotPool`.
* `WorkLifecycle` models `workLifecycle` and `shutdownServer`. `gone` says that a request's client or
  stream gave up, the one reason other than the drain for cancelling it.
* `AdmissionLimit` has the counters of the upload and stream limits, and the steps between
  increment, comparison and rollback. It implements `AdmissionPool`.
* `ByteBudget` has one action per method of `requestByteBudget`. The bytes in use are compared with the
  set of bytes reserved (`Reserved`), one element for each.
* `RequestPath` composes the handlers with `WorkLifecycle`, two `AdmissionPool`s, `ByteBudget` and
  `SlotPool` by INSTANCE: a handler step is a step of the handler together with one of the component
  it calls. Authentication, decoding and validation are steps that succeed or fail. Using the
  abstract pools here is justified by the two refinements above.
* `PlatformAuth` models signed requests from the signature check to `platformReplayCache.admit`, with
  prune and sweep. The clock value passed to `admit` is an earlier one, as in the code.
* `RateLimiter` models `allowPrincipalRequest` with its cleanup. The ghost `allowed` remembers the
  requests let in during the last span, for the property alone.
* `MCIngress` runs the last three limits a request meets side by side.

One program, `internal/execute`:

* `SandboxRun` models one call of `runCommandWithSandbox` / `executeSandboxCommandWithStreams`: every
  preparation step with its error path, the handshake with the helper (the request is written before
  anybody watches the context; what ends a write that blocks is `exec.CommandContext`), the
  watchdog's looks in their order, the kill, the final statistics and scan, the chain of
  classifications, and the clean-up. The process may exec, fork, exit, hang, be killed or exceed
  limits at any time. Of a resource it keeps whether its limit is exceeded now or was at some time.
* `CPUTime` models the calibration of a host with its retries, the conversions between its CPU time
  and the reference host's, and the wall limits derived from them in four places: the sandbox, an
  interactive run, a communication on Cloud Run, and the caller of a remote server, who does not know
  the host. Products are exact and results saturate where the code's do.

Programs that talk to each other, `internal/execute`:

* `InteractiveRun` models `runInteractiveExecution`: two sandboxed runs, which keep of `SandboxRun`
  their phases and outcomes; the start timers, the execution timers and the grace period of
  `interactive_timeout.go`; the goroutine around each run; the loop that collects both results and
  cancels the other side; `interactiveResponse`. Its start implements `StartBarrier`.
* `CommunicationRun` models `runCommunication` for a manager and its participants in both versions
  (a match has two, a version 1 run any number):
  readiness, the startup timer, wall timers, the manager's result, completion stamps taken by each
  goroutine and results received in any order, `cancelCommunicationAfterStartupBoundary`, the exit
  grace, `buildCommunicationResponse` and the match rules of version 2.

Requests with several programs, `internal/execute`:

* `ServiceRun` models `Service.Run`: a single run, sampled when it is short; two steps with a handoff;
  Pipeline V1 with its artifact store, its shared download time and its final judge. A sandboxed or an
  interactive run counts by what it returns. Data is its origin, its length and whether it is whole.
  The requests are those `runvalidation` lets through.

Builds, `internal/compile`:

* `CompileRun` models overlapping builds: validation and every early return, the plan of commands of
  every compiler in the registry, the sandboxed command with watchdog, cgroup and deferred clean-up,
  the collection of artifacts and the bounded response, and the runtime state lease of
  `security/runtime_state.go`, which ordinary commands share and which `dotnet`, `dafny` and
  `kotlinc-native` take alone because they reach their workspace through a path of the machine.

The way back, `internal/sse` and `internal/remoteio`:

* `EventStream` models `sse.Writer` and `sse.CompileWriter`: the lock, the budget decision and the
  separate writes of one frame, used by handler, run and heartbeat. It also has the limits the
  reading side enforces, to say that what one end sends the other end accepts.
* `ResultClip` is the binary search of `sse/result.go` for the share of the text fields, over texts
  given as sequences of encoded rune lengths.
* `RemoteRun` models the client side of a remote execution or compilation. The peer is external and
  may do anything line by line; the timers of the upload, of an error body, of silence and of the
  whole run are separate steps, and so is what each one's function does.
* `MCStreams` runs the three and `CPUTime` side by side.

The theorems are in modules of their own, each named after what it is about: `PermitQueueProofs`,
`IngressProofs` (about `AdmissionLimit`, `PlatformAuth` and `RateLimiter` as `MCIngress` puts them
together), `RequestPathProofs` (with `WorkLifecycle`), `SandboxRunProofs`, `ServiceRunProofs`,
`PeersProofs` (about `CommunicationRun` and `InteractiveRun`), `CompileRunProofs` and `StreamsProofs`
(about `CPUTime`, `EventStream`, `ResultClip` and `RemoteRun` as `MCStreams` puts them together). `MC...`
modules give model values, sets of requests and symmetry, and put independent components side by
side in one run. `MCCommunication` leaves out what cannot change an answer. `MCInteractiveRun` only renames the variables of `InteractiveRun`, so that `PeersProofs` can
have those of `CommunicationRun` beside them.

Definitions whose names end in `_` and a word are mutants: a plausible bug in the definition that
follows. They are used by no specification; `PROJECT.json` says which property each one violates.

## 3. Runs and what they show

* `queue`: three permits, one with a peer, one slot, a line that is unlimited or has one place. Slots
  are conserved, nobody waits while one is free, no grant overtakes, every step is one of `SlotPool`,
  and a blocked Wait returns.
* `request_queue`: three requests, one slot, a line of one. A running job holds its slot, stream and
  registration, and a handler has whatever it is about to give back (`HandlersAreBacked`);
  the handlers use the queue only as `SlotPool` allows, which includes the slot granted at the moment a client disconnects.
* `request_bytes`: two requests whose bodies and payloads compete for one byte, under fairness. Every
  early return gives everything back; the handlers respect the lifecycle, so that the drain decides
  every request's fate, keeps the grace period of running jobs and closes `done` exactly when nobody
  is left; every admitted request ends and every shutdown completes.
* `ingress`: a nonce is not accepted again before it expires, and a request is refused for lack of
  room only because of live entries, with clock values out of order; at most twice the rate in one
  minute less the delay, which is what fixed windows give; the counters of the limits implement
  `AdmissionPool`.
* `streams`: frames are whole except for a last one cut by a failure and the remote reader accepts
  them (`StreamIsReadable`), logs and heartbeats keep to their shares, a result is cut as little as it
  must, the client of a remote server believes only whole results, names the clock that ended the
  run, and returns; and `LimitsAgree`: on every supported host, the raw comparison of the sandbox and
  the later ones in milliseconds give one verdict, and neither the wall limit nor the caller's
  patience ends a run that is within its CPU limit.
* `sandbox_run`: when a run returns, all processes are dead and reaped, the cgroup is removed or
  reported, the lease is back and no goroutine is left (`NothingLeft`); a run found good exceeded no
  limit that is metered, a verdict that blames the use of a resource is about a limit that was
  exceeded, and slow preparation is never charged to the wall time limit (`VerdictIsTrue`), though a
  client's cancellation may be, since the code reports any done context as `wall_time`; and it always
  returns, even from a helper that never reads its request.
* `interactive`: the start implements `StartBarrier`, whatever the order of readiness, failure and
  expiry; a contestant that is interrupted is interrupted for a reason the verdict knows; an accepted
  run was accepted by an interactor that ended by itself and within its limits, about a contestant that
  ended well or that the interactor interrupted before its time was up and before the client gave
  up; the request is answered. What the contestant has done until it was interrupted is forgiven, and
  the property says nothing of it: output that was cut off, final figures that are too high
  (section 4).
* `communication`: nobody runs before all are ready, and whoever runs has a timer or a done context to
  end it. In version 1 the manager's verdict stands only if no participant failed before it, and no
  participant's sandbox failed at any time. In version 2 a match is forfeited by a seat that failed by
  itself, or whose pipe broke, against one that did not fail by itself, and a broken pipe that the seat
  survived counts only if it came before the end of a manager that was then cancelled; being
  cancelled is never the second fault. Checked under the timing assumption `Prompt` (section 6).
* `service`: what a program reads is complete and the very output its request names; the store lends
  out only files on disk, and counts each once, within the total; the downloads of all steps take the
  time of one; an accepted answer is about the whole output of the last step after all others succeeded; a sampled time is the median of three accepted runs.
  Checked if a contestant stops printing when its interactor accepts (`Chatty = FALSE`).
* `compile`: one build following any compiler's plan beside one that needs the shared path. The path
  leads to the build that runs it and no other build runs meanwhile; artifacts are read from a
  workspace nobody writes, except by a process that left its group where the policy lets it and no
  cgroup caught it; every build returns its lease.
* `communication_cancel` and `pipeline_prefix` expect a violation: they are the findings. The first
  explores only matches that nothing else disturbs (`SoundMatchSpec`): the request is not cancelled,
  no sandbox fails, and everybody is in time.

## 4. Findings and observations

Two disagreements between documents and code, each with the run that shows it:

* `communication_cancel`: `docs/communication-v2.md` says that the cancellation of the participants a
  coordinator stops "is never counted as a second fault". A participant that `os/exec` or the
  cgroup's killer ends before its watchdog looks at the context is reported `signal_unattributed`,
  which `communicationIndependentParticipantFault` does not excuse: the forfeit of one seat becomes
  `double_forfeit`.
* `pipeline_prefix`: `docs/pipeline-v1.md` says that interactive stdout truncation is "an artifact
  failure, never a prefix handoff". A contestant that has printed more than its limit when it is
  cancelled after its interactor's acceptance is not blamed: its status is ignored
  (`interactive.go:516`), and the truncated stdout is stored and handed to the next step.

Met while reading, modelled as they are, and not contradicted by a property:

* `interactive.go:516` ignores the contestant's status after an acceptance in one more case than
  `docs/payload.md:534` describes, that of a contestant cancelled during initialization. With the status
  it forgives what the contestant did before it was cancelled: a standard output above the limit,
  final CPU time or memory that are too high, an exit code (`Killed` keeps them). Only the artifact
  of a pipeline step contradicts a document.
* In a match, a manager that is still running may close a seat's pipe. If the seat then ends well, with
  `stream_io` for its only fault, and is the first to end, the coordinator cancels the manager, and the
  seat forfeits although it is not independent by the code's own `communicationIndependentParticipantFault`
  (`communication_v2.go:246`). `MatchIsFair` describes this case instead of excluding it.
* A seat that writes once more into the pipe its manager has closed by ending well dies of SIGPIPE, which
  is the source `signal` and therefore independent: it forfeits in spite of the manager's result.
  `docs/communication-v2.md:127` gives a result precedence over "later teardown signals", and line 143
  keeps a "target signal" independent; the code follows the latter. `MatchIsFair` allows it (`"pipe"`).
* Version 1 of communication: when the start is given up, the gate opens after the cancellation, and
  `buildCommunicationResponse` does not look at who has started. The timer of the exit grace
  (`communication.go:656`) cancels without recording the time of the cancellation.
* The comment at `cpu_normalization.go:96` promises an exact boundary between `NormalizeMillis` and
  `RawLimitMillis`. It does not hold where a raw limit rounds down to zero and is raised to one. The
  verdicts use nanoseconds, for which the boundary is exact (`LimitsAgree`); the milliseconds only
  serve wall limits.
* A step's standard input may be as long as `MaxTextFieldBytes`, but the file a special judge is given
  it in is bounded by the workspace, so that a longer one is a runtime error of the judge.
  `byteLimitWriter` refuses an empty part once its limit is reached exactly.
* A build ended by its deadline may be reported `Internal`, "killed by signal". A failed removal of the
  shared link changes an `OK` to `Internal` and leaves the link, and after any other status it is only logged (`sandbox_command.go:146`); a
  failed removal of a cgroup is only logged, so that what is in it may outlive the build.
* Artifacts that are read one by one (`bun`, `rescript`, `purescript`) are bounded in total only when
  the response is prepared. The branch of `compileCSharp` for `dotnet new` is never taken.

## 5. Bounds

* Queue: three permits are needed for a line of two behind a holder, which is what overtaking takes.
  The theorems remove this bound for everything but liveness.
* Requests: three share one slot with one in line and one refused; the run with bytes and payloads has
  two, where one holds the byte the other waits for. More requests add no new conflict, since every
  resource has one unit in these instances. The theorems about `RequestPath` hold for any number of
  requests and units; ending and completing are checked on these instances only.
* `AuthTime` and `RateTime` in `MCIngress` stop the clocks after each entry has had time to expire and
  its window to be replaced: three ticks with a skew of one, three windows of three ticks. The theorems
  hold for all values of these bounds, which makes them bounds of the run only.
* `EventStream`: sizes are such that a log, an image and a result together exceed the stream, and the
  largest payload is one that just fits. `ResultClip`: all combinations of three texts of up to two
  runes and all limits. The theorems hold for all sizes that fit each other (section 6), any fields,
  rune costs and texts.
* `RemoteRun`: `MaxFrames = 2` allows an event that is left incomplete by the first and completed by
  the second, and a log budget that is used up by two chunks. The theorems about its
  safety hold for all values of these bounds.
* `CPUTime`: words of eight bits, four nanoseconds to the millisecond and hosts within a factor of
  two make every rounding, raise and saturation happen. The theorem removes the bound.
* `SandboxRun`: at most two limits are exceeded in one run (`MaxExceeded`), which is what it takes for
  one finding to hide another. The theorems hold for any `MaxExceeded`; that the run returns is
  checked with two.
* `InteractiveRun` has no bound: two sides, each with a few ways to end. `CommunicationRun` has two
  participants in its runs, all that a match has; the theorems hold for any finite number. The client
  cancels in version 1 only (`MCSpec`): a match is then answered with an error whatever else happens.
  The theorems are about `Spec`, which has all of it.
* `ServiceRun`: data up to three units with limits of one, two, three and four make every limit bite
  alone and together; two steps, up to two outputs and two inputs each, suffice for an artifact under
  two names, two of one step, and one that is handed on and captured. The theorems hold for all limits
  and for pipelines with any number of steps (`MaxPipelineSteps`), inputs and outputs.
* `CompileRun`: a lease has one writer, so two builds show every conflict; artifacts of size zero, one
  and more against limits of one. The theorems hold for any number of builds, plans and limits.
* Counters in the code (int, int64) stay far below their limits elsewhere; widths matter in `CPUTime`.

## 6. Fairness and assumptions

Safety needs none. Elsewhere, always weak fairness, and only of:

* goroutines of the server that can take a step: the Go scheduler runs every runnable goroutine;
* timers that are armed, and a cancelled context reaching its watcher, `exec.CommandContext` included;
* in `PermitQueue` and `RequestPath`, the end of a run that holds a slot. The code justifies it by the
  wall clock limit of every run; `sandbox_run`, `interactive` and `compile` check that a run returns;
* in `RequestPath`, the steps of a shutdown that has begun;
* in `CompileRun`, the deadline of a build's context.

Clients, peers, helpers and sandboxed processes owe nothing: they may stop at any time.

Three constants are assumptions about the environment rather than sizes:

* `Prompt` (`CommunicationRun`): goroutines run within the exit grace period, a watchdog notices a done
  context before the target is killed by somebody else, and a cancelled target does not pass the gate
  (where the `select` of `sandbox_exec.go:830` may choose either). Nothing in the code enforces it,
  which is why the runs have it both ways.
* `Chatty` (`ServiceRun`): may a contestant still print when its interactor has accepted. Both ways.
* `Grouped` (`CompileRun`): may a cgroup parent be configured. The run has both.

The assumptions about the other constants, which the theorems rest on and TLC evaluates in every run,
say what configuration and validation ensure:

* limits are integers or naturals (`ConfigAssumption`, `LimitAssumption`, `ByteAssumption`,
  `BoundAssumption`, `LimitsAssumption`), the set of permits is finite and every caller of an admission
  limit has a principal (`PermitsAssumption`, `PrincipalAssumption`);
* `AuthAssumption`: a bucket of the replay cache has room for one nonce; clocks and skews are naturals;
* `RateAssumption`: the rate is positive and a late clock value is less than a window late;
* `JobAssumption` and `GroupedAssumption` (`CompileRun`): the value for "no build" is not a build;
* `BoundsAssumption` and `RequestAssumption` (`ServiceRun`): an output is never longer than a text
  field, which `runvalidation` makes true, and requests have the shape their JSON is decoded to;
* `SeatAssumption` (`CommunicationRun`): finitely many participants, none named as the manager or a stamp;
* `ConstantsFit` (`CPUTime`), see section 7;
* `StreamConstantsFit`, `ClipConstantsFit` (`MCStreams`, from `SizesFit` of `EventStream` and
  `ResultClip`): an event with its overhead fits the stream, a line and the reserve for what is not a
  log fit it together, heartbeats fit into that reserve, an event and a line, and every rune costs at
  least a byte. The code's numbers are 64 MiB for a line and for an event of an execution, 128 MiB for a
  stream, 4 MiB for heartbeats and 16 MiB that logs leave to the rest.

## 7. Proofs

`PermitQueueProofs` proves, for every finite set of permits, every subset of shared ones and every
configuration, that the queue keeps its types (`TypeCorrect`), conserves slots (`SlotsConserved`),
forgets nobody (`NobodyForgotten`), serves in order (`FirstComeFirstServed`) and implements
`SlotPool` (`Refinement`). The only assumptions are that the limits are integers (New replaces the
unusable ones) and that the set of permits is finite.

The invariant that makes it inductive is `IInv`. Slot conservation alone does not survive a
give-back: that a slot is returned once rests on who is entitled to return it. `GiveBackOK` says that
whoever is about to give back has taken the slot away (the state says cancelled or released), that the
owner and the peer are never both about to, and that the sync.Once has not fired before. `LineOK` says
that the line holds pending permits, each once, so that a hand-over goes to somebody without a slot.
`CreatedOK` says that a permit not yet created has left no trace. There is one lemma per kind of step,
each proving preservation and the step of `SlotPool` together, because both need the same case
analysis. Lemmas about removing from a sequence and about the cardinality of the holders come first.

`StreamsProofs` first proves `LimitsAgree` (`LimitsOfEveryHost`) for any width of words, any limits, any
calibration and any number of participants and CPUs. Its assumption `ConstantsFit` says that the
longest limit, scaled to the slowest supported host, fits a word, and that a communication's smallest
slack has a millisecond for each participant. Both hold by a wide margin for the constants of the
code. The inductive invariant, that a server serves only on a host in the supported range, is short;
the work is arithmetic. `FloorWithin` and `CeilWithin` say when a rounded quotient is within a bound.
With them, `ScaledWithin` shows that converting whole milliseconds and the remainder separately loses
nothing, and `Verdicts` that rounding down before the comparison and rounding up twice after it
decide alike. `Millis`, `Walls` and `Covers` relate the wall limits of a host to those of the slowest
one, `Waves`, `AllowanceMono` and `Matches` do it for communications. The prover has no integer
division beyond its definition and little multiplication, hence the small lemmas in front.

Its other parts are about the way back of the results.

* `StreamStaysReadable`, `SharesStayKept`: the invariant `WriterInv` follows the code's own order. Only
  the holder of the lock writes, and never on a stream that failed (`LockOK`), so that one writer at most
  is between the two lines of a frame (`ShapeOK`). The frame under way was let through by the budget
  (`FrameOK`), for which the counters have to be the bytes on the wire although a frame is counted only
  after its last write; `CountsOK` adds what is out and uncounted (`Uncounted`). That logs keep out of
  the reserve, and everything but the result out of the result's share, is `BudgetOK`.
* `ClipStaysFair`: the search keeps a share that fits below and one that does not above (`ClipInv`). What
  the fields take together is a sum over sequences, which would be an induction over data; the model
  counts it instead, as the cardinality of the set of bytes, and the lemmas compare these sets
  (`Total` grows when each part does, and by at least one when a share grows below the largest field).
* `ReasonsAreTrue`, `ResultsAreWhole`: a cancelled stream was cancelled by somebody whose trace is left
  (`CauseOK`), and the upload timer's flag is set from its firing on (`UploadOK`). What is on the wire
  continues what the reader has read (`WireOK`, `ReaderOK`), so that the data of a result is taken for it
  only under its own event line, and a line that was cut is never good data.

`IngressProofs` is about the limits a request meets before its body is decoded, for any callers,
principals, nonces and limits.

* `LimiterImplementsPool`: the counters implement `AdmissionPool`. `PoolInv` says of each counter, the
  global one and each principal's, that it counts the callers between increment and decrement
  (`GlobalExact`, `MapExact`), and that a caller let in had passed the comparison when it was let in
  (`Passed`). A rollback on the second level leaves the first too high for a moment, which costs an
  admission but never grants one. `AdmissionIsPooled` lifts it to the composition.
* `BurstsAreBounded`: what one principal is let in during one span is in two parts, the requests of its
  window and those before it, neither larger than the rate (`Within`). When a window is replaced, its
  requests become the earlier part and the old earlier part is out of the span's reach, even with clock
  values that are `MaxDelay` late, and even if another principal's clean-up has removed the window.
* `CacheStaysConsistent`, `NoReplay`, `RoomForTheLiving`: an admission that is still live has its entry,
  which expires no sooner (`Remembered`); the total is the number of entries, and no bucket is empty or
  too full (`Bucketed`). The clock value a caller brings is never later than the clock (`CallersOK`), so
  that what it prunes is over for everybody.

`RequestPathProofs` proves, for any requests and limits, that whoever has answered holds nothing
(`HandlersGiveBack`) and that handlers have what they use and give back (`HandlersHaveWhatTheyUse`). What
a request holds is a function of where its handler stands (`HoldsOK`). For this to survive the steps of
other handlers, a slot given up must go to one that waits, once and without a slot (`LineOK`). That the
budget is the sum of what is held needs no induction: a settlement changes the bytes of one request, and
the set of reserved bytes grows or shrinks by that many elements (`Recount`, `BytesOK`). Each handler step
is of one of four kinds, by the component it calls (`QuietStep`, `ByteStep`, `QueueStep`, `OutsideStep`),
and the others are undisturbed by it (`OthersHold`). The composition is a step or a stutter of the
lifecycle and of the queue (`LifecycleRefined`, `QueueRefined`), so that `DrainIsOrderly`, proved once
of `WorkLifecycle`, holds of the whole server (`ServerDrains`), and so does `NothingStartsWhileDraining`.
The lifecycle's invariant adds `PhaseOK`, that the phase of `shutdownServer` and the draining flag agree
and that before the drain only a client's departure cancels a request: what begin and start may do
depends on the flag, what the properties promise on the phase.

`SandboxRunProofs` proves `NothingLeft` and `VerdictIsTrue` however many limits a run exceeds. What can be
left follows from where the parent stands and how far the leader and the goroutine in `cmd.Wait` are
(`PathOK`). A verdict is true for four reasons: the wall clock limit is armed only after the handshake
(`TimeOK`); every reason that may reach the verdict was a fact when it was noted, and facts are about what
was exceeded at some time, which stays so (`BlameOK`); nothing is consumed once the group is killed; and
each final check passed while the verdict is still good has found its resource within its limit
(`CheckedOK`). The chain of classifications is one lemma per link: each keeps a verdict sound and
replaces only a good one (`Sound`, `Keeps`).

`ServiceRunProofs` is about any request the validation lets through, with pipelines of any length.
`StoreIsBounded` and `RepeatsAreHonest` hold without a condition. `NothingIsTruncated` and
`AcceptanceIsEarned` assume `NoChatter`: if a contestant may still be printing when its interactor accepts
(`Chatty`), the request has no interactive step. Without it they are false, as the finding of
`pipeline_prefix` shows. What a run returned (`RunOK`) becomes an artifact or a handoff (`PathsOK`) and
then an input (`InputOK`), and wholeness goes along that chain: a result whose capture was cut is a failed
result, so it is never stored, and what is stored fits every later limit. That references only name
earlier outputs, and that those have been stored by then, comes from the order of steps and outputs
(`FlowOK`). In the books (`BooksOK`), `OneMoreFile` says that a file new to the store brings its own
bytes, and the interactor's file, which can have two names, is counted with the first. `MiddleIsMedian`
shows that taking the middle of three stably sorted samples is a median.

`PeersProofs` proves of `CommunicationRun`, for any number of participants and under `Prompt`, that targets start
together (`StartIsTogether`), that the manager's verdict is earned (`VerdictIsEarned`), that matches are
fair in the sense of section 3 (`MatchesAreFair`) and that being cancelled is no fault
(`CancellationIsExcused`). `Prompt` is a hypothesis of all four; `communication_cancel` shows what is
false without it. Whom the answer blames is decided by the order of stamps that independent goroutines take, and the results arrive in another
order. The invariant therefore says what each result tells of the reason for it (`ExplainedOK`,
`DeadlineOK`), that stamps are distinct and taken when a run is sent (`StampsOK`), and then two things
about the cancellation. Whoever fails by itself before it is the first failure or comes after somebody who is
(`TriggerOK`). A victim of it completes after its stamp, or after a manager that had failed and been
collected, or after the point where nobody can be blamed any more (`CancelOK`), so that it is never the
first (`BlameOK`). The exit grace, which cancels without a stamp, is what makes the third case necessary. Where a sandbox
has failed (`SandboxFailed`) these two are not kept, and not needed: no score stands and a match has no
outcome then. A broken pipe is a cause of its own in `ExplainedOK`; one that came first keeps its place
before the manager's end, because only that place makes the coordinator cancel the manager.

Of `InteractiveRun` it proves that its start implements `StartBarrier` (`StartIsABarrier`), that
interruptions are on record (`InterruptionsAreRecorded`) and that acceptance is earned
(`AcceptedRunsAreEarned`). TLC explores the module completely, since it has no constants; the proofs say
why it holds. `NoStart` is the moment after which no target will ever run, which the lock of the timers
makes final (`GateOK`); a side that reported ready is still ready unless its context was cancelled, and that
takes a start that was made or given up, or the request's end (`CancelCause`), so the second to be ready
finds the first one waiting. A contestant is cancelled without a record only when its run is over or
no target will run. The answer is about two runs that have been collected, which no timer can still touch
(`PairAnswer`), and `Reconciled` says what a relay's error may do to a result: it may
forgive a stream that broke because the peer had ended, never a run that was cancelled or failed by
itself. What the acceptance forgives in a contestant that was cancelled is not part of it.

`CompileRunProofs` proves `PathStaysPrivate` and `ArtifactsStayWhole` for any number of builds, plans and
limits. The path is private because of who holds the lease at which point of a command (`LeaseOK`), what a
failed removal may leave of it (`LinkOK`) and which processes can be alive where (`ProcessesOK`): those of
a build that has left its command are strays, which have left the process group where the policy lets
them. `StatusOK` says that a build that reads artifacts has not failed.

Only model-checked:

* liveness (`WaitReturns`, `EverythingEnds`, `RemoteReturns`, `RunReturns`, `BuildReturns`): the prover
  does neither ENABLED nor fairness;
* that `CancellationIsNoFault` and `InputsWhole` fail without `Prompt` and with `Chatty`, which two
  runs show by a counterexample each.

## 8. Not modelled

`PROJECT.json` gives the reason for each component.

* Configuration, the platform contract and health are read once and do not change: their results are
  constants. The check of communication identities is one of them.
* Payload URLs: which addresses may be fetched is a predicate; the handlers model a download that
  succeeds, fails or is too large.
* Packs, images, policies, build tools, the self-test (`cmd/`, nearly a quarter of the code): catalogues, and
  programs that drive the service from outside.
* Of partly modelled components: command lines and environments of the languages, the contents of
  messages and files, text comparison, the seccomp program and rlimits, the retry loops within
  cgroup removal, HMAC and hashing, and validation rules about a single field.
* Everywhere: wording, logging and metrics; process numbers and their reuse, pipe capacities and
  partial writes of the kernel; in `CompileRun`, the moment
  between SIGKILL and the death of a process whose end nobody awaits. The memory and workspace sums that admit a communication are one step
  that succeeds or fails. `SandboxRun` relies on the seccomp policy for the target being unable to
  leave its process group; `CompileRun` does not, where a compiler's policy allows it. The lease of the runtime state is also
  taken by runs of programs, which `CompileRun` does not have, and without its link by a server that
  does not manage the filesystem, which is for development only.

## 9. What could come next

* `InteractiveRun` with two complete `SandboxRun`s in place of their phases, which TLC would need
  smaller instances of both for.
* TLC runs of a communication with three participants, and the retries of cgroup removal against forking members.
