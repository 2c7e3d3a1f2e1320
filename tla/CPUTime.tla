------------------------------ MODULE CPUTime ------------------------------
(***************************************************************************)
(* CPU time across hosts: a server measures at its start how long a fixed  *)
(* piece of work takes, and from then on converts between its own CPU time *)
(* and that of a reference host.  One limit is converted to this host and  *)
(* compared with raw nanoseconds while the target runs; the time spent is  *)
(* converted to the reference, reported in milliseconds, and compared with *)
(* the limit once more by the judge and by the caller's server.            *)
(*                                                                         *)
(* Integers are those of the code: products are exact, results saturate at *)
(* MaxWord (uint64) or MaxInt (int).                                       *)
(***************************************************************************)
EXTENDS Integers, Sequences, SequencesExt

CONSTANTS MaxWord,      \* the largest uint64
          NsPerMs,      \* nanoseconds of a millisecond
          MaxRatio,     \* cpuNormalizationMaxRatio
          SlackPct, MinSlack,   \* the wall slack, in percent and in milliseconds
          MaxSpread,    \* cpuCalibrationMaxSpreadPPM, in percent
          MinTime, MaxTime,     \* what a calibration may measure
          MaxAttempts, SampleCount,
          MaxTimeMs,    \* the longest limit a request may ask for
          Download,     \* stdinURLDownloadTimeout
          MultiplierOfWall, WallSlack,   \* of an interactive run
          ManagerExtra, ManagerLeast,    \* the time limit of a communication's manager
          MatchSlackPct, MatchMinSlack,  \* the wall slack of a communication
          MaxParticipants, MaxCPUs       \* bounds: of one communication, of one server

\* The longest limit, scaled as far as it can be, fits the integers.
ConstantsFit ==
    /\ {MaxWord, SlackPct, MaxTime, MaxTimeMs, Download, MultiplierOfWall, WallSlack,
       ManagerExtra, ManagerLeast, MatchSlackPct, MaxParticipants, MaxCPUs} \subseteq Nat
    /\ {NsPerMs, MaxRatio, MinSlack, MinTime, MatchMinSlack, MaxAttempts} \subseteq Nat \ {0}
    /\ MaxTimeMs * MaxRatio * NsPerMs < MaxWord
    /\ MaxTimeMs * MaxRatio < MaxWord \div 2
    /\ MaxParticipants < MatchMinSlack

VARIABLES reference, observed, attempt, pc

vars == <<reference, observed, attempt, pc>>

MaxInt == MaxWord \div 2

Least(a, b)    == IF a < b THEN a ELSE b
Greatest(a, b) == IF a < b THEN b ELSE a

mulDivFloorUint64(value, multiplier, divisor) ==
    Least(MaxWord, (value * multiplier) \div divisor)

\* Rounded up.
CeilDiv(a, b) == IF a % b = 0 THEN a \div b ELSE (a \div b) + 1

mulDivCeilUint64(value, multiplier, divisor) ==
    Least(MaxWord, CeilDiv(value * multiplier, divisor))

ceilCPUMilliseconds(ns) == CeilDiv(ns, NsPerMs)

-----------------------------------------------------------------------------
(* Conversions of a normalizer.  Its zero value is the identity. *)

Enabled(ref, obs) == ref > 0 /\ obs > 0

NormalizeNanoseconds(ref, obs, raw) ==
    IF Enabled(ref, obs) THEN mulDivCeilUint64(raw, ref, obs) ELSE raw

Scaled(limit, ref, obs) ==
    LET wholeMs   == (limit * obs) \div ref
        remainder == (limit * obs) % ref
    IN  Least(MaxWord, wholeMs * NsPerMs + (remainder * NsPerMs) \div ref)

\* Mutant: whole milliseconds are converted and the remainder is lost.
RawLimitNanoseconds_Whole(ref, obs, limit) ==
    IF Enabled(ref, obs) THEN Least(MaxWord, ((limit * obs) \div ref) * NsPerMs)
                         ELSE Scaled(limit, 1, 1)

\* The whole milliseconds first, then the nanoseconds of the remainder.
RawLimitNanoseconds(ref, obs, limit) ==
    IF Enabled(ref, obs) THEN Scaled(limit, ref, obs) ELSE Scaled(limit, 1, 1)

\* A limit that rounds down to nothing is raised to one.
RawLimitMillis(ref, obs, limit) ==
    LET raw == mulDivFloorUint64(limit, obs, ref)
    IN  IF ~Enabled(ref, obs) THEN limit ELSE IF raw = 0 THEN 1 ELSE Least(MaxInt, raw)

\* Mutant: the slack is that of the limit before it was converted.
WallLimitMillis_Unscaled(ref, obs, limit) ==
    IF ~Enabled(ref, obs) THEN limit
    ELSE Least(MaxInt, limit + Greatest(MinSlack, mulDivCeilUint64(limit, SlackPct, 100)))

\* Never less than the limit, and slack on top of it.
WallLimitMillis(ref, obs, limit) ==
    LET base  == Greatest(limit, RawLimitMillis(ref, obs, limit))
        slack == Greatest(MinSlack, mulDivCeilUint64(base, SlackPct, 100))
    IN  IF Enabled(ref, obs) THEN Least(MaxInt, base + slack) ELSE limit

MaximumCPUWallLimitMillis(limit) == WallLimitMillis(1, MaxRatio, limit)

-----------------------------------------------------------------------------
(* Wall limits of a request that names no wall time of its own. *)

wallTimeLimitMs(limit) == Least(Greatest(1, limit), MaxTimeMs)

interactiveWallTimeMs(limit) ==
    Least(MaxTimeMs, Greatest(wallTimeLimitMs(limit) * MultiplierOfWall,
                              wallTimeLimitMs(limit) + WallSlack))

\* The wall limit of a run, given what the CPU may need of it.
executionWallTimeMs(limit, interactive, cpuWall) ==
    Greatest(cpuWall, IF interactive THEN interactiveWallTimeMs(limit) ELSE wallTimeLimitMs(limit))

\* Mutant: the download is not waited for.
stage_Once(wallMs) == 2 * wallMs

\* What the caller of a remote server allows for one run: addStage.
stage(wallMs) == LET execution == Greatest(wallMs, 1)
                 IN  Greatest(Download, execution) + execution

\* What the server takes at most: its startup timer and then its wall timer.
startupLimit(wallLimit) == Greatest(Download, wallLimit)

-----------------------------------------------------------------------------
(* Wall limits of a communication on Cloud Run, the only place where times   *)
(* are converted: its targets may have to take turns on the CPUs, of which   *)
(* one is left to the server.  Elsewhere the limit itself is the wall limit. *)

communicationManagerLimits(limit) ==
    Least(MaxTimeMs, Greatest(ManagerLeast, limit + ManagerExtra))

waves(participants, cpus) == CeilDiv(participants + 1, Greatest(1, cpus - 1))

communicationWallAllowanceMs(participants, cpus, timeLimitMs) ==
    LET base == timeLimitMs * waves(participants, cpus)
    IN  base + Greatest(MatchMinSlack, CeilDiv(base * MatchSlackPct, 100))

\* Mutant: the converted limit is not considered.
communicationWall_Public(ref, obs, participants, cpus, limit) ==
    communicationWallAllowanceMs(participants, cpus, limit)

communicationWall(ref, obs, participants, cpus, limit) ==
    communicationWallAllowanceMs(participants, cpus,
                                 Greatest(limit, RawLimitMillis(ref, obs, limit)))

\* What the caller of a remote server allows: the slowest host, one CPU, the manager.
maximumCommunicationWall(participants, limit) ==
    communicationWallAllowanceMs(participants, 1,
        RawLimitMillis(1, MaxRatio, communicationManagerLimits(limit)))

-----------------------------------------------------------------------------
(* Calibration *)

Ordered(samples) == SortSeq(samples, LAMBDA a, b : a < b)
Middle == (SampleCount + 1) \div 2

calibrationMedian(samples) == Ordered(samples)[Middle]

\* The neighbours of the median are close to it.
validateCalibrationStability(samples) ==
    mulDivCeilUint64(Ordered(samples)[Middle + 1] - Ordered(samples)[Middle - 1],
                     100, calibrationMedian(samples)) <= MaxSpread

\* Mutant: only a host that is too fast is refused.
Supported_OneSided(ref, obs) ==
    obs \in MinTime .. MaxTime /\ ref <= obs * MaxRatio

Supported(ref, obs) ==
    /\ obs \in MinTime .. MaxTime
    /\ ref <= obs * MaxRatio /\ obs <= ref * MaxRatio

\* Normalization is configured, or the normalizer is the identity.
Init ==
    \/ /\ reference \in MinTime .. MaxTime /\ observed = 0
       /\ attempt = 1 /\ pc = "calibrating"
    \/ reference = 0 /\ observed = 0 /\ attempt = 0 /\ pc = "serving"

\* The clock cannot be read or does not advance.
ClockFails ==
    /\ pc = "calibrating"
    /\ pc' = "refused"
    /\ UNCHANGED <<reference, observed, attempt>>

\* Unstable samples are taken again, a few times.
Unstable(samples) ==
    /\ pc = "calibrating" /\ ~validateCalibrationStability(samples)
    /\ IF attempt < MaxAttempts THEN attempt' = attempt + 1 /\ UNCHANGED pc
                                ELSE pc' = "refused" /\ UNCHANGED attempt
    /\ UNCHANGED <<reference, observed>>

\* The server starts only if this host is within the supported range.
Stable(samples) ==
    /\ pc = "calibrating" /\ validateCalibrationStability(samples)
    /\ IF Supported(reference, calibrationMedian(samples))
       THEN pc' = "serving" /\ observed' = calibrationMedian(samples)
       ELSE pc' = "refused" /\ UNCHANGED observed
    /\ UNCHANGED <<reference, attempt>>

Samples == [1 .. SampleCount -> 1 .. MaxTime + 1]

Next == ClockFails \/ \E samples \in Samples : Unstable(samples) \/ Stable(samples)

Spec == Init /\ [][Next]_vars

-----------------------------------------------------------------------------
(* Properties *)

TypeOK ==
    /\ reference \in 0 .. MaxTime /\ observed \in 0 .. MaxTime
    /\ attempt \in 0 .. MaxAttempts
    /\ pc \in {"calibrating", "serving", "refused"}

\* A server that normalizes runs on a host in the supported range.
HostIsSupported ==
    pc = "serving" => \/ reference = 0 /\ observed = 0
                      \/ /\ reference > 0 /\ observed > 0
                         /\ reference <= observed * MaxRatio /\ observed <= reference * MaxRatio

\* The sandbox compares raw nanoseconds with the converted limit; the judge compares
\* the converted time, in milliseconds, with the limit.  Two ways of rounding, one
\* verdict.
VerdictsAgree(raw, limit) ==
    raw > RawLimitNanoseconds(reference, observed, limit)
        <=> ceilCPUMilliseconds(NormalizeNanoseconds(reference, observed, raw)) > limit

HostWall(limit, interactive) ==
    executionWallTimeMs(limit, interactive, WallLimitMillis(reference, observed, limit))

\* A target that never waits may use up its CPU limit before its wall limit.
WallCoversCPU(limit, interactive) ==
    RawLimitNanoseconds(reference, observed, limit) <= HostWall(limit, interactive) * NsPerMs

\* A caller that does not know the host waits as long as any host may take.
CallerCoversHost(limit, interactive) ==
    LET wall == HostWall(limit, interactive)
    IN  startupLimit(wall) + wall
            <= stage(executionWallTimeMs(limit, interactive, MaximumCPUWallLimitMillis(limit)))

\* The same for a communication; its targets, too, may each use up their CPU limit.
CommunicationIsCovered(limit, participants, cpus) ==
    LET wall(t) == communicationWall(reference, observed, participants, cpus, t)
    IN  /\ RawLimitNanoseconds(reference, observed, limit) * waves(participants, cpus)
              <= wall(limit) * NsPerMs
        /\ \A t \in {limit, communicationManagerLimits(limit)} :
              wall(t) <= maximumCommunicationWall(participants, limit)

\* Whatever host serves, its two verdicts on the CPU time agree, neither its wall
\* limit nor the caller's patience ends a run that is within its CPU limit.
LimitsAgree ==
    pc = "serving" =>
        \A limit \in 1 .. MaxTimeMs :
            /\ \A raw \in 0 .. MaxWord : VerdictsAgree(raw, limit)
            /\ \A interactive \in BOOLEAN :
                  WallCoversCPU(limit, interactive) /\ CallerCoversHost(limit, interactive)
            /\ \A participants \in 1 .. MaxParticipants, cpus \in 1 .. MaxCPUs :
                  CommunicationIsCovered(limit, participants, cpus)
=============================================================================
