-------------------------- MODULE ServiceRunProofs --------------------------
(***************************************************************************)
(* Machine-checked proofs about ServiceRun, for all limits, all lengths    *)
(* and all requests the validation lets through.                           *)
(*                                                                         *)
(* What is in a run's result (RunOK) becomes a handoff or an artifact      *)
(* (PathsOK), and that what a later step reads (InputOK); the order of     *)
(* steps, outputs and results is FlowOK.  The books of the artifact store  *)
(* are BooksOK, those of the downloads UrlOK, the directories DirsOK, the  *)
(* samples of a short case SamplesOK, and what was answered AnswerOK.      *)
(***************************************************************************)
EXTENDS ServiceRun, FiniteSetTheorems, SequenceTheorems, WellFoundedInduction, TLAPS

Kinds == {"none", "text", "url", "resource",
          "participant_stdout", "participant_file", "interactor_output"}
DatumType == [step : Nat, kind : Kinds, len : Nat, whole : BOOLEAN]

Statuses == {"none", "OK", "Accepted", "WA", "TLE", "RE", "InitFail"}
Sources == {"none", "stdin", "run", "stdout_limit", "spj", "judge"}

Result ==
    [status : Statuses, source : Sources, judgeOut : DatumType, stdout : DatumType,
     over : BOOLEAN, file : DatumType, emitted : DatumType, artifactErr : BOOLEAN,
     right : BOOLEAN, score : Int, cpu : Nat]

Good == {"OK", "Accepted"}

\* No contestant is interrupted while it is printing more than it may.
NoChatter ==
    Chatty /\ req.mode = "pipeline" => \A i \in DOMAIN req.steps : req.steps[i].kind = "batch"

TypeOK ==
    /\ req \in Request /\ Validate(req)
    /\ pc \in {"start", "freeze", "open", "input", "running", "after", "store", "final", "done"}
    /\ step \in 1..Steps /\ out \in Nat \ {0}
    /\ run \in Result /\ samples \in Seq(Result) /\ stdout \in Seq(DatumType)
    /\ results \in Seq(Statuses)
    /\ image \in BOOLEAN /\ ctxDone \in BOOLEAN

\* The order of things.
FlowOK ==
    /\ req.mode = "single" => pc \notin {"input", "store", "final"} /\ results = <<>>
    /\ req.mode = "steps" => pc \notin {"freeze", "store", "final"}
    /\ req.mode = "pipeline" => pc # "freeze"
    /\ pc = "start" => step = 1
    /\ pc = "final" => step = Steps
    /\ pc \notin {"store", "done"} => out = 1
    /\ pc = "store" => out <= Len(Outputs) + 1
    /\ req.mode # "single" =>
          /\ pc \in {"start", "input", "open", "running", "after"} => Len(results) = step - 1
          /\ pc \in {"store", "final"} => Len(results) = step
          /\ pc # "done" => \A i \in DOMAIN results : results[i] \in Good
    /\ req.mode = "pipeline" =>
          /\ pc \in {"start", "input", "open", "running", "after", "store"} =>
                Len(stdout) = step - 1
          /\ pc = "final" => Len(stdout) = step

\* What a run returned is judged right only if it is right and whole, and what a
\* later step may read of it is whole.
Returned(r) ==
    /\ evaluateOutput /\ (r.status = "Accepted" \/ r.score = 1) =>
          r.right /\ r.judgeOut.whole /\ r.judgeOut.step = step
    /\ req.mode = "steps" /\ ~Final =>
          /\ r.status # "Accepted" /\ r.score # 1
          /\ r.status = "OK" => r.judgeOut.whole /\ r.judgeOut.step = step
    /\ req.mode = "pipeline" /\ r.status \in Good =>
          /\ NoChatter => r.stdout.whole
          /\ r.stdout.step = step /\ r.stdout.kind = "participant_stdout"
          /\ ~r.artifactErr /\ WantsFile =>
                r.file.whole /\ r.file.step = step /\ r.file.kind = "participant_file"
          /\ ~r.artifactErr /\ Interactive =>
                r.emitted.whole /\ r.emitted.step = step /\ r.emitted.kind = "interactor_output"

RunOK ==
    /\ pc \in {"after", "store"} => Returned(run)
    /\ pc = "store" => run.status \in Good /\ ~run.artifactErr
    /\ pc # "done" =>
          \A i \in DOMAIN stdout : stdout[i].step = i /\ (NoChatter => stdout[i].whole)

\* The outputs that are stored.
Past(id) == id[1] < step \/ (id[1] = step /\ id[2] < out)

PathsOK ==
    /\ paths \in [DOMAIN paths -> [dir : {"store"}, name : Nat \X Int, data : DatumType]]
    /\ DOMAIN paths \subseteq Nat \X Nat
    /\ req.mode = "single" => paths = <<>>
    /\ req.mode = "steps" /\ pc # "done" /\ step = 1 => paths = <<>>
    /\ req.mode = "steps" /\ pc # "done" /\ step = 2 =>
          /\ Handoff \in DOMAIN paths /\ paths[Handoff].data.whole
          /\ paths[Handoff].data.step = 1
    /\ req.mode = "pipeline" =>
          /\ \A id \in DOMAIN paths :
                /\ id[1] \in DOMAIN req.steps /\ id[2] \in DOMAIN req.steps[id[1]].outputs
                /\ pc \notin {"final", "done"} => Past(id)
                /\ NoChatter => paths[id].data.whole
                /\ paths[id].data.step = id[1]
                /\ paths[id].data.kind = req.steps[id[1]].outputs[id[2]].kind
                /\ paths[id].name[2] # 0
          /\ pc \notin {"final", "done"} =>
                \A i \in DOMAIN req.steps : \A j \in DOMAIN req.steps[i].outputs :
                    Past(<<i, j>>) => <<i, j>> \in DOMAIN paths

\* What the program of this step reads.
InputGood ==
    NoChatter =>
    \A k \in DOMAIN input :
          /\ input[k].whole /\ input[k].step \in Nat
          /\ input[k].step > 0 => input[k].step < step
          /\ req.mode = "single" => input[k].step = 0
          /\ req.mode = "pipeline" =>
                LET ref == req.steps[step].stdin[k]
                IN  ref # <<0, 0>> => input[k].kind = req.steps[ref[1]].outputs[ref[2]].kind

InputOK ==
    /\ pc = "running" => InputGood
    /\ pc = "open" /\ req.mode # "single" => InputGood
    /\ req.mode = "single" => \A f \in files : f.data.whole /\ f.data.step = 0

BooksOK ==
    /\ pc # "done" => Range(paths) \subseteq files
    /\ req.mode = "pipeline" =>
          /\ counted = Range(paths) /\ IsFiniteSet(Bytes(counted))
          /\ stored = Cardinality(Bytes(counted)) /\ stored <= TotalBytes
    /\ pc = "store" /\ InteractorOutputMax # 0 =>
          File("store", <<step, None>>, run.emitted) \in files

UrlOK == urlLeft \in Nat /\ urlSpent \in Nat /\ urlLeft + urlSpent = UrlTime

DirsOK ==
    /\ dirs \subseteq {"store", "fixture"} \cup (IF pc = "running" THEN {"work"} ELSE {})
    /\ \A f \in files : f.dir \in {"store", "fixture"}
    /\ pc = "done" => dirs = {} /\ files = {}

SamplesOK ==
    pc # "done" /\ Sampled(req) =>
       /\ Len(samples) <= 2
       /\ \A k \in DOMAIN samples : samples[k].status = "Accepted"
       /\ samples # <<>> => ~image /\ samples[1].cpu <= Threshold

AnswerOK ==
    /\ pc # "done" => response = Answer("none", "none")
    /\ NoChatter => AcceptedIsEarned
    /\ SampledMedian

IInv == /\ TypeOK /\ FlowOK /\ RunOK /\ PathsOK /\ InputOK /\ BooksOK
        /\ UrlOK /\ DirsOK /\ SamplesOK /\ AnswerOK

-----------------------------------------------------------------------------
(* Requests and limits. *)

LEMMA Modes ==
    ASSUME req \in Request
    PROVE  \/ req.mode = "single" /\ req \in Single
           \/ req.mode = "steps" /\ req \in StepsRequest
           \/ req.mode = "pipeline" /\ req \in PipelineRequest
  BY RequestAssumption DEF Single, StepsRequest, PipelineRequest

\* A set of natural numbers with a bound has a maximum.
LEMMA MaxIsThere ==
    ASSUME NEW b \in Nat, NEW S \in SUBSET (0..b), S # {}
    PROVE  Max(S) \in S /\ \A x \in S : x <= Max(S)
  <1> DEFINE R == OpToRel(<, Nat)
             T == {y \in 0..b : b - y \in S}
  <1>1. T \subseteq Nat /\ T # {}
    <2>1. PICK x \in S : TRUE
      OBVIOUS
    <2>2. b - x \in T
      OBVIOUS
    <2> QED
      BY <2>2
  <1>2. PICK t \in T : \A u \in T : t <= u
    <2>1. PICK t \in T : \A u \in T : ~(<<u, t>> \in R)
      <3> HIDE DEF T, R
      <3> QED
        BY <1>1, WFMin, NatLessThanWellFounded DEF R
    <2>2. \A u \in T : u < t => <<u, t>> \in R
      BY <1>1 DEF OpToRel
    <2> HIDE DEF T, R
    <2>3. \A u \in T : ~(u < t)
      BY <2>1, <2>2, Zenon
    <2>4. \A u \in T : u \in Nat /\ t \in Nat
      BY <1>1
    <2> QED
      BY <2>3, <2>4
  <1>3. PICK m \in S : t = b - m
    <2>1. t \in 0..b /\ b - t \in S /\ t = b - (b - t)
      BY <1>2
    <2> QED
      BY <2>1
  <1>4. \A x \in S : x <= m
    <2> TAKE x \in S
    <2>1. b - x \in T
      OBVIOUS
    <2> QED
      BY <1>2, <1>3, <2>1
  <1> QED
    BY <1>3, <1>4 DEF Max

\* What the validation of a pipeline means for each of its outputs and references.
LEMMA PipelineRules ==
    ASSUME req \in Request, Validate(req), req.mode = "pipeline"
    PROVE  /\ Len(req.steps) \in Nat \ {0} /\ DOMAIN req.steps = 1..Len(req.steps)
           /\ \A i \in DOMAIN req.steps :
                 /\ req.steps[i].kind \in {"batch", "interactive"}
                 /\ req.steps[i].outputs \in Seq([kind : {"participant_stdout",
                        "participant_file", "interactor_output"}, max : Nat])
                 /\ req.steps[i].stdin \in Seq(Nat \X Nat)
           /\ \A i \in DOMAIN req.steps : \A j \in DOMAIN req.steps[i].outputs :
                 /\ req.steps[i].outputs[j].max \in 1..TextBytes
                 /\ req.steps[i].outputs[j].kind = "interactor_output"
                       => req.steps[i].kind = "interactive"
           /\ \A i \in DOMAIN req.steps : \A k \in DOMAIN req.steps[i].stdin :
                 LET ref == req.steps[i].stdin[k]
                 IN  \/ ref = <<0, 0>>
                     \/ /\ ref[1] \in DOMAIN req.steps /\ ref[1] < i
                        /\ ref[2] \in DOMAIN req.steps[ref[1]].outputs
                        /\ ref = <<ref[1], ref[2]>>
  <1> DEFINE outputs == UNION {{<<i, j>> : j \in DOMAIN req.steps[i].outputs} :
                                i \in DOMAIN req.steps}
             Of(o)   == req.steps[o[1]].outputs[o[2]]
  <1>1. req \in PipelineRequest
    BY Modes
  <1>2. /\ Len(req.steps) \in 1..MaxPipelineSteps
        /\ \A i \in DOMAIN req.steps : \A ref \in Range(req.steps[i].stdin) :
              ref = <<0, 0>> \/ (ref \in outputs /\ ref[1] < i)
        /\ \A o \in outputs :
              /\ Of(o).max \in 1..TextBytes
              /\ Of(o).kind = "interactor_output" => req.steps[o[1]].kind = "interactive"
    BY DEF Validate, ValidatePipelineV1
  <1>3. /\ req.steps \in Seq([kind : {"batch", "interactive"}, stdin : Seq(Nat \X Nat),
                  outputs : Seq([kind : {"participant_stdout", "participant_file",
                                         "interactor_output"}, max : Nat])])
        /\ DOMAIN req.steps = 1..Len(req.steps)
    BY <1>1 DEF PipelineRequest
  <1>4. \A i \in DOMAIN req.steps : \A j \in DOMAIN req.steps[i].outputs : <<i, j>> \in outputs
    OBVIOUS
  <1>5. \A o \in outputs : /\ o[1] \in DOMAIN req.steps /\ o = <<o[1], o[2]>>
                           /\ o[2] \in DOMAIN req.steps[o[1]].outputs
    OBVIOUS
  <1> HIDE DEF outputs
  <1>6. Len(req.steps) \in Nat \ {0}
    BY <1>2, BoundsAssumption
  <1>7. ASSUME NEW i \in DOMAIN req.steps
        PROVE  /\ req.steps[i].kind \in {"batch", "interactive"}
               /\ req.steps[i].outputs \in Seq([kind : {"participant_stdout",
                        "participant_file", "interactor_output"}, max : Nat])
               /\ req.steps[i].stdin \in Seq(Nat \X Nat)
    <2> DEFINE Shape == [kind : {"batch", "interactive"}, stdin : Seq(Nat \X Nat),
                  outputs : Seq([kind : {"participant_stdout", "participant_file",
                                         "interactor_output"}, max : Nat])]
    <2>1. req.steps[i] \in Shape
      <3> HIDE DEF Shape
      <3>1. req.steps \in Seq(Shape)
        BY <1>3 DEF Shape
      <3> QED
        BY <3>1
    <2> QED
      BY <2>1
  <1>8. ASSUME NEW i \in DOMAIN req.steps, NEW j \in DOMAIN req.steps[i].outputs
        PROVE  /\ req.steps[i].outputs[j].max \in 1..TextBytes
               /\ req.steps[i].outputs[j].kind = "interactor_output"
                       => req.steps[i].kind = "interactive"
    BY <1>2, <1>4
  <1>9. ASSUME NEW i \in DOMAIN req.steps, NEW k \in DOMAIN req.steps[i].stdin
        PROVE  LET ref == req.steps[i].stdin[k]
               IN  \/ ref = <<0, 0>>
                   \/ /\ ref[1] \in DOMAIN req.steps /\ ref[1] < i
                      /\ ref[2] \in DOMAIN req.steps[ref[1]].outputs
                      /\ ref = <<ref[1], ref[2]>>
    <2>1. req.steps[i].stdin[k] \in Range(req.steps[i].stdin)
      BY DEF Range
    <2> QED
      BY <1>2, <1>5, <2>1
  <1> QED
    BY <1>3, <1>6, <1>7, <1>8, <1>9

\* The limits on what a step may print.
LEMMA Limits ==
    ASSUME TypeOK
    PROVE  /\ OutputLimit \in Nat /\ InteractorOutputMax \in Nat
           /\ OutputsOf("interactor_output") # {} => InteractorOutputMax # 0 /\ Interactive
  <1>1. \A o \in Range(Outputs) :
           o.max \in 1..TextBytes /\ (o.kind = "interactor_output" => Interactive)
    <2>1. CASE req.mode = "pipeline"
      <3>1. step \in DOMAIN req.steps
        BY <2>1, PipelineRules DEF TypeOK, Steps
      <3> QED
        BY <2>1, <3>1, PipelineRules DEF TypeOK, Outputs, Interactive, Range
    <2>2. CASE req.mode # "pipeline"
      BY <2>2 DEF Outputs, Range
    <2> QED
      BY <2>1, <2>2
  <1>2. OutputBytes \in 0..TextBytes /\ TextBytes \in Nat
    BY BoundsAssumption
  <1> DEFINE A == {o.max : o \in OutputsOf("participant_stdout")}
             B == {o.max : o \in IF Interactive THEN OutputsOf("participant_file") ELSE {}}
             C == {o.max : o \in OutputsOf("interactor_output")}
  <1>3. /\ A \in SUBSET (0..TextBytes) /\ B \in SUBSET (0..TextBytes)
        /\ C \in SUBSET (1..TextBytes)
    BY <1>1 DEF OutputsOf
  <1>4. OutputLimit \in Nat
    <2> DEFINE S == {OutputBytes} \cup A \cup B
    <2>1. S \in SUBSET (0..TextBytes) /\ S # {}
      BY <1>2, <1>3
    <2> HIDE DEF S
    <2>2. Max(S) \in 0..TextBytes
      BY <1>2, <2>1, MaxIsThere
    <2> QED
      BY <1>2, <2>2 DEF OutputLimit, S
  <1>5. InteractorOutputMax \in Nat /\ (C # {} => InteractorOutputMax # 0)
    <2> DEFINE S == {0} \cup C
    <2> HIDE DEF C
    <2>1. S \in SUBSET (0..TextBytes) /\ S # {}
      BY <1>2, <1>3
    <2> HIDE DEF S
    <2>2. Max(S) \in 0..TextBytes /\ \A x \in S : x <= Max(S)
      BY <1>2, <2>1, MaxIsThere
    <2>3. C # {} => \E x \in S : x \in 1..TextBytes
      BY <1>3 DEF S
    <2> QED
      BY <1>2, <2>2, <2>3 DEF InteractorOutputMax, S, C
  <1>6. OutputsOf("interactor_output") # {} => C # {} /\ Interactive
    BY <1>1 DEF OutputsOf
  <1> QED
    BY <1>4, <1>5, <1>6

-----------------------------------------------------------------------------
(* The plan of a request does not change, and is the same for the same step. *)

LEMMA PlanStays ==
    ASSUME UNCHANGED <<req, step>>
    PROVE  /\ Steps' = Steps /\ Outputs' = Outputs /\ InteractorOutputMax' = InteractorOutputMax
           /\ (Interactive' <=> Interactive) /\ (Final' <=> Final)
           /\ (WantsFile' <=> WantsFile) /\ (evaluateOutput' <=> evaluateOutput)
  <1>1. Steps' = Steps /\ Outputs' = Outputs
    BY DEF Steps, Outputs
  <1>2. (Interactive' <=> Interactive) /\ (Final' <=> Final)
    BY <1>1 DEF Interactive, Final
  <1>3. (OutputsOf("participant_file")' = OutputsOf("participant_file"))
        /\ (OutputsOf("interactor_output")' = OutputsOf("interactor_output"))
    BY <1>1 DEF OutputsOf
  <1>4. InteractorOutputMax' = InteractorOutputMax
    BY <1>3 DEF InteractorOutputMax
  <1> QED
    BY <1>1, <1>2, <1>3, <1>4 DEF WantsFile, evaluateOutput

LEMMA RequestStays ==
    ASSUME UNCHANGED req
    PROVE  /\ (NoChatter' <=> NoChatter) /\ (Validate(req)' <=> Validate(req))
           /\ (Sampled(req)' <=> Sampled(req)) /\ Steps' = Steps
  BY DEF NoChatter, Steps

LEMMA ReturnedStays ==
    ASSUME UNCHANGED <<req, step, run>>
    PROVE  Returned(run)' <=> Returned(run)
  <1>1. NoChatter' <=> NoChatter
    BY RequestStays
  <1> QED
    BY <1>1, PlanStays DEF Returned

-----------------------------------------------------------------------------
(* What a run returns *)

LEMMA ResIsResult ==
    ASSUME NEW st \in Statuses, NEW src \in Sources
    PROVE  Res(st, src) \in Result /\ Res(st, src).status = st /\ Res(st, src).score = None
  BY DEF Res, Result, Empty, Data, DatumType, Kinds, None

LEMMA CappedFacts ==
    \A i \in Nat, kind \in Kinds, n \in Nat, limit \in Nat :
        LET d == Capped(i, kind, n, limit)
        IN  /\ d \in DatumType /\ d.step = i /\ d.kind = kind
            /\ d.whole <=> n <= limit
  <1> TAKE i \in Nat, kind \in Kinds, n \in Nat, limit \in Nat
  <1>1. Capped(i, kind, n, limit) \in DatumType
    BY DEF Capped, Data, DatumType
  <1>2. Capped(i, kind, n, limit).step = i /\ Capped(i, kind, n, limit).kind = kind
    BY DEF Capped, Data
  <1>3. Capped(i, kind, n, limit).whole <=> n <= limit
    BY DEF Capped, Data
  <1> QED
    BY <1>1, <1>2, <1>3

LEMMA CapturedFacts ==
    ASSUME TypeOK, NEW st \in Statuses, NEW n \in Nat, NEW f \in Nat \cup {None},
           NEW right \in BOOLEAN, NEW cpu \in Nat
    PROVE  LET r == Captured(st, n, f, right, cpu)
           IN  /\ r \in Result
               /\ r.status \in {st, "RE"} /\ r.score = None /\ ~r.artifactErr
               /\ r.right = right /\ r.cpu = cpu
               /\ r.judgeOut = IF WantsFile THEN r.file ELSE r.stdout
               /\ r.over <=> ~r.stdout.whole
               /\ r.stdout.step = step /\ r.stdout.kind = "participant_stdout"
               /\ r.file.whole
               /\ r.file = Empty \/ (f # None /\ r.file.step = step
                                             /\ r.file.kind = "participant_file")
               /\ r.status \in {"OK"} /\ WantsFile => r.file # Empty
  <1> DEFINE kept == Capped(step, "participant_stdout", n, OutputLimit)
             got  == f # None /\ f <= FileBytes
             file == IF got THEN Data(step, "participant_file", f, TRUE) ELSE Empty
             r0   == Res(IF st = "OK" /\ WantsFile /\ ~got THEN "RE" ELSE st, "run")
  <1>1. step \in Nat /\ OutputLimit \in Nat
    <2>1. step \in 1..Steps
      BY DEF TypeOK
    <2> QED
      BY <2>1, Limits
  <1>2. /\ kept \in DatumType /\ kept.step = step /\ kept.kind = "participant_stdout"
    <2>1. "participant_stdout" \in Kinds
      BY DEF Kinds
    <2> QED
      BY <1>1, <2>1, CappedFacts
  <1>3. /\ file \in DatumType /\ file.whole
        /\ got => file.step = step /\ file.kind = "participant_file" /\ file # Empty
        /\ ~got => file = Empty
    BY <1>1 DEF Data, DatumType, Empty, Kinds
  <1> HIDE DEF kept, file
  <1>4. Captured(st, n, f, right, cpu) =
          [[r0 EXCEPT !.stdout = kept, !.over = ~kept.whole, !.right = right, !.cpu = cpu,
                      !.file = file]
           EXCEPT !.judgeOut = IF WantsFile THEN file ELSE kept]
    <2>1. Captured(st, n, f, right, cpu) =
          LET r == [r0 EXCEPT !.stdout = kept, !.over = ~kept.whole, !.right = right,
                              !.cpu = cpu, !.file = file]
          IN  [r EXCEPT !.judgeOut = IF WantsFile THEN r.file ELSE kept]
      BY DEF Captured, kept, file
    <2> QED
      BY <2>1 DEF Res
  <1>5. kept.whole \in BOOLEAN
    BY <1>2 DEF DatumType
  <1>6. r0 \in Result /\ r0.score = None /\ ~r0.artifactErr
        /\ r0.status \in {st, "RE"} /\ (r0.status = "OK" /\ WantsFile => got)
    BY DEF Res, Result, Empty, Data, DatumType, Kinds, Statuses, Sources, None
  <1> HIDE DEF r0
  <1> PICK r : r = Captured(st, n, f, right, cpu)
    OBVIOUS
  <1>7. r \in Result
    BY <1>2, <1>3, <1>4, <1>5, <1>6 DEF Result
  <1>8. /\ r.status = r0.status /\ r.score = r0.score /\ r.artifactErr = r0.artifactErr
        /\ r.right = right /\ r.cpu = cpu /\ r.stdout = kept /\ r.file = file
        /\ r.over = ~kept.whole /\ r.judgeOut = IF WantsFile THEN file ELSE kept
    BY <1>4, <1>6 DEF Result
  <1> QED
    BY <1>2, <1>3, <1>5, <1>6, <1>7, <1>8

\* The output limit only ever turns a success into a failure.
LEMMA LimitVerdict ==
    ASSUME NEW r \in Result, NEW exceeded \in BOOLEAN
    PROVE  LET v == applyStdoutLimitVerdict(r, exceeded)
           IN  /\ v \in Result
               /\ v.score = r.score /\ v.artifactErr = r.artifactErr /\ v.right = r.right
               /\ v.cpu = r.cpu /\ v.judgeOut = r.judgeOut /\ v.stdout = r.stdout
               /\ v.file = r.file /\ v.emitted = r.emitted /\ v.over = r.over
               /\ v.status = r.status \/ v.status = "RE"
               /\ exceeded => v.status \notin Good
  BY DEF applyStdoutLimitVerdict, Result, Statuses, Sources, Good

\* A run is judged right only on a whole and right output, the one that was asked for.
LEMMA JudgedFacts ==
    ASSUME NEW r \in Result, NEW fromFile \in BOOLEAN, r.status # "Accepted", r.score = None
    PROVE  \A x \in evaluateRunStatus(r, fromFile) :
              /\ x \in Result
              /\ x.cpu = r.cpu /\ x.judgeOut = r.judgeOut /\ x.right = r.right
              /\ x.status = "Accepted" \/ x.score = 1 =>
                    r.right /\ (fromFile \/ ~r.over) /\ judgeOutputAvailable(fromFile)
  <1> DEFINE cut == ~fromFile /\ r.over
             v   == applyStdoutLimitVerdict(r, cut)
             evaluated == /\ v.status = "OK" \/ (v.status = "TLE" /\ IgnoreTLE)
                          /\ judgeOutputAvailable(fromFile) /\ ~cut
             Judgements == IF ~evaluated THEN {"reject"}
                           ELSE IF HasSPJ THEN runSPJ(v) ELSE CompareState(v)
             Verdict(j) ==
                IF v.status = "TLE" /\ IgnoreTLE
                THEN [v EXCEPT !.score = IF j = "accept" THEN 1 ELSE 0]
                ELSE IF v.status # "OK" THEN v
                ELSE IF j = "fail" THEN [v EXCEPT !.status = "RE", !.source = "spj"]
                ELSE IF j = "invalid" THEN [v EXCEPT !.status = "InitFail", !.source = "judge"]
                ELSE [v EXCEPT !.status = IF j = "accept" THEN "Accepted" ELSE "WA",
                               !.source = "judge"]
  <1>1. /\ v \in Result /\ v.score = None /\ v.right = r.right
        /\ v.cpu = r.cpu /\ v.judgeOut = r.judgeOut /\ v.over = r.over
        /\ v.status # "Accepted"
    <2>1. cut \in BOOLEAN
      OBVIOUS
    <2> HIDE DEF cut, v
    <2> QED
      BY <2>1, LimitVerdict DEF v
  <1>2. evaluateRunStatus(r, fromFile) = {Verdict(j) : j \in Judgements}
    <2>1. v.right = r.right
      BY <1>1
    <2> QED
      BY <2>1 DEF evaluateRunStatus
  <1> HIDE DEF v
  <1>3. \A j \in Judgements : j = "accept" => r.right /\ evaluated
    BY <1>1 DEF runSPJ, CompareState
  <1> HIDE DEF cut, evaluated, Judgements
  <1> TAKE x \in evaluateRunStatus(r, fromFile)
  <1>4. PICK j \in Judgements : x = Verdict(j)
    BY <1>2
  <1>5. x \in Result /\ x.cpu = r.cpu /\ x.judgeOut = r.judgeOut /\ x.right = r.right
    <2>1. CASE v.status = "TLE" /\ IgnoreTLE
      <3>1. x = [v EXCEPT !.score = IF j = "accept" THEN 1 ELSE 0]
        BY <1>4, <2>1
      <3> QED
        BY <3>1, <1>1 DEF Result
    <2>2. CASE ~(v.status = "TLE" /\ IgnoreTLE) /\ v.status # "OK"
      BY <1>1, <1>4, <2>2
    <2>3. CASE v.status = "OK"
      <3>1. PICK st \in Statuses, src \in Sources : x = [v EXCEPT !.status = st, !.source = src]
        BY <1>4, <2>3 DEF Statuses, Sources
      <3> QED
        BY <3>1, <1>1 DEF Result
    <2> QED
      BY <2>1, <2>2, <2>3
  <1>6. x.status = "Accepted" \/ x.score = 1 => j = "accept"
    BY <1>1, <1>4 DEF Result, None
  <1> QED
    BY <1>3, <1>4, <1>5, <1>6 DEF evaluated, cut

\* A sandboxed run.
LEMMA BatchRuns ==
    ASSUME TypeOK, NEW st \in {"OK", "TLE", "RE", "InitFail"}, NEW n \in Nat,
           NEW f \in Nat \cup {None}, WantsFile \/ f = None,
           NEW right \in BOOLEAN, NEW cpu \in Nat, ~Interactive
    PROVE  \A x \in Batch(st, n, f, right, cpu) : x \in Result /\ Returned(x)
  <1>1. CASE st = "InitFail"
    <2>1. Batch(st, n, f, right, cpu) = {Res("InitFail", "run")}
      BY <1>1 DEF Batch
    <2>2. Res("InitFail", "run") \in Result /\ Res("InitFail", "run").status = "InitFail"
          /\ Res("InitFail", "run").score = None
      BY ResIsResult DEF Statuses, Sources
    <2> QED
      BY <2>1, <2>2 DEF Returned, Good, None
  <1>2. CASE st # "InitFail"
    <2> PICK r : r = Captured(st, n, f, right, cpu)
      OBVIOUS
    <2>0. st \in Statuses /\ st # "Accepted"
      BY DEF Statuses
    <2>1. /\ r \in Result
          /\ r.status \in {st, "RE"} /\ r.score = None /\ ~r.artifactErr
          /\ r.right = right /\ r.cpu = cpu
          /\ r.judgeOut = IF WantsFile THEN r.file ELSE r.stdout
          /\ r.over <=> ~r.stdout.whole
          /\ r.stdout.step = step /\ r.stdout.kind = "participant_stdout"
          /\ r.file.whole
          /\ r.file = Empty \/ (f # None /\ r.file.step = step
                                        /\ r.file.kind = "participant_file")
          /\ r.status \in {"OK"} /\ WantsFile => r.file # Empty
      BY <2>0, CapturedFacts
    <2>2. r.status # "Accepted" /\ (r.file # Empty) \in BOOLEAN
      BY <2>0, <2>1
    <2>3. CASE evaluateOutput
      <3> TAKE x \in Batch(st, n, f, right, cpu)
      <3> PICK there \in BOOLEAN : there = (r.file # Empty)
        OBVIOUS
      <3>1. x \in evaluateRunStatus(r, there)
        BY <1>2, <2>3 DEF Batch
      <3>2. /\ x \in Result
            /\ x.cpu = r.cpu /\ x.judgeOut = r.judgeOut /\ x.right = r.right
            /\ x.status = "Accepted" \/ x.score = 1 =>
                 r.right /\ (there \/ ~r.over) /\ judgeOutputAvailable(there)
        <4>1. r \in Result /\ there \in BOOLEAN /\ r.status # "Accepted" /\ r.score = None
          BY <2>1, <2>2
        <4> QED
          BY ONLY <4>1, <3>1, JudgedFacts
      <3>3. r.file # Empty => WantsFile
        BY <2>1
      <3>4. x.status = "Accepted" \/ x.score = 1 =>
               x.right /\ x.judgeOut.whole /\ x.judgeOut.step = step
        BY <2>1, <3>2, <3>3, ZenonT(30) DEF judgeOutputAvailable
      <3>5. req.mode # "pipeline" /\ ~(req.mode = "steps" /\ ~Final)
        BY <2>3 DEF evaluateOutput
      <3> QED
        BY <3>2, <3>4, <3>5 DEF Returned
    <2>4. CASE ~evaluateOutput
      <3> PICK x : x = applyStdoutLimitVerdict(r, r.over)
        OBVIOUS
      <3>1. Batch(st, n, f, right, cpu) = {x}
        BY <1>2, <2>4 DEF Batch
      <3>2. /\ x \in Result
            /\ x.score = r.score /\ x.artifactErr = r.artifactErr /\ x.right = r.right
            /\ x.judgeOut = r.judgeOut /\ x.stdout = r.stdout /\ x.file = r.file
            /\ x.status = r.status \/ x.status = "RE"
            /\ r.over => x.status \notin Good
        <4>1. r.over \in BOOLEAN
          BY <2>1 DEF Result
        <4> QED
          BY <4>1, <2>1, LimitVerdict
      <3>3. /\ x.status # "Accepted" /\ x.score # 1
            /\ x.status \in Good => x.status = "OK" /\ r.status = "OK" /\ x.stdout.whole
        BY <2>1, <2>2, <3>2 DEF Good, None
      <3>4. WantsFile /\ r.status = "OK" =>
               x.file.whole /\ x.file.step = step /\ x.file.kind = "participant_file"
        BY <2>1, <3>2
      <3>5. x.status = "OK" => x.judgeOut.whole /\ x.judgeOut.step = step
        BY <2>1, <3>2, <3>3, <3>4 DEF Good
      <3>6. Returned(x)
        BY <2>1, <2>4, <3>2, <3>3, <3>4, <3>5 DEF Returned, Good
      <3> QED
        BY <3>1, <3>2, <3>6
    <2> QED
      BY <2>3, <2>4
  <1> QED
    BY <1>1, <1>2

\* An interactive step: without chatter, a success means that the contestant's
\* stdout is whole.
LEMMA InteractiveRuns ==
    ASSUME TypeOK, NEW st \in {"OK", "TLE", "RE", "InitFail"}, NEW n \in Nat,
           NEW f \in Nat \cup {None}, NEW m \in Nat, Interactive
    PROVE  \A x \in Interacted(st, n, f, m) : x \in Result /\ Returned(x)
  <1> DEFINE s == IF st = "OK" THEN "Accepted" ELSE st
             emitted == Capped(step, "interactor_output", m, InteractorOutputMax)
             Made(y) == [y EXCEPT !.emitted = emitted,
                           !.artifactErr = (WantsFile /\ y.file = Empty)
                                           \/ m > InteractorOutputMax]
  <1> PICK yes \in BOOLEAN, none \in Nat : yes = TRUE /\ none = 0
    OBVIOUS
  <1>0. s \in Statuses
    BY DEF Statuses
  <1> PICK r : r = Captured(s, n, f, yes, none)
    OBVIOUS
  <1>1. /\ r \in Result
        /\ r.status \in {s, "RE"} /\ r.score = None
        /\ r.over <=> ~r.stdout.whole
        /\ r.stdout.step = step /\ r.stdout.kind = "participant_stdout"
        /\ r.file.whole
        /\ r.file = Empty \/ (f # None /\ r.file.step = step
                                      /\ r.file.kind = "participant_file")
    <2> HIDE DEF s
    <2> QED
      BY ONLY <1>0, TypeOK, yes \in BOOLEAN, none \in Nat, n \in Nat, f \in Nat \cup {None},
         r = Captured(s, n, f, yes, none), CapturedFacts
  <1>2. /\ emitted \in DatumType /\ emitted.step = step /\ emitted.kind = "interactor_output"
        /\ (emitted.whole <=> m <= InteractorOutputMax)
        /\ step \in Nat /\ InteractorOutputMax \in Nat
    <2>1. step \in 1..Steps /\ "interactor_output" \in Kinds
      BY DEF TypeOK, Kinds
    <2>2. step \in Nat /\ InteractorOutputMax \in Nat
      BY <2>1, Limits
    <2> QED
      BY <2>1, <2>2, CappedFacts
  <1> HIDE DEF emitted
  <1> PICK v : v = applyStdoutLimitVerdict(r, r.over)
    OBVIOUS
  <1>3. /\ v \in Result /\ v.stdout = r.stdout /\ v.file = r.file
        /\ r.over => v.status \notin Good
    <2>1. r.over \in BOOLEAN
      BY <1>1 DEF Result
    <2> QED
      BY ONLY <2>1, <1>1, LimitVerdict, v = applyStdoutLimitVerdict(r, r.over)
  <1>4. req.mode = "pipeline" /\ ~evaluateOutput
    BY DEF Interactive, evaluateOutput
  <1>5. Chatty => ~NoChatter
    <2>1. step \in DOMAIN req.steps
      BY <1>4, PipelineRules DEF TypeOK, Steps
    <2> QED
      BY <2>1, <1>4 DEF NoChatter, Interactive
  <1>6. ASSUME NEW y \in {v} \cup (IF Chatty THEN {r} ELSE {})
        PROVE  Made(y) \in Result /\ Returned(Made(y))
    <2>1. /\ y \in Result /\ y.stdout = r.stdout /\ y.file = r.file
          /\ NoChatter /\ y.status \in Good => r.stdout.whole
      BY <1>1, <1>3, <1>5
    <2> PICK x : x = Made(y)
      OBVIOUS
    <2>2. /\ x \in Result /\ x.status = y.status /\ x.stdout = r.stdout /\ x.file = r.file
          /\ x.emitted = emitted
          /\ ~x.artifactErr => (WantsFile => x.file # Empty) /\ ~(m > InteractorOutputMax)
      BY <1>2, <2>1 DEF Result
    <2>3. Returned(x)
      <3>1. NoChatter /\ x.status \in Good => x.stdout.whole
        BY <2>1, <2>2
      <3>2. x.stdout.step = step /\ x.stdout.kind = "participant_stdout"
        BY <1>1, <2>2
      <3>3. ~x.artifactErr /\ WantsFile =>
               x.file.whole /\ x.file.step = step /\ x.file.kind = "participant_file"
        BY <1>1, <2>2
      <3>4. ~x.artifactErr => x.emitted.whole
        BY <1>2, <2>2
      <3>5. x.emitted.step = step /\ x.emitted.kind = "interactor_output"
        BY <1>2, <2>2
      <3> QED
        BY ONLY <1>4, <3>1, <3>2, <3>3, <3>4, <3>5 DEF Returned
    <2> QED
      BY <2>2, <2>3
  <1>7. \A x \in Interacted(st, n, f, m) :
           \E y \in {v} \cup (IF Chatty THEN {r} ELSE {}) : x = Made(y)
    <2> TAKE x \in Interacted(st, n, f, m)
    <2>1. PICK y \in {v} \cup (IF Chatty THEN {r} ELSE {}) :
             x = [y EXCEPT !.emitted = emitted,
                    !.artifactErr = (WantsFile /\ r.file = Empty) \/ m > InteractorOutputMax]
      BY DEF Interacted, emitted
    <2>2. y.file = r.file
      BY <1>3
    <2> QED
      BY <2>1, <2>2
  <1> HIDE DEF Made
  <1> TAKE x \in Interacted(st, n, f, m)
  <1>8. PICK y \in {v} \cup (IF Chatty THEN {r} ELSE {}) : x = Made(y)
    BY <1>7
  <1>9. Made(y) \in Result /\ Returned(Made(y))
    BY <1>6
  <1> QED
    BY ONLY <1>8, <1>9, Zenon

-----------------------------------------------------------------------------
(* The median of three samples *)

\* The samples before i in the order of a stable sort.
Before(s, i) == {j \in 1..3 : s[j].cpu < s[i].cpu \/ (s[j].cpu = s[i].cpu /\ j < i)}

Middle(s) == CHOOSE i \in 1..3 : Cardinality(Before(s, i)) = 1

LEMMA OneOfThree ==
    ASSUME NEW s, \A i \in 1..3 : s[i].cpu \in Nat
    PROVE  \E i, j \in 1..3 : Before(s, i) = {j}
  <1> DEFINE a == s[1].cpu
             b == s[2].cpu
             c == s[3].cpu
             Less(i, j) == s[j].cpu < s[i].cpu \/ (s[j].cpu = s[i].cpu /\ j < i)
  <1>0. a \in Nat /\ b \in Nat /\ c \in Nat /\ 1..3 = {1, 2, 3}
    OBVIOUS
  <1>1. \A i \in 1..3, j \in 1..3 : j \in Before(s, i) <=> Less(i, j)
    BY DEF Before
  <1>2. /\ 1 \in Before(s, 2) <=> a <= b
        /\ 3 \in Before(s, 2) <=> c < b
        /\ 2 \notin Before(s, 2)
    BY <1>0, <1>1
  <1>3. /\ 2 \in Before(s, 1) <=> b < a
        /\ 3 \in Before(s, 1) <=> c < a
        /\ 1 \notin Before(s, 1)
    BY <1>0, <1>1
  <1>4. /\ 1 \in Before(s, 3) <=> a <= c
        /\ 2 \in Before(s, 3) <=> b <= c
        /\ 3 \notin Before(s, 3)
    BY <1>0, <1>1
  <1>5. \A i \in 1..3 : Before(s, i) \subseteq {1, 2, 3}
    BY <1>0 DEF Before
  <1> HIDE DEF a, b, c, Less
  <1>6. CASE a <= b /\ b <= c
    <2>1. Before(s, 2) = {1}
      BY <1>0, <1>2, <1>5, <1>6
    <2> QED
      BY <2>1
  <1>7. CASE c < b /\ b < a
    <2>1. Before(s, 2) = {3}
      BY <1>0, <1>2, <1>5, <1>7
    <2> QED
      BY <2>1
  <1>8. CASE b < a /\ a <= c
    <2>1. Before(s, 1) = {2}
      BY <1>0, <1>3, <1>5, <1>8
    <2> QED
      BY <2>1
  <1>9. CASE c < a /\ a <= b
    <2>1. Before(s, 1) = {3}
      BY <1>0, <1>3, <1>5, <1>9
    <2> QED
      BY <2>1
  <1>10. CASE a <= c /\ c < b
    <2>1. Before(s, 3) = {1}
      BY <1>0, <1>4, <1>5, <1>10
    <2> QED
      BY <2>1
  <1>11. CASE b <= c /\ c < a
    <2>1. Before(s, 3) = {2}
      BY <1>0, <1>4, <1>5, <1>11
    <2> QED
      BY <2>1
  <1> QED
    BY <1>0, <1>6, <1>7, <1>8, <1>9, <1>10, <1>11

\* The middle sample is a median: two are not above it and two are not below it.
LEMMA MiddleIsMedian ==
    ASSUME NEW s, \A i \in 1..3 : s[i].cpu \in Nat
    PROVE  /\ Middle(s) \in 1..3
           /\ Cardinality({i \in 1..3 : s[i].cpu <= s[Middle(s)].cpu}) >= 2
           /\ Cardinality({i \in 1..3 : s[i].cpu >= s[Middle(s)].cpu}) >= 2
  <1>1. \E i \in 1..3 : Cardinality(Before(s, i)) = 1
    <2>1. PICK i \in 1..3, j \in 1..3 : Before(s, i) = {j}
      BY OneOfThree
    <2>2. Cardinality({j}) = 1
      BY FS_Singleton
    <2> QED
      BY <2>1, <2>2
  <1> PICK m : m = Middle(s)
    OBVIOUS
  <1>2. m \in 1..3 /\ Cardinality(Before(s, m)) = 1
    BY <1>1 DEF Middle
  <1>3. IsFiniteSet(1..3) /\ \A S \in SUBSET (1..3) : IsFiniteSet(S) /\ Cardinality(S) \in Nat
    <2>1. IsFiniteSet(1..3)
      <3>1. 1 \in Int /\ 3 \in Int
        OBVIOUS
      <3> QED
        BY <3>1, FS_Interval, Zenon
    <2>2. ASSUME NEW S \in SUBSET (1..3) PROVE IsFiniteSet(S) /\ Cardinality(S) \in Nat
      <3>1. IsFiniteSet(S)
        BY <2>1, FS_Subset
      <3> QED
        BY <3>1, FS_CardinalityType
    <2> QED
      BY <2>1, <2>2
  <1>4. PICK j : Before(s, m) = {j}
    <2>1. IsFiniteSet(Before(s, m))
      BY <1>3 DEF Before
    <2> QED
      BY <1>2, <2>1, FS_Singleton
  <1>5. j \in 1..3 /\ j # m /\ s[j].cpu <= s[m].cpu
    <2>1. j \in Before(s, m)
      BY <1>4
    <2> QED
      BY <1>2, <2>1 DEF Before
  <1>6. \A i \in 1..3 \ {j} : s[i].cpu >= s[m].cpu
    BY <1>2, <1>4 DEF Before
  <1>7. \A S \in SUBSET (1..3) : (\E x, y \in S : x # y) => Cardinality(S) >= 2
    <2> TAKE S \in SUBSET (1..3)
    <2> SUFFICES ASSUME NEW x \in S, NEW y \in S, x # y PROVE Cardinality(S) >= 2
      OBVIOUS
    <2>1. Cardinality({x, y}) = 2
      <3> PICK X : X = {x}
        OBVIOUS
      <3>1. IsFiniteSet(X) /\ Cardinality(X) = 1 /\ y \notin X
        BY FS_Singleton
      <3>2. Cardinality(X \cup {y}) = Cardinality(X) + 1
        BY ONLY <3>1, FS_AddElement
      <3>3. X \cup {y} = {x, y}
        OBVIOUS
      <3> QED
        BY <3>1, <3>2, <3>3
    <2>2. {x, y} \subseteq S /\ IsFiniteSet(S)
      BY <1>3
    <2>3. Cardinality({x, y}) <= Cardinality(S)
      BY <2>2, FS_Subset
    <2> QED
      BY <1>3, <2>1, <2>3
  <1>8. Cardinality({i \in 1..3 : s[i].cpu <= s[m].cpu}) >= 2
    <2>1. j \in {i \in 1..3 : s[i].cpu <= s[m].cpu} /\ m \in {i \in 1..3 : s[i].cpu <= s[m].cpu}
      BY <1>2, <1>5
    <2> QED
      BY <1>5, <1>7, <2>1
  <1>9. Cardinality({i \in 1..3 : s[i].cpu >= s[m].cpu}) >= 2
    <2>1. \E x, y \in {i \in 1..3 : s[i].cpu >= s[m].cpu} : x # y
      <3>1. \E x, y \in 1..3 \ {j} : x # y
        <4>1. CASE j = 1
          <5>1. 2 \in 1..3 \ {j} /\ 3 \in 1..3 \ {j} /\ 2 # 3
            BY <4>1
          <5> QED
            BY <5>1
        <4>2. CASE j = 2
          <5>1. 1 \in 1..3 \ {j} /\ 3 \in 1..3 \ {j} /\ 1 # 3
            BY <4>2
          <5> QED
            BY <5>1
        <4>3. CASE j = 3
          <5>1. 1 \in 1..3 \ {j} /\ 2 \in 1..3 \ {j} /\ 1 # 2
            BY <4>3
          <5> QED
            BY <5>1
        <4> QED
          BY <1>5, <4>1, <4>2, <4>3
      <3> QED
        BY <1>6, <3>1
    <2> QED
      BY <1>7, <2>1
  <1> QED
    BY <1>2, <1>8, <1>9

-----------------------------------------------------------------------------
(* What answering leaves, and what a step that goes on keeps. *)

Ended ==
    /\ pc \notin {"running", "done"} /\ pc' = "done" /\ Close({"store", "fixture"})
    /\ UNCHANGED <<req, step, out, store, stdout, image, ctxDone>>
    /\ run' \in Result /\ samples' \in Seq(Result) /\ results' \in Seq(Statuses)
    /\ req.mode = "single" => results' = results

LEMMA Ends ==
    ASSUME IInv, Ended
    PROVE  /\ TypeOK' /\ FlowOK' /\ RunOK' /\ PathsOK' /\ InputOK' /\ BooksOK'
           /\ DirsOK' /\ SamplesOK'
  <1>1. /\ UNCHANGED <<req, step, out, stdout, image, ctxDone, paths, counted, stored>>
        /\ pc' = "done"
    BY DEF Ended, store
  <1>2. (NoChatter' <=> NoChatter) /\ (Validate(req)' <=> Validate(req)) /\ Steps' = Steps
    BY <1>1, RequestStays
  <1>3. dirs' = {} /\ files' = {}
    BY DEF Ended, Close, Dropped, DirsOK, IInv
  <1>4. TypeOK'
    BY <1>1, <1>2 DEF TypeOK, IInv, Ended
  <1>5. FlowOK'
    BY <1>1 DEF FlowOK, IInv, Ended
  <1>6. RunOK'
    BY <1>1 DEF RunOK
  <1>7. PathsOK'
    BY <1>1, <1>2 DEF PathsOK, IInv
  <1>8. InputOK'
    BY <1>1, <1>3 DEF InputOK
  <1>9. BooksOK'
    BY <1>1 DEF BooksOK, IInv, Bytes
  <1>10. DirsOK'
    BY <1>1, <1>3 DEF DirsOK
  <1>11. SamplesOK'
    BY <1>1 DEF SamplesOK
  <1> QED
    BY <1>4, <1>5, <1>6, <1>7, <1>8, <1>9, <1>10, <1>11

\* An answer that is no success needs no justification but that of the samples.
LEMMA Refusal ==
    ASSUME pc' = "done", response'.status # "Accepted", response'.score # 1,
           Sampled(req)' => \A s \in Range(samples') :
                               s.status # "Accepted" => response'.status = s.status
    PROVE  AnswerOK'
  BY DEF AnswerOK, AcceptedIsEarned, SampledMedian

LEMMA NoAnswerYet ==
    ASSUME IInv, pc # "done", pc' # "done", UNCHANGED response
    PROVE  AnswerOK'
  <1>1. response' = Answer("none", "none")
    BY DEF IInv, AnswerOK
  <1>2. response'.status # "Accepted" /\ response'.score # 1
    <2>1. Answer("none", "none").status # "Accepted" /\ Answer("none", "none").score # 1
      BY DEF Answer, None
    <2> QED
      BY <1>1, <2>1
  <1> QED
    BY <1>1, <1>2 DEF AnswerOK, AcceptedIsEarned, SampledMedian

LEMMA UrlKept == ASSUME UrlOK, UNCHANGED url PROVE UrlOK'
  BY DEF UrlOK, url

\* Fail, with the samples as they were or with one more accepted run.
LEMMA Failure ==
    ASSUME IInv, Ended, UNCHANGED url, NEW source, response' = Answer("InitFail", source),
           Sampled(req) => samples' = samples \/ (samples' = Append(samples, run)
                                                  /\ run.status = "Accepted")
    PROVE  IInv'
  <1>1. ASSUME Sampled(req)' PROVE \A s \in Range(samples') : s.status = "Accepted"
    <2>1. Sampled(req) /\ pc # "done"
      BY <1>1, RequestStays DEF Ended
    <2>2. samples \in Seq(Result) /\ \A k \in DOMAIN samples : samples[k].status = "Accepted"
      BY <2>1 DEF IInv, TypeOK, SamplesOK
    <2>3. CASE samples' = samples
      BY <2>2, <2>3 DEF Range
    <2>4. CASE samples' = Append(samples, run) /\ run.status = "Accepted"
      <3>1. run \in Result
        BY DEF IInv, TypeOK
      <3>2. \A k \in DOMAIN samples' : samples'[k].status = "Accepted"
        BY <2>2, <2>4, <3>1, AppendProperties
      <3> QED
        BY <3>2 DEF Range
    <2> QED
      BY <2>1, <2>3, <2>4
  <1>2. response'.status = "InitFail" /\ response'.score # 1
    BY DEF Answer, None
  <1>3. AnswerOK'
    BY <1>1, <1>2, Refusal DEF Ended
  <1>4. UrlOK'
    BY UrlKept DEF IInv
  <1> QED
    BY <1>3, <1>4, Ends DEF IInv

LEMMA PathsKept ==
    ASSUME PathsOK, UNCHANGED <<req, step, out, paths>>,
           pc \notin {"final", "done"}, pc' \notin {"final", "done"}
    PROVE  PathsOK'
  <1>1. (NoChatter' <=> NoChatter) /\ \A id : Past(id)' <=> Past(id)
    BY RequestStays DEF Past
  <1> QED
    BY <1>1 DEF PathsOK

LEMMA SamplesKept ==
    ASSUME SamplesOK, UNCHANGED <<req, samples>>, pc # "done", samples # <<>> => image' = image
    PROVE  SamplesOK'
  <1>1. Sampled(req)' <=> Sampled(req)
    BY RequestStays
  <1> QED
    BY <1>1 DEF SamplesOK

\* A step up to the result of a run: all but the input, the files and the time spent.
Onward ==
    /\ pc \in {"start", "freeze", "input", "open", "running"}
    /\ pc' \in {"freeze", "input", "open", "running", "after"}
    /\ UNCHANGED <<req, step, out, store, stdout, results, samples, response>>
    /\ run' \in Result /\ image' \in BOOLEAN /\ ctxDone' \in BOOLEAN
    /\ samples # <<>> => image' = image
    /\ req.mode = "single" => pc' # "input"
    /\ req.mode # "single" => pc' # "freeze"
    /\ pc' = "after" => Returned(run)'

LEMMA GoesOn ==
    ASSUME IInv, Onward
    PROVE  TypeOK' /\ FlowOK' /\ RunOK' /\ PathsOK' /\ SamplesOK' /\ AnswerOK'
  <1>1. UNCHANGED <<req, step, out, stdout, results, samples, response, paths>>
    BY DEF Onward, store
  <1>2. /\ pc \in {"start", "freeze", "input", "open", "running"}
        /\ pc' \in {"freeze", "input", "open", "running", "after"}
    BY DEF Onward
  <1>3. (NoChatter' <=> NoChatter) /\ (Validate(req)' <=> Validate(req)) /\ Steps' = Steps
    BY <1>1, RequestStays
  <1>4. TypeOK'
    BY <1>1, <1>2, <1>3 DEF TypeOK, IInv, Onward
  <1>5. FlowOK'
    <2>1. /\ pc \notin {"final", "store", "done"}
          /\ pc' \notin {"start", "final", "store", "done"}
          /\ out = 1
      BY <1>2 DEF FlowOK, IInv
    <2>2. /\ req.mode = "single" => pc' # "input" /\ results = <<>>
          /\ req.mode # "single" => pc # "freeze" /\ pc' # "freeze"
                                   /\ \A i \in DOMAIN results : results[i] \in Good
      <3>1. req.mode # "single" => req.mode = "steps" \/ req.mode = "pipeline"
        BY Modes DEF TypeOK, IInv
      <3> QED
        BY <2>1, <3>1 DEF FlowOK, IInv, Onward
    <2>3. /\ req.mode # "single" => Len(results) = step - 1
          /\ req.mode = "pipeline" => Len(stdout) = step - 1
      BY <1>2, <2>2 DEF FlowOK, IInv
    <2> QED
      BY <1>1, <2>1, <2>2, <2>3 DEF FlowOK
  <1>6. RunOK'
    <2>1. \A i \in DOMAIN stdout : stdout[i].step = i /\ (NoChatter => stdout[i].whole)
      BY <1>2 DEF RunOK, IInv
    <2>2. \A i \in DOMAIN stdout' : stdout'[i].step = i /\ (NoChatter' => stdout'[i].whole)
      BY <1>1, <1>3, <2>1
    <2> QED
      BY <1>2, <2>2 DEF RunOK, Onward
  <1>7. PathsOK'
    BY <1>1, <1>2, PathsKept DEF IInv
  <1>8. SamplesOK'
    BY <1>1, <1>2, SamplesKept DEF IInv, Onward
  <1>9. AnswerOK'
    BY <1>1, <1>2, NoAnswerYet
  <1> QED
    BY <1>4, <1>5, <1>6, <1>7, <1>8, <1>9

LEMMA BooksKept ==
    ASSUME BooksOK, UNCHANGED <<req, paths, counted, stored>>, pc # "done", pc' # "store",
           Range(paths) \subseteq files'
    PROVE  BooksOK'
  <1>1. Bytes(counted)' = Bytes(counted)
    BY DEF Bytes
  <1> QED
    BY <1>1 DEF BooksOK

LEMMA StartStep ==
    ASSUME IInv, Start
    PROVE  IInv'
  <1>1. /\ pc = "start" /\ UNCHANGED <<req, step, out, store, input, url, run, stdout, results,
                                        samples, image, ctxDone>>
    BY DEF Start
  <1>2. CASE Fail("store")
    <2>1. Ended
      BY <1>1, <1>2 DEF Fail, Respond, Ended, IInv, TypeOK
    <2> QED
      BY <1>1, <1>2, <2>1, Failure DEF Fail, Respond
  <1>3. CASE ~Fail("store")
    <2>1. /\ pc' \in {"freeze", "open", "input"} /\ UNCHANGED <<files, response>>
          /\ pc' \in {"freeze", "open"} <=> req.mode = "single"
          /\ dirs' = dirs \/ dirs' = {"store"}
      BY <1>1, <1>3 DEF Start
    <2>2. Onward
      BY <1>1, <2>1 DEF Onward, IInv, TypeOK
    <2>3. InputOK'
      BY <1>1, <2>1 DEF InputOK, IInv
    <2>4. BooksOK'
      BY <1>1, <2>1, BooksKept DEF IInv, BooksOK, store
    <2>5. UrlOK'
      BY <1>1, UrlKept DEF IInv
    <2>6. DirsOK'
      BY <1>1, <2>1 DEF DirsOK, IInv
    <2> QED
      BY <2>2, <2>3, <2>4, <2>5, <2>6, GoesOn DEF IInv
  <1> QED
    BY <1>2, <1>3

LEMMA FreezeStep ==
    ASSUME IInv, Freeze
    PROVE  IInv'
  <1>1. /\ pc = "freeze" /\ UNCHANGED <<req, step, out, store, input, url, run, stdout, results,
                                         samples, image, ctxDone>>
    BY DEF Freeze
  <1>2. CASE Fail("stdin_url")
    <2>1. Ended
      BY <1>1, <1>2 DEF Fail, Respond, Ended, IInv, TypeOK
    <2> QED
      BY <1>1, <1>2, <2>1, Failure DEF Fail, Respond
  <1>3. CASE ~Fail("stdin_url")
    <2>1. PICK n \in 0..WorkspaceBytes :
             /\ dirs' = dirs \cup {"fixture"}
             /\ files' = {File("fixture", <<0, 0>>, Data(0, "url", n, TRUE))}
             /\ pc' = "open" /\ UNCHANGED response
      BY <1>1, <1>3 DEF Freeze
    <2>2. req.mode = "single" /\ paths = <<>>
      BY <1>1, Modes DEF IInv, TypeOK, FlowOK, PathsOK
    <2>3. Onward
      BY <1>1, <2>1, <2>2 DEF Onward, IInv, TypeOK
    <2>4. \A f \in files' : f.dir = "fixture" /\ f.data.whole /\ f.data.step = 0
      BY <2>1 DEF File, Data
    <2>5. InputOK'
      BY <1>1, <2>1, <2>2, <2>4 DEF InputOK
    <2>6. BooksOK'
      <3>1. Range(paths) \subseteq files'
        BY <2>2 DEF Range
      <3> QED
        BY <1>1, <2>1, <3>1, BooksKept DEF IInv, store
    <2>7. UrlOK'
      BY <1>1, UrlKept DEF IInv
    <2>8. DirsOK'
      BY <1>1, <2>1, <2>4 DEF DirsOK, IInv
    <2> QED
      BY <2>3, <2>5, <2>6, <2>7, <2>8, GoesOn DEF IInv
  <1> QED
    BY <1>2, <1>3

LEMMA UnreadFacts ==
    ASSUME Unread, UNCHANGED <<req, step>>
    PROVE  /\ run' \in Result /\ pc' = "after" /\ UNCHANGED <<dirs, files, response>>
           /\ Returned(run)'
  <1>1. run' = Res("InitFail", "stdin") /\ pc' = "after" /\ UNCHANGED <<dirs, files, response>>
    BY DEF Unread
  <1>2. /\ Res("InitFail", "stdin") \in Result
        /\ Res("InitFail", "stdin").status = "InitFail"
        /\ Res("InitFail", "stdin").score = None
    BY ResIsResult DEF Statuses, Sources
  <1>3. run' \in Result /\ run'.status = "InitFail" /\ run'.score = None
    BY <1>1, <1>2
  <1> QED
    BY <1>1, <1>3 DEF Returned, Good, None

LEMMA OpenStep ==
    ASSUME IInv, Open
    PROVE  IInv'
  <1>1. /\ pc = "open"
        /\ UNCHANGED <<req, step, out, store, url, stdout, results, samples, image, ctxDone>>
        /\ input' \in IF req.mode = "single" THEN SingleInput ELSE {input}
    BY DEF Open
  <1>2. /\ pc' \in {"running", "after"} /\ UNCHANGED <<files, response>>
        /\ dirs' \subseteq dirs \cup (IF pc' = "running" THEN {"work"} ELSE {})
        /\ run' \in Result /\ (pc' = "after" => Returned(run)')
    <2>1. CASE Unread
      BY <1>1, <2>1, UnreadFacts
    <2>2. CASE ~Unread
      BY <1>1, <2>2 DEF Open, IInv, TypeOK
    <2> QED
      BY <2>1, <2>2
  <1>3. Onward
    BY <1>1, <1>2 DEF Onward, IInv, TypeOK
  <1>4. InputOK'
    <2>1. CASE req.mode = "single"
      <3>1. \A k \in DOMAIN input' : input'[k].whole /\ input'[k].step = 0
        <4>1. CASE files # {}
          <5>1. PICK f \in files : input' = <<f.data>>
            BY <1>1, <2>1, <4>1 DEF SingleInput
          <5> QED
            BY <2>1, <5>1 DEF IInv, InputOK
        <4>2. CASE files = {}
          <5>1. PICK n \in Len0 :
                   input' = <<Data(0, IF req.url THEN "url" ELSE "text", n, TRUE)>>
            BY <1>1, <2>1, <4>2 DEF SingleInput
          <5> QED
            BY <5>1 DEF Data
        <4> QED
          BY <4>1, <4>2
      <3> QED
        BY <1>1, <1>2, <2>1, <3>1 DEF IInv, InputOK, InputGood
    <2>2. CASE req.mode # "single"
      <3>1. input' = input /\ InputGood
        BY <1>1, <2>2 DEF IInv, InputOK
      <3>2. InputGood'
        BY <1>1, <3>1, RequestStays DEF InputGood
      <3> QED
        BY <1>1, <2>2, <3>2 DEF InputOK
    <2> QED
      BY <2>1, <2>2
  <1>5. BooksOK'
    BY <1>1, <1>2, BooksKept DEF IInv, BooksOK, store
  <1>6. UrlOK'
    BY <1>1, UrlKept DEF IInv
  <1>7. DirsOK'
    BY <1>1, <1>2 DEF DirsOK, IInv
  <1> QED
    BY <1>3, <1>4, <1>5, <1>6, <1>7, GoesOn DEF IInv

LEMMA ExecuteStep ==
    ASSUME IInv, Execute
    PROVE  IInv'
  <1>1. /\ pc = "running" /\ pc' = "after"
        /\ UNCHANGED <<req, step, out, store, input, url, stdout, results, samples, ctxDone,
                       response>>
        /\ image' \in IF Sampled(req) /\ samples = <<>> THEN BOOLEAN ELSE {image}
        /\ dirs' = dirs \ {"work"} /\ files' = {f \in files : f.dir # "work"}
    BY DEF Execute, Close, Dropped
  <1>2. PICK st \in {"OK", "TLE", "RE", "InitFail"}, n \in Len0, f \in FileLen,
             right \in (IF evaluateOutput THEN BOOLEAN ELSE {TRUE}),
             cpu \in (IF Sampled(req) THEN 0..Threshold + 1 ELSE {0}),
             m \in (IF InteractorOutputMax > 0 THEN Len0 ELSE {0}) :
             run' \in IF Interactive THEN Interacted(st, n, f, m)
                     ELSE Batch(st, n, f, right, cpu)
    BY DEF Execute
  <1>3. /\ n \in Nat /\ f \in Nat \cup {None} /\ right \in BOOLEAN /\ cpu \in Nat /\ m \in Nat
        /\ WantsFile \/ f = None
    <2>1. /\ MaxLen \in Nat /\ Threshold \in Nat /\ Len0 \subseteq Nat
      BY BoundsAssumption DEF Len0
    <2>2. f \in Nat \cup {None} /\ (WantsFile \/ f = None)
      BY <2>1 DEF FileLen
    <2>3. cpu \in Nat
      BY <2>1
    <2>4. m \in Nat /\ n \in Nat
      BY <2>1
    <2>5. right \in BOOLEAN
      BY Zenon
    <2> QED
      BY <2>2, <2>3, <2>4, <2>5
  <1>4. run' \in Result /\ Returned(run')
    <2>1. TypeOK
      BY DEF IInv
    <2>2. CASE Interactive
      <3>1. run' \in Interacted(st, n, f, m)
        BY <1>2, <2>2
      <3> QED
        BY ONLY <2>1, <2>2, <1>3, <3>1, InteractiveRuns
    <2>3. CASE ~Interactive
      <3>1. run' \in Batch(st, n, f, right, cpu)
        BY <1>2, <2>3
      <3> QED
        BY ONLY <2>1, <2>3, <1>3, <3>1, BatchRuns
    <2> QED
      BY <2>2, <2>3
  <1>5. Returned(run)'
    BY <1>1, <1>4, PlanStays, RequestStays DEF Returned
  <1>6. Onward
    BY <1>1, <1>4, <1>5 DEF Onward, IInv, TypeOK
  <1>7. files' = files
    BY <1>1 DEF DirsOK, IInv
  <1>8. InputOK'
    BY <1>1, <1>7 DEF IInv, InputOK
  <1>9. BooksOK'
    BY <1>1, <1>7, BooksKept DEF IInv, BooksOK, store
  <1>10. UrlOK'
    BY <1>1, UrlKept DEF IInv
  <1>11. DirsOK'
    BY <1>1, <1>7 DEF DirsOK, IInv
  <1> QED
    BY <1>6, <1>8, <1>9, <1>10, <1>11, GoesOn DEF IInv

-----------------------------------------------------------------------------
(* The input of a step *)

LEMMA SpendsKept ==
    ASSUME UrlOK, NEW t \in Nat, Spends(t)
    PROVE  UrlOK'
  BY DEF UrlOK, Spends

\* The parts of a step are whole, and what is handed over comes from the first step.
LEMMA PartsAreGood ==
    ASSUME IInv, req.mode = "steps", pc = "input", NEW n \in Nat
    PROVE  \A k \in DOMAIN stdinParts(n) :
              /\ stdinParts(n)[k].whole /\ stdinParts(n)[k].step \in Nat
              /\ stdinParts(n)[k].step > 0 => stdinParts(n)[k].step < step
  <1>1. req \in StepsRequest /\ ValidateStepPipeline(req) /\ step \in 1..2
    BY Modes DEF IInv, TypeOK, Validate, Steps
  <1>2. req.parts[step] \in Seq(Part)
    BY <1>1 DEF StepsRequest
  <1> PICK p : p = req.parts[step]
    OBVIOUS
  <1> TAKE k \in DOMAIN stdinParts(n)
  <1>3. k \in DOMAIN p /\ stdinParts(n)[k] = Datum(p[k], n)
    BY DEF stdinParts
  <1>4. p[k] \in Part
    BY <1>2, <1>3
  <1>5. p[k].kind \in {"text", "url", "handoff"}
    BY <1>4 DEF Part
  <1>6. CASE p[k].kind = "handoff"
    <2>1. step = 2
      <3>1. step = 1 => \A q \in Range(p) : q.kind # "handoff"
        BY <1>1 DEF ValidateStepPipeline, ValidateStepStdinParts
      <3>2. p[k] \in Range(p)
        BY <1>3 DEF Range
      <3> QED
        BY <1>1, <1>6, <3>1, <3>2
    <2>2. Datum(p[k], n) = paths[Handoff].data
      BY <1>6 DEF Datum
    <2> QED
      BY <1>3, <2>1, <2>2 DEF IInv, PathsOK
  <1>7. CASE p[k].kind = "text"
    <2>1. Datum(p[k], n) = Data(0, "text", p[k].len, TRUE)
      BY <1>7 DEF Datum
    <2> QED
      BY <1>3, <2>1 DEF Data
  <1>8. CASE p[k].kind = "url"
    <2>1. Datum(p[k], n) = Data(0, "url", n, TRUE)
      BY <1>8 DEF Datum
    <2> QED
      BY <1>3, <2>1 DEF Data
  <1> QED
    BY <1>5, <1>6, <1>7, <1>8

\* The artifacts a step refers to are in the store.
LEMMA ArtifactsAreGood ==
    ASSUME IInv, req.mode = "pipeline", pc = "input", NEW k \in DOMAIN req.steps[step].stdin
    PROVE  LET ref == req.steps[step].stdin[k]
               d   == artifact(ref)
           IN  /\ NoChatter => d.whole
               /\ d.step \in Nat /\ (d.step > 0 => d.step < step)
               /\ ref # <<0, 0>> => d.kind = req.steps[ref[1]].outputs[ref[2]].kind
  <1> PICK ref : ref = req.steps[step].stdin[k]
    OBVIOUS
  <1>1. step \in DOMAIN req.steps /\ step \in Nat /\ DOMAIN req.steps \subseteq Nat
    BY PipelineRules, SMTT(30) DEF IInv, TypeOK, Steps
  <1>2. \/ ref = <<0, 0>>
        \/ /\ ref[1] \in DOMAIN req.steps /\ ref[1] < step
           /\ ref[2] \in DOMAIN req.steps[ref[1]].outputs
           /\ ref = <<ref[1], ref[2]>>
    BY <1>1, PipelineRules DEF IInv, TypeOK
  <1>3. CASE ref = <<0, 0>>
    <2>1. artifact(ref) = Data(0, "resource", 1, TRUE)
      BY <1>3 DEF artifact
    <2> QED
      BY <1>3, <2>1 DEF Data
  <1>4. CASE ref # <<0, 0>>
    <2>1. Past(ref)
      BY <1>2, <1>4 DEF Past
    <2>2. <<ref[1], ref[2]>> \in DOMAIN paths
      BY <1>2, <1>4, <2>1 DEF IInv, PathsOK
    <2>3. ref \in DOMAIN paths
      BY <1>2, <1>4, <2>2
    <2>4. artifact(ref) = paths[ref].data
      BY <1>4 DEF artifact
    <2>5. /\ NoChatter => paths[ref].data.whole
          /\ paths[ref].data.step = ref[1]
          /\ paths[ref].data.kind = req.steps[ref[1]].outputs[ref[2]].kind
      BY <2>3 DEF IInv, PathsOK
    <2> QED
      BY <1>1, <1>2, <1>4, <2>4, <2>5
  <1> QED
    BY <1>3, <1>4

LEMMA PrepareInputStep ==
    ASSUME IInv, PrepareInput
    PROVE  IInv'
  <1>1. /\ pc = "input"
        /\ UNCHANGED <<req, step, out, store, stdout, results, samples, image, ctxDone>>
        /\ IF req.mode = "steps" THEN prepareStepStdin ELSE preparePipelineStdin
    BY DEF PrepareInput
  <1>2. req.mode \in {"steps", "pipeline"} /\ ~Sampled(req)
    BY <1>1, Modes DEF IInv, TypeOK, FlowOK, Sampled
  <1>3. UrlOK'
    <2>1. CASE req.mode = "steps"
      <3>1. PICK t \in Nat : Spends(t)
        <4>1. UrlTime \in Nat
          BY BoundsAssumption
        <4> QED
          BY <1>1, <2>1, <4>1 DEF prepareStepStdin
      <3> QED
        BY <3>1, SpendsKept DEF IInv
    <2>2. CASE req.mode = "pipeline"
      BY <1>1, <2>2, UrlKept DEF preparePipelineStdin, IInv
    <2> QED
      BY <1>2, <2>1, <2>2
  <1>4. CASE \E s : Fail(s) /\ UNCHANGED run
    <2> PICK s : Fail(s) /\ UNCHANGED run
      BY <1>4
    <2>1. Ended /\ response' = Answer("InitFail", s)
      BY <1>1 DEF Fail, Respond, Ended, IInv, TypeOK
    <2>2. response'.status = "InitFail" /\ response'.score # 1
      BY <2>1 DEF Answer, None
    <2>3. AnswerOK'
      BY <1>1, <1>2, <2>1, <2>2, Refusal, RequestStays DEF Ended
    <2> QED
      BY <1>3, <2>1, <2>3, Ends DEF IInv
  <1>5. CASE Unread /\ UNCHANGED input
    <2>1. /\ run' \in Result /\ pc' = "after" /\ UNCHANGED <<dirs, files, response>>
          /\ Returned(run)'
      BY <1>1, <1>5, UnreadFacts
    <2>2. Onward
      BY <1>1, <2>1 DEF Onward, IInv, TypeOK
    <2>3. InputOK'
      BY <1>1, <2>1 DEF InputOK, IInv
    <2>4. BooksOK'
      BY <1>1, <2>1, BooksKept DEF IInv, BooksOK, store
    <2>5. DirsOK'
      BY <1>1, <2>1 DEF DirsOK, IInv
    <2> QED
      BY <1>3, <2>2, <2>3, <2>4, <2>5, GoesOn DEF IInv
  <1>6. CASE /\ pc' = "open" /\ UNCHANGED <<dirs, response, run>>
             /\ files \subseteq files' /\ \A f \in files' \ files : f.dir = "store"
             /\ InputGood'
    <2>1. Onward
      BY <1>1, <1>2, <1>6 DEF Onward, IInv, TypeOK
    <2>2. InputOK'
      BY <1>1, <1>2, <1>6 DEF InputOK
    <2>3. BooksOK'
      BY <1>1, <1>6, BooksKept DEF IInv, BooksOK, store
    <2>4. DirsOK'
      BY <1>1, <1>6 DEF DirsOK, IInv
    <2> QED
      BY <1>3, <2>1, <2>2, <2>3, <2>4, GoesOn DEF IInv
  <1>7. CASE req.mode = "steps"
    <2>1. MaxLen \in Nat
      BY BoundsAssumption
    <2>2. PICK n \in Nat :
             \/ Fail("stdin_parts") /\ UNCHANGED <<input, run>>
             \/ Unread /\ UNCHANGED input
             \/ /\ input' = stdinParts(n)
                /\ files' = IF req.alone[step] THEN files
                            ELSE files \cup {File("store", <<step, 0>>, Empty)}
                /\ pc' = "open" /\ UNCHANGED <<dirs, response, run>>
      BY <1>1, <1>7, <2>1 DEF prepareStepStdin, Len0
    <2>3. CASE /\ input' = stdinParts(n)
               /\ files' = IF req.alone[step] THEN files
                           ELSE files \cup {File("store", <<step, 0>>, Empty)}
               /\ pc' = "open" /\ UNCHANGED <<dirs, response, run>>
      <3>1. \A k \in DOMAIN input' :
              /\ input'[k].whole /\ input'[k].step \in Nat
              /\ input'[k].step > 0 => input'[k].step < step
        BY <1>1, <1>7, <2>3, PartsAreGood
      <3>2. InputGood'
        BY <1>1, <1>7, <3>1 DEF InputGood
      <3>3. files \subseteq files' /\ \A f \in files' \ files : f.dir = "store"
        BY <2>3 DEF File
      <3> QED
        BY <1>6, <2>3, <3>2, <3>3
    <2> QED
      BY <1>4, <1>5, <2>2, <2>3
  <1>8. CASE req.mode = "pipeline"
    <2>1. \/ Fail("stdin") /\ UNCHANGED run
          \/ /\ input' = [k \in DOMAIN req.steps[step].stdin |->
                            artifact(req.steps[step].stdin[k])]
             /\ files' = files \cup {File("store", <<step, 0>>, Empty)}
             /\ pc' = "open" /\ UNCHANGED <<dirs, response, run>>
      BY <1>1, <1>8 DEF preparePipelineStdin
    <2>2. CASE /\ input' = [k \in DOMAIN req.steps[step].stdin |->
                              artifact(req.steps[step].stdin[k])]
               /\ files' = files \cup {File("store", <<step, 0>>, Empty)}
               /\ pc' = "open" /\ UNCHANGED <<dirs, response, run>>
      <3>1. ASSUME NoChatter, NEW k \in DOMAIN req.steps[step].stdin
            PROVE  LET ref == req.steps[step].stdin[k]
                   IN  /\ input'[k].whole /\ input'[k].step \in Nat
                       /\ input'[k].step > 0 => input'[k].step < step
                       /\ ref # <<0, 0>> =>
                             input'[k].kind = req.steps[ref[1]].outputs[ref[2]].kind
        <4>1. input'[k] = artifact(req.steps[step].stdin[k])
          BY <2>2
        <4> QED
          BY <1>1, <1>8, <3>1, <4>1, ArtifactsAreGood
      <3>2. DOMAIN input' = DOMAIN req.steps[step].stdin
        BY <2>2
      <3>3. InputGood'
        <4>1. UNCHANGED <<req, step>> /\ (NoChatter' <=> NoChatter)
          BY <1>1, RequestStays
        <4> QED
          BY <1>8, <3>1, <3>2, <4>1 DEF InputGood
      <3>4. files \subseteq files' /\ \A f \in files' \ files : f.dir = "store"
        BY <2>2 DEF File
      <3> QED
        BY <1>6, <2>2, <3>3, <3>4
    <2> QED
      BY <1>4, <2>1, <2>2
  <1> QED
    BY <1>2, <1>7, <1>8

-----------------------------------------------------------------------------
(* A single run and its samples *)

LEMMA CancelStep ==
    ASSUME IInv, Cancel
    PROVE  IInv'
  <1>1. /\ pc # "done" /\ ctxDone' = TRUE
        /\ UNCHANGED <<req, pc, step, out, dirs, files, store, input, url, run, stdout, results,
                       samples, image, response>>
    BY DEF Cancel
  <1>2. /\ (NoChatter' <=> NoChatter) /\ (Validate(req)' <=> Validate(req)) /\ Steps' = Steps
        /\ Outputs' = Outputs /\ InteractorOutputMax' = InteractorOutputMax
        /\ (Returned(run)' <=> Returned(run))
    BY <1>1, RequestStays, PlanStays, ReturnedStays
  <1>3. TypeOK'
    BY <1>1, <1>2 DEF TypeOK, IInv
  <1>4. FlowOK'
    BY <1>1, <1>2 DEF FlowOK, IInv
  <1>5. RunOK'
    BY <1>1, <1>2 DEF RunOK, IInv
  <1>6. PathsOK'
    BY <1>1, <1>2 DEF PathsOK, IInv, Past, store
  <1>7. InputOK'
    BY <1>1, <1>2 DEF InputOK, InputGood, IInv
  <1>8. BooksOK'
    BY <1>1, <1>2 DEF BooksOK, IInv, Bytes, store
  <1>9. UrlOK'
    BY <1>1, UrlKept DEF IInv
  <1>10. DirsOK'
    BY <1>1 DEF DirsOK, IInv
  <1>11. SamplesOK'
    BY <1>1, SamplesKept DEF IInv
  <1>12. AnswerOK'
    BY <1>1, NoAnswerYet
  <1> QED
    BY <1>3, <1>4, <1>5, <1>6, <1>7, <1>8, <1>9, <1>10, <1>11, <1>12 DEF IInv

\* A run that is the last, or the third of three, is the answer.
LEMMA MedianAnswers ==
    ASSUME IInv, pc = "after", Sampled(req), samples' = Append(samples, run),
           run.status = "Accepted", Len(samples') >= 3, UNCHANGED <<req, image>>,
           response' = [AsAnswer(samples'[1]) EXCEPT !.cpu = samples'[Median].cpu,
                                                     !.selected = Median]
    PROVE  /\ response'.status = "Accepted"
           /\ SampledMedian'
  <1> PICK s : s = samples'
    OBVIOUS
  <1>1. /\ samples \in Seq(Result) /\ run \in Result /\ Len(samples) <= 2
        /\ \A k \in DOMAIN samples : samples[k].status = "Accepted"
        /\ samples # <<>> => ~image /\ samples[1].cpu <= Threshold
    BY DEF IInv, TypeOK, SamplesOK
  <1>2. /\ s \in Seq(Result) /\ Len(s) = 3 /\ DOMAIN s = 1..3
        /\ samples # <<>> /\ s[1] = samples[1]
        /\ \A k \in DOMAIN s : s[k].status = "Accepted"
    <2>1. s \in Seq(Result) /\ Len(s) = Len(samples) + 1 /\ Len(s) >= 3 /\ Len(samples) \in Nat
      BY <1>1
    <2>2. Len(samples) = 2 /\ Len(s) = 3
      <3> PICK k : k = Len(samples)
        OBVIOUS
      <3>1. k \in Nat /\ k <= 2 /\ Len(s) = k + 1 /\ k + 1 >= 3
        BY <1>1, <2>1
      <3>2. k = 2
        BY ONLY <3>1
      <3> QED
        BY <3>1, <3>2
    <2> QED
      BY <1>1, <2>1, <2>2
  <1>3. \A i \in 1..3 : s[i] \in Result /\ s[i].cpu \in Nat
    <2>1. \A i \in 1..3 : s[i] \in Result
      BY <1>2
    <2>2. \A r \in Result : r.cpu \in Nat
      BY DEF Result
    <2> QED
      BY <2>1, <2>2
  <1> PICK m : m = Middle(s)
    OBVIOUS
  <1>4. Median = m
    BY DEF Median, Middle, Before
  <1>5. /\ m \in 1..3
        /\ Cardinality({i \in 1..3 : s[i].cpu <= s[m].cpu}) >= 2
        /\ Cardinality({i \in 1..3 : s[i].cpu >= s[m].cpu}) >= 2
    BY <1>3, MiddleIsMedian
  <1>6. /\ response'.status = "Accepted" /\ response'.cpu = s[m].cpu /\ response'.selected = m
    <2>1. response' = [AsAnswer(s[1]) EXCEPT !.cpu = s[m].cpu, !.selected = m]
      BY <1>4
    <2>2. s[1].status = "Accepted"
      BY <1>2
    <2> QED
      BY ONLY <2>1, <2>2 DEF AsAnswer, Answer
  <1>7. ~image' /\ ~(s[1].cpu > Threshold)
    <2>1. s[1].cpu <= Threshold /\ s[1].cpu \in Nat /\ Threshold \in Nat
      BY <1>1, <1>2, <1>3, BoundsAssumption, SMTT(30)
    <2> QED
      BY <1>1, <1>2, <2>1
  <1>8. \A x \in Range(s) : x.status = "Accepted"
    BY <1>2 DEF Range
  <1>9. SampledMedian'
    <2> SUFFICES ASSUME pc' = "done", Sampled(req)'
                 PROVE  /\ \A x \in Range(s) : x.status = "Accepted"
                        /\ Len(s) \in {1, 3}
                        /\ Len(s) = 1 <=> image' \/ s[1].cpu > Threshold
                        /\ Len(s) = 3 =>
                              /\ s[response'.selected].cpu = response'.cpu
                              /\ Cardinality({i \in 1..3 : s[i].cpu <= response'.cpu}) >= 2
                              /\ Cardinality({i \in 1..3 : s[i].cpu >= response'.cpu}) >= 2
      BY <1>8 DEF SampledMedian
    <2>1. Len(s) \in {1, 3} /\ (Len(s) = 1 <=> image' \/ s[1].cpu > Threshold)
      BY <1>2, <1>7
    <2> QED
      BY <1>5, <1>6, <1>8, <2>1
  <1> QED
    BY <1>6, <1>9

\* A run that fails, or that is not repeated.
LEMMA RunAnswers ==
    ASSUME IInv, pc = "after", Sampled(req), samples' = Append(samples, run),
           run.status # "Accepted" \/ (samples = <<>> /\ (image \/ run.cpu > Threshold)),
           UNCHANGED <<req, image>>, response'.status = run.status
    PROVE  SampledMedian'
  <1> PICK s : s = samples'
    OBVIOUS
  <1>1. /\ samples \in Seq(Result) /\ run \in Result
        /\ \A k \in DOMAIN samples : samples[k].status = "Accepted"
    BY DEF IInv, TypeOK, SamplesOK
  <1>2. /\ s \in Seq(Result) /\ Len(s) = Len(samples) + 1 /\ Len(samples) \in Nat
        /\ DOMAIN s = 1..Len(s)
        /\ \A k \in DOMAIN s : s[k].status = "Accepted" \/ s[k] = run
    BY <1>1
  <1>3. \A x \in Range(s) : x.status = "Accepted" \/ x = run
    BY <1>2 DEF Range
  <1>4. CASE run.status # "Accepted"
    BY <1>3, <1>4 DEF SampledMedian
  <1>5. CASE run.status = "Accepted"
    <2>1. samples = <<>> /\ (image \/ run.cpu > Threshold)
      BY <1>5
    <2>2. Len(s) = 1 /\ s[1] = run
      BY <1>1, <1>2, <2>1
    <2>3. image' \/ s[1].cpu > Threshold
      BY <2>1, <2>2
    <2>4. Len(s) \in {1, 3} /\ ~(Len(s) = 3) /\ (Len(s) = 1 <=> image' \/ s[1].cpu > Threshold)
      BY <2>2, <2>3
    <2> QED
      BY <1>3, <1>5, <2>4 DEF SampledMedian
  <1> QED
    BY <1>4, <1>5

\* What a single run is answered with is what it returned.
LEMMA SingleIsEarned ==
    ASSUME IInv, pc = "after", req.mode = "single", UNCHANGED <<req, step, run, results>>,
           response'.status = run.status, response'.score = run.score
    PROVE  AcceptedIsEarned'
  <1>1. /\ run.status = "Accepted" \/ run.score = 1 =>
              run.right /\ run.judgeOut.whole /\ run.judgeOut.step = step
        /\ results = <<>>
    BY DEF IInv, RunOK, FlowOK, Returned, evaluateOutput
  <1>2. Steps = 1 /\ step = 1
    BY DEF IInv, TypeOK, Steps
  <1>3. Steps' = 1 /\ 1..Len(results') - 1 = {}
    BY <1>1, <1>2, RequestStays
  <1> QED
    BY <1>1, <1>2, <1>3 DEF AcceptedIsEarned

LEMMA AfterSingleStep ==
    ASSUME IInv, AfterSingle
    PROVE  IInv'
  <1>1. /\ pc = "after" /\ req.mode = "single"
        /\ UNCHANGED <<req, step, out, store, input, url, run, stdout, results, image, ctxDone>>
    BY DEF AfterSingle
  <1>2. run \in Result /\ samples \in Seq(Result) /\ run' \in Result
    BY <1>1 DEF IInv, TypeOK
  <1>3. /\ AsAnswer(run).status = run.status /\ AsAnswer(run).score = run.score
    BY DEF AsAnswer, Answer
  <1>4. UrlOK'
    BY <1>1, UrlKept DEF IInv
  <1>5. ASSUME pc' = "done", Close({"store", "fixture"}), samples' \in Seq(Result)
        PROVE  Ended
    BY <1>1, <1>2, <1>5 DEF Ended, IInv, TypeOK
  <1>6. CASE ~Sampled(req)
    <2>1. Respond(AsAnswer(run)) /\ UNCHANGED samples
      BY <1>6 DEF AfterSingle
    <2>2. Ended /\ response' = AsAnswer(run)
      BY <1>2, <1>5, <2>1 DEF Respond
    <2>3. AcceptedIsEarned'
      BY <1>1, <1>3, <2>2, SingleIsEarned
    <2>4. AnswerOK'
      BY <1>1, <1>6, <2>2, <2>3, RequestStays DEF AnswerOK, SampledMedian, Ended
    <2> QED
      BY <1>4, <2>2, <2>4, Ends DEF IInv
  <1>7. CASE Sampled(req)
    <2>1. samples' = Append(samples, run) /\ samples' \in Seq(Result)
      BY <1>2, <1>7 DEF AfterSingle, runShortCaseMedian
    <2>2. CASE run.status # "Accepted" \/ (samples = <<>> /\ (image \/ run.cpu > Threshold))
      <3>1. Respond(AsAnswer(run))
        BY <1>7, <2>2 DEF AfterSingle, runShortCaseMedian
      <3>2. Ended /\ response' = AsAnswer(run) /\ pc' = "done"
        BY <1>5, <2>1, <3>1 DEF Respond
      <3>3. AcceptedIsEarned' /\ SampledMedian'
        BY <1>1, <1>3, <1>7, <2>1, <2>2, <3>2, SingleIsEarned, RunAnswers
      <3>4. AnswerOK'
        BY <3>2, <3>3 DEF AnswerOK
      <3> QED
        BY <1>4, <3>2, <3>4, Ends DEF IInv
    <2>3. CASE /\ run.status = "Accepted"
               /\ samples = <<>> => ~image /\ ~(run.cpu > Threshold)
               /\ Len(samples') < 3 \/ ctxDone
      <3>1. Interrupted
        BY <1>7, <2>3 DEF AfterSingle, runShortCaseMedian
      <3>2. CASE ctxDone
        <4>1. Fail("short_case_context")
          BY <3>1, <3>2 DEF Interrupted
        <4>2. Ended /\ response' = Answer("InitFail", "short_case_context")
          BY <1>5, <2>1, <4>1 DEF Respond, Fail
        <4> QED
          BY <1>1, <2>1, <2>3, <4>2, Failure
      <3>3. CASE ~ctxDone
        <4>1. pc' = "open" /\ UNCHANGED <<dirs, files, response>> /\ Len(samples') < 3
          BY <2>3, <3>1, <3>3 DEF Interrupted
        <4>2. (NoChatter' <=> NoChatter) /\ (Validate(req)' <=> Validate(req)) /\ Steps' = Steps
          BY <1>1, RequestStays
        <4>3. TypeOK'
          BY <1>1, <2>1, <4>1, <4>2 DEF TypeOK, IInv
        <4>4. FlowOK'
          BY <1>1, <4>1 DEF FlowOK, IInv
        <4>5. RunOK'
          BY <1>1, <4>1, <4>2 DEF RunOK, IInv
        <4>6. PathsOK'
          BY <1>1, <4>1, PathsKept DEF IInv, store
        <4>7. InputOK'
          BY <1>1, <4>1 DEF InputOK, IInv
        <4>8. BooksOK'
          BY <1>1, <4>1, BooksKept DEF IInv, BooksOK, store
        <4>9. DirsOK'
          BY <1>1, <4>1 DEF DirsOK, IInv
        <4>10. SamplesOK'
          <5>1. /\ \A k \in DOMAIN samples : samples[k].status = "Accepted"
                /\ samples # <<>> => ~image /\ samples[1].cpu <= Threshold
            BY <1>1, <1>7 DEF IInv, SamplesOK
          <5>2. Len(samples') <= 2 /\ \A k \in DOMAIN samples' : samples'[k].status = "Accepted"
            <6>1. Len(samples') \in Nat
              BY <2>1
            <6> QED
              BY <1>2, <2>1, <2>3, <4>1, <5>1, <6>1
          <5>3. CASE samples = <<>>
            <6>1. samples'[1] = run /\ ~image /\ ~(run.cpu > Threshold)
              BY <2>1, <2>3, <5>3
            <6>2. run.cpu \in Nat /\ Threshold \in Nat
              BY <1>2, BoundsAssumption DEF Result
            <6> QED
              BY <1>1, <5>2, <6>1, <6>2 DEF SamplesOK
          <5>4. CASE samples # <<>>
            <6>1. samples'[1] = samples[1]
              BY <1>2, <2>1, <5>4
            <6> QED
              BY <1>1, <5>1, <5>2, <5>4, <6>1 DEF SamplesOK
          <5> QED
            BY <5>3, <5>4
        <4>11. AnswerOK'
          BY <1>1, <4>1, NoAnswerYet
        <4> QED
          BY <1>4, <4>3, <4>4, <4>5, <4>6, <4>7, <4>8, <4>9, <4>10, <4>11 DEF IInv
      <3> QED
        BY <3>2, <3>3
    <2>4. CASE /\ run.status = "Accepted"
               /\ samples = <<>> => ~image /\ ~(run.cpu > Threshold)
               /\ ~(Len(samples') < 3) /\ ~ctxDone
      <3>1. Respond([AsAnswer(samples'[1]) EXCEPT !.cpu = samples'[Median].cpu,
                                                  !.selected = Median])
        BY <1>7, <2>4 DEF AfterSingle, runShortCaseMedian
      <3>2. /\ Ended /\ pc' = "done"
            /\ response' = [AsAnswer(samples'[1]) EXCEPT !.cpu = samples'[Median].cpu,
                                                         !.selected = Median]
        BY <1>5, <2>1, <3>1 DEF Respond
      <3>3. Len(samples') >= 3
        <4>1. Len(samples') \in Nat
          BY <2>1
        <4> QED
          BY <2>4, <4>1
      <3>4. response'.status = "Accepted" /\ SampledMedian'
        BY <1>1, <1>7, <2>1, <2>4, <3>2, <3>3, MedianAnswers
      <3>5. AcceptedIsEarned'
        <4>1. /\ run.right /\ run.judgeOut.whole /\ run.judgeOut.step = step /\ results = <<>>
          BY <1>1, <2>4 DEF IInv, RunOK, FlowOK, Returned, evaluateOutput
        <4>2. Steps' = 1 /\ step = 1
          BY <1>1 DEF IInv, TypeOK, Steps
        <4>3. 1..Len(results') - 1 = {}
          BY <1>1, <4>1
        <4> QED
          BY <1>1, <4>1, <4>2, <4>3 DEF AcceptedIsEarned
      <3>6. AnswerOK'
        BY <3>2, <3>4, <3>5 DEF AnswerOK
      <3> QED
        BY <1>4, <3>2, <3>6, Ends DEF IInv
    <2> QED
      BY <2>2, <2>3, <2>4
  <1> QED
    BY <1>6, <1>7

-----------------------------------------------------------------------------
(* The handoff *)

LEMMA AfterStepStep ==
    ASSUME IInv, AfterStep
    PROVE  IInv'
  <1>1. /\ pc = "after" /\ req.mode = "steps" /\ results' = Append(results, run.status)
        /\ UNCHANGED <<req, out, counted, stored, input, url, run, stdout, samples, image,
                       ctxDone>>
    BY DEF AfterStep
  <1>2. /\ run \in Result /\ run.status \in Statuses /\ results \in Seq(Statuses)
        /\ step \in 1..2 /\ Steps = 2 /\ ~Sampled(req) /\ Len(results) = step - 1
        /\ \A i \in DOMAIN results : results[i] \in Good
        /\ samples \in Seq(Result)
    BY <1>1 DEF IInv, TypeOK, FlowOK, Steps, Sampled, Result
  <1>3. /\ results' \in Seq(Statuses) /\ Len(results') = step
        /\ \A i \in 1..step : results'[i] = IF i = step THEN run.status ELSE results[i]
    BY <1>1, <1>2, AppendProperties
  <1>4. UrlOK'
    BY <1>1, UrlKept DEF IInv
  <1>5. (NoChatter' <=> NoChatter) /\ (Validate(req)' <=> Validate(req)) /\ Steps' = Steps
        /\ (Sampled(req)' <=> Sampled(req))
    BY <1>1, RequestStays
  <1>6. ASSUME pc' = "done", Close({"store", "fixture"}), UNCHANGED <<step, paths>>
        PROVE  Ended
    BY <1>1, <1>2, <1>3, <1>6 DEF Ended, IInv, TypeOK, store
  <1>7. CASE /\ Final \/ run.status # "OK"
             /\ Respond([AsAnswer(run) EXCEPT !.cpu = 0]) /\ UNCHANGED <<step, paths>>
    <2>1. Ended /\ response' = [AsAnswer(run) EXCEPT !.cpu = 0]
      BY <1>6, <1>7 DEF Respond
    <2>2. response'.status = run.status /\ response'.score = run.score
      BY <2>1 DEF AsAnswer, Answer
    <2>3. AcceptedIsEarned'
      <3> SUFFICES ASSUME run.status = "Accepted" \/ run.score = 1
                   PROVE  /\ run.right /\ run.judgeOut.whole /\ run.judgeOut.step = Steps'
                          /\ Len(results') = Steps'
                          /\ \A i \in 1..Len(results') - 1 : results'[i] \in {"OK", "Accepted"}
        BY <1>1, <2>2 DEF AcceptedIsEarned
      <3>1. Returned(run)
        BY <1>1 DEF IInv, RunOK
      <3>2. Final
        BY <1>1, <3>1 DEF Returned
      <3>3. run.right /\ run.judgeOut.whole /\ run.judgeOut.step = step /\ step = 2
        BY <1>1, <1>2, <3>1, <3>2 DEF Returned, evaluateOutput, Final
      <3>4. results'[1] = results[1] /\ 1 \in DOMAIN results
        BY <1>2, <1>3, <3>3
      <3> QED
        BY <1>2, <1>3, <1>5, <3>3, <3>4 DEF Good
    <2>4. AnswerOK'
      BY <1>2, <1>5, <2>1, <2>3 DEF AnswerOK, SampledMedian, Ended
    <2> QED
      BY <1>4, <2>1, <2>4, Ends DEF IInv
  <1>8. CASE \E a \in {Answer("RE", "handoff"), Answer("InitFail", "handoff")} :
                Respond(a) /\ UNCHANGED <<step, paths>>
    <2>1. PICK a \in {Answer("RE", "handoff"), Answer("InitFail", "handoff")} :
             Respond(a) /\ UNCHANGED <<step, paths>>
      BY <1>8
    <2>2. Ended /\ response' = a
      BY <1>6, <2>1 DEF Respond
    <2>3. a.status # "Accepted" /\ a.score # 1
      BY DEF Answer, None
    <2>4. AnswerOK'
      BY <1>2, <1>5, <2>2, <2>3, Refusal DEF Ended
    <2> QED
      BY <1>4, <2>2, <2>4, Ends DEF IInv
  <1>9. CASE /\ ~Final /\ run.status = "OK"
             /\ LET f == File("store", Handoff, run.judgeOut)
                IN  /\ files' = files \cup {f} /\ paths' = Named(Handoff, f)
                    /\ step' = step + 1 /\ pc' = "input" /\ UNCHANGED <<dirs, response>>
    <2> PICK f : f = File("store", Handoff, run.judgeOut)
      OBVIOUS
    <2>1. /\ files' = files \cup {f} /\ paths' = Named(Handoff, f)
          /\ step' = step + 1 /\ pc' = "input" /\ UNCHANGED <<dirs, response>>
      BY <1>9
    <2>2. step = 1 /\ step' = 2
      BY <1>2, <1>9, <2>1 DEF Final
    <2>3. run.judgeOut.whole /\ run.judgeOut.step = 1
      BY <1>1, <1>9, <2>2 DEF IInv, RunOK, Returned
    <2>4. DOMAIN paths' = {Handoff} /\ paths'[Handoff] = f
      <3>1. paths = <<>>
        BY <1>1, <2>2 DEF IInv, PathsOK
      <3> QED
        BY <2>1, <3>1 DEF Named
    <2>5. f \in [dir : {"store"}, name : Nat \X Int, data : DatumType] /\ f.data = run.judgeOut
          /\ f.dir = "store"
      BY <1>2 DEF File, Handoff, Result
    <2>6. TypeOK'
      BY <1>1, <1>2, <1>3, <1>5, <2>1, <2>2 DEF TypeOK, IInv
    <2>7. FlowOK'
      <3>1. \A i \in DOMAIN results' : results'[i] \in Good
        BY <1>2, <1>3, <1>9 DEF Good
      <3>2. out' = 1
        BY <1>1 DEF IInv, FlowOK
      <3> QED
        BY <1>1, <1>2, <1>3, <2>1, <2>2, <3>1, <3>2 DEF FlowOK
    <2>8. RunOK'
      BY <1>1, <1>5, <2>1 DEF RunOK, IInv
    <2>9. PathsOK'
      <3>1. paths' \in [DOMAIN paths' -> [dir : {"store"}, name : Nat \X Int, data : DatumType]]
        <4>1. paths' = [x \in DOMAIN paths' |-> paths'[x]]
          BY <2>1 DEF Named
        <4> QED
          BY <2>4, <2>5, <4>1
      <3>2. DOMAIN paths' \subseteq Nat \X Nat
        BY <2>4 DEF Handoff
      <3> QED
        BY <1>1, <2>2, <2>3, <2>4, <2>5, <3>1, <3>2 DEF PathsOK
    <2>10. InputOK'
      BY <1>1, <2>1 DEF InputOK
    <2>11. BooksOK'
      BY <1>1, <2>1, <2>4 DEF BooksOK, Range
    <2>12. DirsOK'
      BY <1>1, <2>1, <2>5 DEF DirsOK, IInv
    <2>13. SamplesOK'
      BY <1>2, <1>5 DEF SamplesOK
    <2>14. AnswerOK'
      BY <1>1, <2>1, NoAnswerYet
    <2> QED
      BY <1>4, <2>6, <2>7, <2>8, <2>9, <2>10, <2>11, <2>12, <2>13, <2>14 DEF IInv
  <1> QED
    BY <1>7, <1>8, <1>9 DEF AfterStep, Fail

-----------------------------------------------------------------------------
(* The artifacts *)

LEMMA AfterPipelineStepStep ==
    ASSUME IInv, AfterPipelineStep
    PROVE  IInv'
  <1>1. /\ pc = "after" /\ req.mode = "pipeline" /\ results' = Append(results, run.status)
        /\ UNCHANGED <<req, step, out, store, input, url, run, stdout, samples, image, ctxDone>>
    BY DEF AfterPipelineStep
  <1>2. /\ run \in Result /\ run.status \in Statuses /\ results \in Seq(Statuses)
        /\ step \in 1..Steps /\ step \in Nat /\ ~Sampled(req) /\ Len(results) = step - 1
        /\ \A i \in DOMAIN results : results[i] \in Good
        /\ samples \in Seq(Result)
    <2>1. Steps \in Nat
      BY <1>1, PipelineRules DEF IInv, TypeOK, Steps
    <2> QED
      BY <1>1, <2>1 DEF IInv, TypeOK, FlowOK, Sampled, Result
  <1>3. /\ results' \in Seq(Statuses) /\ Len(results') = step
        /\ \A i \in 1..step : results'[i] = IF i = step THEN run.status ELSE results[i]
    BY <1>1, <1>2, AppendProperties
  <1>4. UrlOK'
    BY <1>1, UrlKept DEF IInv
  <1>5. /\ (NoChatter' <=> NoChatter) /\ (Validate(req)' <=> Validate(req)) /\ Steps' = Steps
        /\ (Sampled(req)' <=> Sampled(req)) /\ Outputs' = Outputs
        /\ InteractorOutputMax' = InteractorOutputMax /\ (Returned(run)' <=> Returned(run))
    BY <1>1, RequestStays, PlanStays, ReturnedStays
  <1>6. CASE run.status \notin Good \/ run.artifactErr
    <2>1. PICK a \in {Answer(run.status, "step"), Answer("RE", "artifact")} :
             Respond(a) /\ (a = Answer(run.status, "step") => run.status \notin Good)
      <3>1. CASE run.status \notin Good
        BY <3>1 DEF AfterPipelineStep, Good
      <3>2. CASE run.status \in Good
        <4>1. Respond(Answer("RE", "artifact"))
          BY <1>6, <3>2 DEF AfterPipelineStep, Good
        <4>2. Answer("RE", "artifact") # Answer(run.status, "step")
          BY <3>2 DEF Answer
        <4> QED
          BY <4>1, <4>2
      <3> QED
        BY <3>1, <3>2
    <2>2. Ended /\ response' = a
      BY <1>1, <1>2, <1>3, <2>1 DEF Ended, IInv, TypeOK, Respond
    <2>3. a.status # "Accepted" /\ a.score # 1
      BY <2>1 DEF Answer, None, Good
    <2>4. AnswerOK'
      BY <1>2, <1>5, <2>2, <2>3, Refusal DEF Ended
    <2> QED
      BY <1>4, <2>2, <2>4, Ends DEF IInv
  <1>7. CASE run.status \in Good /\ ~run.artifactErr
    <2>1. /\ files' = {f \in files : f.name # <<step, 0>>} \cup
                        (IF InteractorOutputMax = 0 THEN {}
                         ELSE {File("store", <<step, None>>, run.emitted)})
          /\ pc' = "store" /\ UNCHANGED <<dirs, response>>
      BY <1>7 DEF AfterPipelineStep, Good
    <2>2. UNCHANGED <<step, out, paths, counted, stored, run, stdout, samples, image, ctxDone>>
      BY <1>1 DEF store
    <2>3. TypeOK'
      BY <1>1, <1>2, <1>3, <1>5, <2>1 DEF TypeOK, IInv
    <2>4. FlowOK'
      <3>1. \A i \in DOMAIN results' : results'[i] \in Good
        BY <1>2, <1>3, <1>7
      <3>2. out' = 1 /\ Len(stdout') = step - 1
        BY <1>1 DEF IInv, FlowOK
      <3>3. Len(Outputs') \in Nat
        <4>1. Outputs \in Seq([kind : {"participant_stdout",
                        "participant_file", "interactor_output"}, max : Nat])
          BY <1>1, <1>2, PipelineRules DEF IInv, TypeOK, Outputs, Steps
        <4> QED
          BY <1>5, <4>1
      <3> QED
        BY <1>1, <1>2, <1>3, <2>1, <3>1, <3>2, <3>3 DEF FlowOK
    <2>5. RunOK'
      BY <1>1, <1>5, <1>7, <2>1 DEF RunOK, IInv
    <2>6. PathsOK'
      BY <1>1, <2>1, <2>2, PathsKept DEF IInv
    <2>7. InputOK'
      BY <1>1, <2>1 DEF InputOK
    <2>8. BooksOK'
      <3>1. Range(paths) \subseteq files'
        <4>1. \A id \in DOMAIN paths : paths[id] \in files /\ paths[id].name # <<step, 0>>
          <5>1. \A id \in DOMAIN paths : paths[id] \in files /\ paths[id].name[2] # 0
            BY <1>1 DEF IInv, BooksOK, PathsOK, Range
          <5> QED
            BY <5>1
        <4> QED
          BY <2>1, <4>1 DEF Range
      <3>2. Bytes(counted)' = Bytes(counted)
        BY <2>2 DEF Bytes
      <3>3. InteractorOutputMax # 0 => File("store", <<step, None>>, run.emitted) \in files'
        BY <2>1
      <3> QED
        BY <1>1, <1>5, <2>1, <2>2, <3>1, <3>2, <3>3 DEF BooksOK, IInv
    <2>9. DirsOK'
      <3>1. File("store", <<step, None>>, run.emitted).dir = "store"
        BY DEF File
      <3> QED
        BY <1>1, <2>1, <3>1 DEF DirsOK, IInv
    <2>10. SamplesOK'
      BY <1>2, <1>5 DEF SamplesOK
    <2>11. AnswerOK'
      BY <1>1, <2>1, NoAnswerYet
    <2> QED
      BY <1>4, <2>3, <2>4, <2>5, <2>6, <2>7, <2>8, <2>9, <2>10, <2>11 DEF IInv
  <1> QED
    BY <1>6, <1>7

LEMMA OwnBytes ==
    ASSUME NEW f, NEW n \in Nat
    PROVE  IsFiniteSet({f} \X (1 .. n)) /\ Cardinality({f} \X (1 .. n)) = n
  <1>1. IsFiniteSet(1 .. n) /\ Cardinality(1 .. n) = n
    BY FS_Interval
  <1>2. IsFiniteSet({f}) /\ Cardinality({f}) = 1
    BY FS_Singleton
  <1> QED
    BY <1>1, <1>2, FS_Product

\* One more file costs its bytes.
LEMMA OneMoreFile ==
    ASSUME NEW fs, NEW f, f \notin fs, IsFiniteSet(Bytes(fs)), f.data.len \in Nat
    PROVE  /\ IsFiniteSet(Bytes(fs \cup {f}))
           /\ Cardinality(Bytes(fs \cup {f})) = Cardinality(Bytes(fs)) + f.data.len
  <1> PICK n \in Nat : n = f.data.len
    OBVIOUS
  <1> DEFINE own == {f} \X (1..n)
  <1>1. IsFiniteSet(own) /\ Cardinality(own) = n
    BY OwnBytes
  <1>2. Bytes(fs \cup {f}) = Bytes(fs) \cup own
    BY DEF Bytes
  <1>3. Bytes(fs) \cap own = {}
    BY DEF Bytes
  <1> PICK B : B = Bytes(fs)
    OBVIOUS
  <1> HIDE DEF own
  <1>4. /\ IsFiniteSet(B \cup own)
        /\ Cardinality(B \cup own) = Cardinality(B) + Cardinality(own) - Cardinality(B \cap own)
    BY <1>1, FS_Union
  <1>5. Cardinality(B \cap own) = 0 /\ Cardinality(B) \in Nat
    BY <1>3, FS_EmptySet, FS_CardinalityType
  <1>6. Cardinality(B \cup own) = Cardinality(B) + n
    BY ONLY <1>1, <1>4, <1>5, n \in Nat
  <1> QED
    BY <1>2, <1>4, <1>6

\* What is stored for an output of a step that succeeded: a whole file of the output's
\* kind, on disk and counted.
LEMMA PutFacts ==
    ASSUME IInv, StoreOutput, Put(Outputs[out])
    PROVE  \E f \in [dir : {"store"}, name : Nat \X Int, data : DatumType] :
              /\ f.name[2] # 0 /\ f.data.step = step /\ f.data.kind = Outputs[out].kind
              /\ NoChatter => f.data.whole
              /\ Counts(f) /\ paths' = Named(<<step, out>>, f)
              /\ f \in files' /\ files \subseteq files' /\ files' \subseteq files \cup {f}
  <1>1. pc = "store" /\ out <= Len(Outputs)
    BY DEF StoreOutput
  <1>2. /\ req.mode = "pipeline" /\ step \in DOMAIN req.steps /\ step \in Nat
        /\ out \in Nat \ {0} /\ run \in Result
    <2>1. req.mode = "pipeline"
      BY <1>1, Modes DEF IInv, TypeOK, FlowOK
    <2>2. step \in DOMAIN req.steps /\ step \in Nat
      BY <2>1, PipelineRules DEF IInv, TypeOK, Steps
    <2> QED
      BY <2>1, <2>2 DEF IInv, TypeOK
  <1>3. /\ Outputs = req.steps[step].outputs
        /\ Outputs \in Seq([kind : {"participant_stdout",
                        "participant_file", "interactor_output"}, max : Nat])
        /\ out \in DOMAIN Outputs
    <2>1. Outputs = req.steps[step].outputs
      BY <1>2 DEF Outputs
    <2>2. Outputs \in Seq([kind : {"participant_stdout",
                        "participant_file", "interactor_output"}, max : Nat])
      BY <1>2, <2>1, PipelineRules DEF IInv, TypeOK
    <2> QED
      BY <1>1, <1>2, <2>1, <2>2
  <1> PICK o : o = Outputs[out]
    OBVIOUS
  <1>4. /\ o.kind \in {"participant_stdout", "participant_file", "interactor_output"}
        /\ o \in OutputsOf(o.kind)
    <2>1. o \in [kind : {"participant_stdout", "participant_file", "interactor_output"},
                 max : Nat]
      <3> DEFINE Shape == [kind : {"participant_stdout", "participant_file",
                                   "interactor_output"}, max : Nat]
      <3>1. Outputs \in Seq(Shape) /\ out \in DOMAIN Outputs
        BY <1>3
      <3> HIDE DEF Shape
      <3>2. Outputs[out] \in Shape
        BY <3>1
      <3> QED
        BY <3>2 DEF Shape
    <2>2. o \in Range(Outputs)
      BY <1>3 DEF Range
    <2> QED
      BY <2>1, <2>2 DEF OutputsOf
  <1>5. /\ Returned(run) /\ run.status \in Good /\ ~run.artifactErr
        /\ run.stdout \in DatumType /\ run.file \in DatumType /\ run.emitted \in DatumType
    BY <1>1, <1>2 DEF IInv, RunOK, Result
  <1>6. /\ NoChatter => run.stdout.whole
        /\ run.stdout.step = step /\ run.stdout.kind = "participant_stdout"
        /\ WantsFile =>
              run.file.whole /\ run.file.step = step /\ run.file.kind = "participant_file"
        /\ Interactive =>
              run.emitted.whole /\ run.emitted.step = step
              /\ run.emitted.kind = "interactor_output"
    BY <1>2, <1>5 DEF Returned
  <1>7. CASE o.kind = "interactor_output"
    <2> PICK f : f = File("store", <<step, None>>, run.emitted)
      OBVIOUS
    <2>1. Counts(f) /\ paths' = Named(<<step, out>>, f) /\ files' = files
      BY <1>7 DEF Put, putPath
    <2>2. Interactive /\ InteractorOutputMax # 0
      BY <1>4, <1>7, Limits DEF IInv
    <2>3. f \in files
      BY <1>1, <2>2 DEF IInv, BooksOK
    <2>4. /\ f \in [dir : {"store"}, name : Nat \X Int, data : DatumType]
          /\ f.name[2] # 0 /\ f.data = run.emitted
      BY <1>2, <1>5 DEF File, None
    <2> QED
      BY <1>6, <1>7, <2>1, <2>2, <2>3, <2>4
  <1>8. CASE o.kind # "interactor_output"
    <2> PICK d : d = IF o.kind = "participant_file" THEN run.file ELSE run.stdout
      OBVIOUS
    <2> PICK f : f = File("store", <<step, out>>, d)
      OBVIOUS
    <2>1. Counts(f) /\ paths' = Named(<<step, out>>, f) /\ files' = files \cup {f}
      BY <1>8 DEF Put, put
    <2>2. o.kind = "participant_file" => WantsFile
      BY <1>2, <1>4 DEF WantsFile
    <2>3. d \in DatumType /\ d.step = step /\ d.kind = o.kind /\ (NoChatter => d.whole)
      BY <1>4, <1>5, <1>6, <1>8, <2>2
    <2>4. /\ f \in [dir : {"store"}, name : Nat \X Int, data : DatumType]
          /\ f.name[2] # 0 /\ f.data = d
      BY <1>2, <2>3 DEF File
    <2> QED
      BY <1>8, <2>1, <2>3, <2>4
  <1> QED
    BY <1>7, <1>8

LEMMA StoreOutputStep ==
    ASSUME IInv, StoreOutput
    PROVE  IInv'
  <1>1. /\ pc = "store" /\ out <= Len(Outputs)
        /\ UNCHANGED <<req, step, input, url, run, stdout, results, samples, image, ctxDone>>
    BY DEF StoreOutput
  <1>2. /\ req.mode = "pipeline" /\ step \in DOMAIN req.steps /\ step \in Nat /\ ~Sampled(req)
        /\ out \in Nat \ {0}
    <2>1. req.mode = "pipeline"
      BY <1>1, Modes DEF IInv, TypeOK, FlowOK
    <2>2. step \in DOMAIN req.steps /\ step \in Nat
      BY <2>1, PipelineRules DEF IInv, TypeOK, Steps
    <2> QED
      BY <2>1, <2>2 DEF IInv, TypeOK, Sampled
  <1>3. UrlOK'
    BY <1>1, UrlKept DEF IInv
  <1>4. /\ (NoChatter' <=> NoChatter) /\ (Validate(req)' <=> Validate(req)) /\ Steps' = Steps
        /\ (Sampled(req)' <=> Sampled(req)) /\ Outputs' = Outputs
        /\ InteractorOutputMax' = InteractorOutputMax /\ (Returned(run)' <=> Returned(run))
    BY <1>1, RequestStays, PlanStays, ReturnedStays
  <1>5. CASE Respond(Answer("RE", "artifact")) /\ UNCHANGED <<store, out>>
    <2>1. Ended /\ response' = Answer("RE", "artifact")
      BY <1>1, <1>5 DEF Ended, IInv, TypeOK, Respond
    <2>2. Answer("RE", "artifact").status # "Accepted" /\ Answer("RE", "artifact").score # 1
      BY DEF Answer, None
    <2>3. AnswerOK'
      BY <1>2, <1>4, <2>1, <2>2, Refusal DEF Ended
    <2> QED
      BY <1>3, <2>1, <2>3, Ends DEF IInv
  <1>6. CASE Put(Outputs[out]) /\ out' = out + 1 /\ UNCHANGED <<pc, dirs, response>>
    <2>1. PICK f \in [dir : {"store"}, name : Nat \X Int, data : DatumType] :
              /\ f.name[2] # 0 /\ f.data.step = step /\ f.data.kind = Outputs[out].kind
              /\ NoChatter => f.data.whole
              /\ Counts(f) /\ paths' = Named(<<step, out>>, f)
              /\ f \in files' /\ files \subseteq files' /\ files' \subseteq files \cup {f}
      BY <1>6, PutFacts
    <2> PICK id : id = <<step, out>>
      OBVIOUS
    <2>2. /\ Outputs = req.steps[step].outputs /\ Len(Outputs) \in Nat
          /\ DOMAIN Outputs = 1..Len(Outputs)
      <3>1. Outputs = req.steps[step].outputs
        BY <1>2 DEF Outputs
      <3>2. Outputs \in Seq([kind : {"participant_stdout",
                        "participant_file", "interactor_output"}, max : Nat])
        BY <1>2, <3>1, PipelineRules DEF IInv, TypeOK
      <3> QED
        BY <3>1, <3>2
    <2>3. out \in DOMAIN req.steps[step].outputs
      BY <1>1, <1>2, <2>2
    <2>4. id \notin DOMAIN paths
      <3>1. ~Past(id)
        BY <1>2 DEF Past
      <3> QED
        BY <1>1, <1>2, <3>1 DEF IInv, PathsOK
    <2>5. /\ DOMAIN paths' = DOMAIN paths \cup {id} /\ paths'[id] = f
          /\ \A x \in DOMAIN paths : paths'[x] = paths[x]
          /\ paths' = [x \in DOMAIN paths' |-> paths'[x]]
      BY <2>1, <2>4 DEF Named
    <2>6. Range(paths') = Range(paths) \cup {f}
      BY <2>5 DEF Range
    <2>7. TypeOK'
      BY <1>1, <1>2, <1>4, <1>6 DEF TypeOK, IInv
    <2>8. FlowOK'
      <3>1. out' <= Len(Outputs') + 1
        BY <1>1, <1>2, <1>4, <1>6, <2>2
      <3> QED
        BY <1>1, <1>2, <1>4, <1>6, <3>1 DEF FlowOK, IInv
    <2>9. RunOK'
      BY <1>1, <1>4, <1>6 DEF RunOK, IInv
    <2>10. PathsOK'
      <3>1. paths' \in [DOMAIN paths' -> [dir : {"store"}, name : Nat \X Int, data : DatumType]]
        <4>1. \A x \in DOMAIN paths' : paths'[x] \in
                [dir : {"store"}, name : Nat \X Int, data : DatumType]
          <5> DEFINE Shape == [dir : {"store"}, name : Nat \X Int, data : DatumType]
          <5>1. f \in Shape
            OBVIOUS
          <5>2. paths \in [DOMAIN paths -> Shape]
            BY DEF IInv, PathsOK
          <5> HIDE DEF Shape
          <5>3. \A x \in DOMAIN paths' : paths'[x] \in Shape
            BY <2>5, <5>1, <5>2
          <5> QED
            BY <5>3 DEF Shape
        <4> QED
          BY <2>5, <4>1
      <3>2. DOMAIN paths' \subseteq Nat \X Nat
        <4>1. id \in Nat \X Nat
          BY <1>2
        <4> QED
          BY <2>5, <4>1 DEF IInv, PathsOK
      <3>3. \A x : Past(x)' <=> x[1] < step \/ (x[1] = step /\ x[2] < out + 1)
        BY <1>1, <1>6 DEF Past
      <3>4. ASSUME NEW x \in DOMAIN paths'
            PROVE  /\ x[1] \in DOMAIN req.steps /\ x[2] \in DOMAIN req.steps[x[1]].outputs
                   /\ Past(x)'
                   /\ NoChatter => paths'[x].data.whole
                   /\ paths'[x].data.step = x[1]
                   /\ paths'[x].data.kind = req.steps[x[1]].outputs[x[2]].kind
                   /\ paths'[x].name[2] # 0
        <4>1. CASE x = id
          <5>1. x[1] = step /\ x[2] = out /\ paths'[x] = f
            BY <2>5, <4>1
          <5>2. out < out + 1
            BY <1>2
          <5> QED
            BY <1>2, <2>1, <2>2, <2>3, <3>3, <5>1, <5>2
        <4>2. CASE x # id
          <5>1. x \in DOMAIN paths /\ paths'[x] = paths[x]
            BY <2>5, <4>2
          <5>2. /\ x[1] \in DOMAIN req.steps /\ x[2] \in DOMAIN req.steps[x[1]].outputs
                /\ Past(x)
                /\ NoChatter => paths[x].data.whole
                /\ paths[x].data.step = x[1]
                /\ paths[x].data.kind = req.steps[x[1]].outputs[x[2]].kind
                /\ paths[x].name[2] # 0
            BY <1>1, <1>2, <5>1 DEF IInv, PathsOK
          <5>3. Past(x)'
            <6>1. x[2] \in Nat
              BY <5>1 DEF IInv, PathsOK
            <6> QED
              BY <1>2, <3>3, <5>2, <6>1 DEF Past
          <5> QED
            BY <5>1, <5>2, <5>3
        <4> QED
          BY <4>1, <4>2
      <3>5. ASSUME NEW i \in DOMAIN req.steps, NEW j \in DOMAIN req.steps[i].outputs,
                   Past(<<i, j>>)'
            PROVE  <<i, j>> \in DOMAIN paths'
        <4>1. i \in Nat /\ j \in Nat
          <5>1. /\ DOMAIN req.steps \subseteq Nat
                /\ req.steps[i].outputs \in Seq([kind : {"participant_stdout",
                        "participant_file", "interactor_output"}, max : Nat])
            BY <1>2, PipelineRules, SMTT(30) DEF IInv, TypeOK
          <5> QED
            BY <5>1
        <4>2. Past(<<i, j>>) \/ (i = step /\ j = out)
          <5>1. i < step \/ (i = step /\ j < out + 1)
            <6> PICK x : x = <<i, j>>
              OBVIOUS
            <6>1. Past(x)' /\ x[1] = i /\ x[2] = j
              BY <3>5
            <6> QED
              BY <3>3, <6>1
          <5>2. i < step \/ (i = step /\ (j < out \/ j = out))
            BY <1>2, <4>1, <5>1
          <5> QED
            BY <5>2 DEF Past
        <4>3. CASE Past(<<i, j>>)
          BY <1>1, <1>2, <2>5, <4>3 DEF IInv, PathsOK
        <4>4. CASE i = step /\ j = out
          BY <2>5, <4>4
        <4> QED
          BY <4>2, <4>3, <4>4
      <3> QED
        BY <1>1, <1>2, <1>4, <3>1, <3>2, <3>4, <3>5 DEF PathsOK
    <2>11. InputOK'
      BY <1>1, <1>2, <1>6 DEF InputOK
    <2>12. BooksOK'
      <3>1. counted = Range(paths) /\ IsFiniteSet(Bytes(counted))
            /\ stored = Cardinality(Bytes(counted)) /\ stored <= TotalBytes
            /\ Range(paths) \subseteq files
        BY <1>1, <1>2 DEF IInv, BooksOK
      <3>2. /\ stored' = stored + (IF f \in counted THEN 0 ELSE f.data.len)
            /\ f \in counted \/ stored' <= TotalBytes
            /\ counted' = counted \cup {f}
        BY <2>1 DEF Counts
      <3>3. IsFiniteSet(Bytes(counted')) /\ stored' = Cardinality(Bytes(counted'))
            /\ stored' <= TotalBytes
        <4>1. stored \in Nat /\ f.data.len \in Nat
          BY <2>1, <3>1, FS_CardinalityType DEF DatumType
        <4>2. CASE f \in counted
          <5>1. counted' = counted /\ stored' = stored
            BY <3>2, <4>1, <4>2
          <5> QED
            BY <3>1, <5>1
        <4>3. CASE f \notin counted
          <5> PICK fs : fs = counted
            OBVIOUS
          <5>1. f \notin fs /\ IsFiniteSet(Bytes(fs)) /\ f.data.len \in Nat
            BY <3>1, <4>1, <4>3
          <5>2. /\ IsFiniteSet(Bytes(fs \cup {f}))
                /\ Cardinality(Bytes(fs \cup {f})) = Cardinality(Bytes(fs)) + f.data.len
            BY ONLY <5>1, OneMoreFile
          <5> QED
            BY <3>1, <3>2, <4>3, <5>2
        <4> QED
          BY <4>2, <4>3
      <3>4. Bytes(counted)' = Bytes(counted')
        BY DEF Bytes
      <3>5. InteractorOutputMax # 0 => File("store", <<step, None>>, run.emitted) \in files'
        BY <1>1, <2>1 DEF IInv, BooksOK
      <3> QED
        BY <1>1, <1>4, <2>1, <2>6, <3>1, <3>2, <3>3, <3>4, <3>5 DEF BooksOK
    <2>13. DirsOK'
      BY <1>1, <1>6, <2>1 DEF DirsOK, IInv
    <2>14. SamplesOK'
      BY <1>2, <1>4 DEF SamplesOK
    <2>15. AnswerOK'
      BY <1>1, <1>6, NoAnswerYet
    <2> QED
      BY <1>3, <2>7, <2>8, <2>9, <2>10, <2>11, <2>12, <2>13, <2>14, <2>15 DEF IInv
  <1> QED
    BY <1>5, <1>6 DEF StoreOutput

LEMMA NextStepStep ==
    ASSUME IInv, NextStep
    PROVE  IInv'
  <1>1. /\ pc = "store" /\ out > Len(Outputs)
        /\ stdout' = Append(stdout, run.stdout) /\ out' = 1
        /\ UNCHANGED <<req, dirs, files, paths, counted, stored, input, url, run, results,
                       samples, image, ctxDone, response>>
        /\ \/ Final /\ pc' = "final" /\ step' = step
           \/ ~Final /\ pc' = "input" /\ step' = step + 1
    BY DEF NextStep, store
  <1>2. /\ req.mode = "pipeline" /\ step \in DOMAIN req.steps /\ step \in Nat /\ ~Sampled(req)
        /\ step \in 1..Steps /\ Steps \in Nat
        /\ stdout \in Seq(DatumType) /\ run \in Result /\ run.stdout \in DatumType
        /\ Len(stdout) = step - 1 /\ Len(results) = step
    <2>1. req.mode = "pipeline"
      BY <1>1, Modes DEF IInv, TypeOK, FlowOK
    <2>2. step \in DOMAIN req.steps /\ step \in Nat /\ Steps \in Nat
      BY <2>1, PipelineRules DEF IInv, TypeOK, Steps
    <2> QED
      BY <1>1, <2>1, <2>2 DEF IInv, TypeOK, FlowOK, Sampled, Result
  <1>3. /\ (NoChatter' <=> NoChatter) /\ (Validate(req)' <=> Validate(req)) /\ Steps' = Steps
        /\ (Sampled(req)' <=> Sampled(req))
    BY <1>1, RequestStays
  <1>4. /\ stdout' \in Seq(DatumType) /\ Len(stdout') = step /\ DOMAIN stdout' = 1..step
        /\ \A i \in 1..step : stdout'[i] = IF i = step THEN run.stdout ELSE stdout[i]
    BY <1>1, <1>2, AppendProperties
  <1>5. TypeOK'
    <2>1. step' \in 1..Steps
      BY <1>1, <1>2 DEF Final
    <2> QED
      BY <1>1, <1>3, <1>4, <2>1 DEF TypeOK, IInv
  <1>6. FlowOK'
    <2>1. pc' = "final" => step' = Steps
      BY <1>1 DEF Final
    <2>2. pc' = "final" => Len(results') = step' /\ Len(stdout') = step'
      BY <1>1, <1>2, <1>4
    <2>3. pc' = "input" => Len(results') = step' - 1 /\ Len(stdout') = step' - 1
      BY <1>1, <1>2, <1>4
    <2>4. \A i \in DOMAIN results' : results'[i] \in Good
      BY <1>1, <1>2 DEF IInv, FlowOK
    <2> QED
      BY <1>1, <1>2, <1>3, <2>1, <2>2, <2>3, <2>4 DEF FlowOK
  <1>7. RunOK'
    <2>1. run.stdout.step = step /\ (NoChatter => run.stdout.whole)
      BY <1>1, <1>2 DEF IInv, RunOK, Returned
    <2>2. \A i \in DOMAIN stdout : stdout[i].step = i /\ (NoChatter => stdout[i].whole)
      BY <1>1 DEF IInv, RunOK
    <2>3. \A i \in DOMAIN stdout' : stdout'[i].step = i /\ (NoChatter => stdout'[i].whole)
      <3> TAKE i \in DOMAIN stdout'
      <3>1. CASE i = step
        BY <1>4, <2>1, <3>1
      <3>2. CASE i # step
        <4>1. i \in DOMAIN stdout /\ stdout'[i] = stdout[i]
          BY <1>2, <1>4, <3>2
        <4> QED
          BY <2>2, <4>1
      <3> QED
        BY <3>1, <3>2
    <2> QED
      BY <1>1, <1>3, <2>3 DEF RunOK
  <1>8. PathsOK'
    <2>1. ASSUME NEW x \in DOMAIN paths
          PROVE  /\ x[1] \in DOMAIN req.steps /\ x[2] \in DOMAIN req.steps[x[1]].outputs
                 /\ pc' \notin {"final", "done"} => Past(x)'
                 /\ NoChatter => paths[x].data.whole
                 /\ paths[x].data.step = x[1]
                 /\ paths[x].data.kind = req.steps[x[1]].outputs[x[2]].kind
                 /\ paths[x].name[2] # 0
      <3>1. /\ x[1] \in DOMAIN req.steps /\ x[2] \in DOMAIN req.steps[x[1]].outputs
            /\ Past(x) /\ x[1] \in Nat /\ x[2] \in Nat
            /\ NoChatter => paths[x].data.whole
            /\ paths[x].data.step = x[1]
            /\ paths[x].data.kind = req.steps[x[1]].outputs[x[2]].kind
            /\ paths[x].name[2] # 0
        BY <1>1, <1>2 DEF IInv, PathsOK
      <3>2. ASSUME pc' = "input" PROVE Past(x)'
        <4>1. step' = step + 1
          BY <1>1, <3>2
        <4> QED
          BY <1>2, <3>1, <4>1 DEF Past
      <3> QED
        BY <1>1, <3>1, <3>2
    <2>2. ASSUME NEW i \in DOMAIN req.steps, NEW j \in DOMAIN req.steps[i].outputs,
                 pc' = "input", Past(<<i, j>>)'
          PROVE  <<i, j>> \in DOMAIN paths
      <3>1. i \in Nat /\ j \in Nat /\ DOMAIN req.steps[i].outputs = 1..Len(req.steps[i].outputs)
            /\ Len(req.steps[i].outputs) \in Nat
        <4>1. /\ DOMAIN req.steps \subseteq Nat
              /\ req.steps[i].outputs \in Seq([kind : {"participant_stdout",
                      "participant_file", "interactor_output"}, max : Nat])
          BY <1>2, PipelineRules DEF IInv, TypeOK
        <4> QED
          BY <4>1
      <3>2. i < step + 1 \/ (i = step + 1 /\ j < 1)
        <4>1. step' = step + 1 /\ out' = 1
          BY <1>1, <2>2
        <4> PICK x : x = <<i, j>>
          OBVIOUS
        <4>2. Past(x)' /\ x[1] = i /\ x[2] = j
          BY <2>2
        <4> QED
          BY <4>1, <4>2 DEF Past
      <3>3. i < step \/ i = step
        BY <1>2, <3>1, <3>2
      <3>4. i = step => j < out
        <4>1. i = step => req.steps[i].outputs = Outputs
          BY <1>2 DEF Outputs
        <4>2. out \in Nat
          BY DEF IInv, TypeOK
        <4> QED
          BY <1>1, <3>1, <4>1, <4>2
      <3>5. Past(<<i, j>>)
        BY <3>3, <3>4 DEF Past
      <3> QED
        BY <1>1, <1>2, <3>5 DEF IInv, PathsOK
    <2> QED
      BY <1>1, <1>2, <1>3, <2>1, <2>2 DEF IInv, PathsOK
  <1>9. InputOK'
    BY <1>1, <1>2 DEF InputOK
  <1>10. BooksOK'
    BY <1>1, <1>2 DEF BooksOK, IInv, Bytes
  <1>11. UrlOK'
    BY <1>1, UrlKept DEF IInv
  <1>12. DirsOK'
    BY <1>1 DEF DirsOK, IInv
  <1>13. SamplesOK'
    BY <1>2, <1>3 DEF SamplesOK
  <1>14. AnswerOK'
    BY <1>1, NoAnswerYet
  <1> QED
    BY <1>5, <1>6, <1>7, <1>8, <1>9, <1>10, <1>11, <1>12, <1>13, <1>14 DEF IInv

LEMMA FinalJudgeStep ==
    ASSUME IInv, runPipelineFinalJudge
    PROVE  IInv'
  <1>1. /\ pc = "final"
        /\ UNCHANGED <<req, step, out, store, input, url, stdout, results, samples, image,
                       ctxDone>>
    BY DEF runPipelineFinalJudge
  <1>2. /\ req.mode = "pipeline" /\ ~Sampled(req) /\ step = Steps /\ Steps \in Nat \ {0}
        /\ stdout \in Seq(DatumType) /\ run \in Result /\ Len(stdout) = Steps
        /\ Len(results) = Steps /\ \A i \in DOMAIN results : results[i] \in Good
        /\ results \in Seq(Statuses)
    <2>1. req.mode = "pipeline"
      BY <1>1, Modes DEF IInv, TypeOK, FlowOK
    <2>2. Steps \in Nat \ {0}
      BY <2>1, PipelineRules DEF IInv, TypeOK, Steps
    <2> QED
      BY <1>1, <2>1, <2>2 DEF IInv, TypeOK, FlowOK, Sampled
  <1>3. /\ stdout[Steps] \in DatumType /\ stdout[Steps].step = Steps
        /\ NoChatter => stdout[Steps].whole
    <2>1. Steps \in DOMAIN stdout
      BY <1>2
    <2> QED
      BY <1>1, <1>2, <2>1 DEF IInv, RunOK
  <1>4. /\ (NoChatter' <=> NoChatter) /\ Steps' = Steps /\ (Sampled(req)' <=> Sampled(req))
    BY <1>1, RequestStays
  <1>5. PICK right \in BOOLEAN : \E a \in {Answer(IF right THEN "Accepted" ELSE "WA", "final"),
                     Answer("RE", "final:spj"), Answer("InitFail", "final:spj")} :
           Respond(a) /\ run' = [run EXCEPT !.judgeOut = stdout[Steps], !.right = right]
    BY DEF runPipelineFinalJudge, Fail
  <1> PICK a \in {Answer(IF right THEN "Accepted" ELSE "WA", "final"),
                  Answer("RE", "final:spj"), Answer("InitFail", "final:spj")} :
           Respond(a) /\ run' = [run EXCEPT !.judgeOut = stdout[Steps], !.right = right]
    BY <1>5
  <1>6. /\ run' \in Result /\ run'.judgeOut = stdout[Steps] /\ run'.right = right
    BY <1>2, <1>3 DEF Result
  <1>7. Ended /\ response' = a
    BY <1>1, <1>2, <1>6 DEF Ended, IInv, TypeOK, Respond
  <1>8. a.score # 1 /\ (a.status = "Accepted" => right)
    BY DEF Answer, None
  <1>9. NoChatter => AcceptedIsEarned'
    <2> SUFFICES ASSUME NoChatter, right
                 PROVE  /\ run'.right /\ run'.judgeOut.whole /\ run'.judgeOut.step = Steps
                        /\ Len(results) = Steps
                        /\ \A i \in 1..Len(results) - 1 : results[i] \in {"OK", "Accepted"}
      BY <1>1, <1>4, <1>7, <1>8 DEF AcceptedIsEarned
    <2>1. \A i \in 1..Len(results) - 1 : i \in DOMAIN results
      BY <1>2
    <2> QED
      BY <1>2, <1>3, <1>6, <2>1 DEF Good
  <1>10. AnswerOK'
    BY <1>2, <1>4, <1>7, <1>9 DEF AnswerOK, SampledMedian, Ended
  <1>11. UrlOK'
    BY <1>1, UrlKept DEF IInv
  <1> QED
    BY <1>7, <1>10, <1>11, Ends DEF IInv

LEMMA StutterStep ==
    ASSUME IInv, UNCHANGED vars
    PROVE  IInv'
  <1>1. UNCHANGED <<req, pc, step, out, dirs, files, paths, counted, stored, input, urlLeft,
                    urlSpent, run, stdout, results, samples, image, ctxDone, response>>
    BY DEF vars, store, url
  <1>2. /\ (NoChatter' <=> NoChatter) /\ (Validate(req)' <=> Validate(req)) /\ Steps' = Steps
        /\ (Sampled(req)' <=> Sampled(req)) /\ Outputs' = Outputs
        /\ InteractorOutputMax' = InteractorOutputMax /\ (Returned(run)' <=> Returned(run))
    BY <1>1, RequestStays, PlanStays, ReturnedStays
  <1>3. TypeOK'
    BY <1>1, <1>2 DEF TypeOK, IInv
  <1>4. FlowOK'
    BY <1>1, <1>2 DEF FlowOK, IInv
  <1>5. RunOK'
    BY <1>1, <1>2 DEF RunOK, IInv
  <1>6. PathsOK'
    BY <1>1, <1>2 DEF PathsOK, IInv, Past
  <1>7. InputOK'
    BY <1>1, <1>2 DEF InputOK, InputGood, IInv
  <1>8. BooksOK'
    BY <1>1, <1>2 DEF BooksOK, IInv, Bytes
  <1>9. UrlOK' /\ DirsOK'
    BY <1>1 DEF UrlOK, DirsOK, IInv
  <1>10. SamplesOK'
    BY <1>1, <1>2 DEF SamplesOK, IInv
  <1>11. AnswerOK'
    <2>1. AcceptedIsEarned' <=> AcceptedIsEarned
      BY <1>1, <1>2 DEF AcceptedIsEarned
    <2>2. SampledMedian' <=> SampledMedian
      BY <1>1, <1>2 DEF SampledMedian
    <2> QED
      BY <1>1, <1>2, <2>1, <2>2 DEF AnswerOK, IInv
  <1> QED
    BY <1>3, <1>4, <1>5, <1>6, <1>7, <1>8, <1>9, <1>10, <1>11 DEF IInv

-----------------------------------------------------------------------------
(* The theorems *)

LEMMA InitIInv == Init => IInv
  <1> SUFFICES ASSUME Init PROVE IInv
    OBVIOUS
  <1>0. /\ req \in Request /\ Validate(req)
        /\ pc = "start" /\ step = 1 /\ out = 1 /\ dirs = {} /\ files = {}
        /\ paths = <<>> /\ counted = {} /\ stored = 0
        /\ input = <<>> /\ urlLeft = UrlTime /\ urlSpent = 0
        /\ run = Res("none", "none") /\ stdout = <<>> /\ results = <<>>
        /\ samples = <<>> /\ image = FALSE /\ ctxDone = FALSE
        /\ response = Answer("none", "none")
    BY DEF Init
  <1>1. Res("none", "none") \in Result
    BY ResIsResult DEF Statuses, Sources
  <1>2. 1 \in 1..Steps
    <2>1. CASE req.mode = "single"
      BY <1>0, <2>1 DEF Steps
    <2>2. CASE req.mode = "steps"
      BY <1>0, <2>2 DEF Steps
    <2>3. CASE req.mode = "pipeline"
      BY <1>0, <2>3, PipelineRules DEF Steps
    <2> QED
      BY <1>0, <2>1, <2>2, <2>3, Modes
  <1>3. TypeOK
    <2>1. /\ samples \in Seq(Result) /\ stdout \in Seq(DatumType) /\ results \in Seq(Statuses)
      BY <1>0
    <2>2. image \in BOOLEAN /\ ctxDone \in BOOLEAN
      BY <1>0, Zenon
    <2>3. step \in 1..Steps /\ run \in Result
      BY <1>0, <1>1, <1>2
    <2>4. out \in Nat \ {0}
      BY <1>0
    <2> QED
      BY <1>0, <2>1, <2>2, <2>3, <2>4 DEF TypeOK
  <1>4. FlowOK
    BY <1>0 DEF FlowOK
  <1>5. RunOK
    BY <1>0 DEF RunOK
  <1>6. PathsOK
    <2>1. DOMAIN paths = {}
      BY <1>0
    <2>2. ASSUME req.mode = "pipeline"
          PROVE  \A i \in DOMAIN req.steps : \A j \in DOMAIN req.steps[i].outputs :
                    ~Past(<<i, j>>)
      <3> TAKE i \in DOMAIN req.steps
      <3> TAKE j \in DOMAIN req.steps[i].outputs
      <3>1. /\ DOMAIN req.steps = 1..Len(req.steps)
            /\ req.steps[i].outputs \in Seq([kind : {"participant_stdout",
                      "participant_file", "interactor_output"}, max : Nat])
        BY <1>0, <2>2, PipelineRules
      <3>2. i \in Nat \ {0} /\ j \in Nat \ {0}
        BY <1>0, <3>1
      <3> QED
        BY <1>0, <3>2 DEF Past
    <2> QED
      BY <1>0, <2>1, <2>2 DEF PathsOK
  <1>7. InputOK
    BY <1>0 DEF InputOK
  <1>8. BooksOK
    <2>1. Range(paths) = {} /\ Bytes({}) = {}
      BY <1>0 DEF Range, Bytes
    <2>2. TotalBytes \in Nat
      BY <1>0, BoundsAssumption
    <2> QED
      BY <1>0, <2>1, <2>2, FS_EmptySet DEF BooksOK
  <1>9. UrlOK
    BY <1>0, BoundsAssumption DEF UrlOK
  <1>10. DirsOK /\ SamplesOK
    BY <1>0 DEF DirsOK, SamplesOK
  <1>11. AnswerOK
    BY <1>0 DEF AnswerOK, AcceptedIsEarned, SampledMedian, Answer, None
  <1> QED
    BY <1>3, <1>4, <1>5, <1>6, <1>7, <1>8, <1>9, <1>10, <1>11 DEF IInv

\* Service.Run keeps the order of its steps, what a run's result means, the books of
\* its store and of its downloads, and what it answered, for every request that
\* validation lets through.
THEOREM Inductive == Spec => []IInv
  <1>1. ASSUME IInv, [Next]_vars PROVE IInv'
    <2> USE <1>1
    <2>1. CASE Start
      BY <2>1, StartStep
    <2>2. CASE Freeze
      BY <2>2, FreezeStep
    <2>3. CASE PrepareInput
      BY <2>3, PrepareInputStep
    <2>4. CASE Open
      BY <2>4, OpenStep
    <2>5. CASE Execute
      BY <2>5, ExecuteStep
    <2>6. CASE AfterSingle
      BY <2>6, AfterSingleStep
    <2>7. CASE AfterStep
      BY <2>7, AfterStepStep
    <2>8. CASE AfterPipelineStep
      BY <2>8, AfterPipelineStepStep
    <2>9. CASE StoreOutput
      BY <2>9, StoreOutputStep
    <2>10. CASE NextStep
      BY <2>10, NextStepStep
    <2>11. CASE runPipelineFinalJudge
      BY <2>11, FinalJudgeStep
    <2>12. CASE Cancel
      BY <2>12, CancelStep
    <2>13. CASE Done
      BY <2>13, StutterStep DEF Done
    <2>14. CASE UNCHANGED vars
      BY <2>14, StutterStep
    <2> QED
      BY <2>1, <2>2, <2>3, <2>4, <2>5, <2>6, <2>7, <2>8, <2>9, <2>10, <2>11, <2>12, <2>13, <2>14
         DEF Next
  <1> QED
    BY InitIInv, <1>1, PTL DEF Spec

\* However many artifacts a pipeline stores under however many names, the store's
\* total is what its files hold and stays in its budget, what it lends out is on disk,
\* and the downloads of all steps take no longer than one may.
THEOREM StoreIsBounded == Spec => []ResourcesBounded
  <1>1. IInv => ResourcesBounded
    BY BoundsAssumption DEF IInv, BooksOK, UrlOK, ResourcesBounded
  <1> QED
    BY Inductive, <1>1, PTL

\* The CPU time of a short case is the median of its three runs, for all CPU times.
THEOREM RepeatsAreHonest == Spec => []SampledMedian
  <1>1. IInv => SampledMedian
    BY DEF IInv, AnswerOK
  <1> QED
    BY Inductive, <1>1, PTL

\* Unless an accepting interactor interrupts a contestant that is still printing above
\* its limit (the run pipeline_prefix shows what happens then), a program is given
\* nothing but complete outputs of the earlier steps its request names, ...
THEOREM NothingIsTruncated == Spec => [](NoChatter => InputsWhole)
  <1>1. IInv => (NoChatter => InputsWhole)
    <2> SUFFICES ASSUME IInv, NoChatter, pc = "running", NEW k \in DOMAIN input
                 PROVE  /\ input[k].whole
                        /\ input[k].step > 0 => /\ input[k].step < step
                                                /\ results[input[k].step] \in {"OK", "Accepted"}
                        /\ req.mode = "pipeline" =>
                              LET ref == req.steps[step].stdin[k]
                              IN  ref # <<0, 0>> =>
                                     input[k].kind = req.steps[ref[1]].outputs[ref[2]].kind
      BY DEF InputsWhole
    <2>1. InputGood
      BY DEF IInv, InputOK
    <2>2. ASSUME input[k].step > 0 PROVE results[input[k].step] \in Good
      <3>1. req.mode # "single" /\ input[k].step \in Nat /\ input[k].step < step
        <4>1. /\ input[k].step \in Nat /\ input[k].step < step
              /\ req.mode = "single" => input[k].step = 0
          BY <2>1, <2>2 DEF InputGood
        <4>2. ~(0 > 0)
          OBVIOUS
        <4> QED
          BY <2>2, <4>1, <4>2
      <3>2. step \in Int
        BY DEF IInv, TypeOK
      <3>3. /\ Len(results) = step - 1 /\ DOMAIN results = 1..Len(results)
            /\ \A i \in DOMAIN results : results[i] \in Good
        BY <3>1 DEF IInv, TypeOK, FlowOK
      <3>4. input[k].step \in DOMAIN results
        BY <2>2, <3>1, <3>2, <3>3
      <3> QED
        BY <3>3, <3>4
    <2> QED
      BY <2>1, <2>2 DEF InputGood, Good
  <1> QED
    BY Inductive, <1>1, PTL

\* ... and an Accepted answer means that what was judged is the whole output of the
\* last step and was found right, after every step succeeded.
THEOREM AcceptanceIsEarned == Spec => [](NoChatter => AcceptedIsEarned)
  <1>1. IInv => (NoChatter => AcceptedIsEarned)
    BY DEF IInv, AnswerOK
  <1> QED
    BY Inductive, <1>1, PTL

=============================================================================
