----------------------------- MODULE ServiceRun -----------------------------
(***************************************************************************)
(* Service.Run of internal/execute for everything that runs one program    *)
(* after the other: a single run (sampled when it is short), the two steps *)
(* with a handoff, and Pipeline V1 with its artifact store.                *)
(*                                                                         *)
(* A sandboxed run and an interactive run are what SandboxRun and          *)
(* InteractiveRun show them to be, and count here by what they return.     *)
(* Data is its origin, its length and whether it is all that was written.  *)
(***************************************************************************)
EXTENDS Integers, FiniteSets, SequencesExt

CONSTANTS MaxLen,          \* the longest thing a program or a server sends
          OutputBytes,     \* outputLimitBytes of every step's limits
          WorkspaceBytes,  \* stdinURLMaxBytes of every step's limits
          TextBytes,       \* MaxTextFieldBytes
          FileBytes,       \* maxCapturedFileBytes
          TotalBytes,      \* MaxPipelineArtifactTotalBytes
          UrlTime,         \* stdinURLTimeout
          Threshold,       \* shortCaseRepeatThresholdNs
          MaxPipelineSteps,
          Request,         \* the requests that arrive
          Chatty           \* a contestant may still be printing, above its
                           \* limit, when its interactor has accepted it

ASSUME BoundsAssumption ==
    /\ {MaxLen, OutputBytes, WorkspaceBytes, TextBytes, FileBytes, TotalBytes,
        UrlTime, Threshold, MaxPipelineSteps} \subseteq Nat
    /\ OutputBytes <= TextBytes /\ Chatty \in BOOLEAN

VARIABLES req, pc, step,
          out,        \* the output of the step that is stored next
          dirs,       \* directories under the work root
          files,      \* what the store and the fixture directory hold
          paths, counted, stored,   \* pipelineArtifactStore, or handoffs in paths
          input,      \* what the program of this step reads
          urlLeft,    \* stdinURLDownloadBudget
          urlSpent,   \* time the downloads of the steps really took
          run,        \* what the last run returned
          stdout,     \* stepStdout
          results,    \* stepResults
          samples,    \* the runs of a short case so far
          image,      \* imageEmitted
          ctxDone, response

store == <<paths, counted, stored>>
url   == <<urlLeft, urlSpent>>
vars  == <<req, pc, step, out, dirs, files, store, input, url, run, stdout, results,
           samples, image, ctxDone, response>>

None == -1
Len0 == 0..MaxLen
Data(i, kind, n, w) == [step |-> i, kind |-> kind, len |-> n, whole |-> w]
Empty == Data(0, "none", 0, TRUE)
Capped(i, kind, n, limit) == Data(i, kind, IF n > limit THEN limit ELSE n, n <= limit)
\* How much data is there: in a sequence, and in the files of a set.
Lengths(s) == FoldLeft(LAMBDA n, p : n + p.len, 0, s)
Bytes(fs) == UNION {{f} \X (1..f.data.len) : f \in fs}

Res(st, src) == [status |-> st, source |-> src, judgeOut |-> Empty, stdout |-> Empty,
                 over |-> FALSE, file |-> Empty, emitted |-> Empty, artifactErr |-> FALSE,
                 right |-> FALSE, score |-> None, cpu |-> 0]
Answer(st, src) == [status |-> st, source |-> src, score |-> None, cpu |-> 0, selected |-> 0]
AsAnswer(r) == [Answer(r.status, r.source) EXCEPT !.score = r.score, !.cpu = r.cpu]

-----------------------------------------------------------------------------
(* Requests *)

Single == [mode : {"single"}, sampling : BOOLEAN, url : BOOLEAN, spj : BOOLEAN,
           file : BOOLEAN, ignoreTLE : BOOLEAN]

shortCaseRepeatEligible(r) == ~r.spj /\ ~r.file /\ ~r.ignoreTLE

Sampled(r) == r.mode = "single" /\ r.sampling /\ shortCaseRepeatEligible(r)

\* A part of a step's input: text with its length, a URL, a handoff.
Part == [kind : {"text"}, len : Nat] \cup [kind : {"url", "handoff"}, len : {None}]

StepsRequest == [mode : {"steps"}, parts : Seq(Part) \X Seq(Part), alone : BOOLEAN \X BOOLEAN,
                 handoff : [from : {"stdout", "file"}, max : Nat],
                 spj : BOOLEAN, file : BOOLEAN, ignoreTLE : BOOLEAN]

PipelineRequest ==
    [mode : {"pipeline"},
     steps : Seq([kind : {"batch", "interactive"}, stdin : Seq(Nat \X Nat),
                  outputs : Seq([kind : {"participant_stdout", "participant_file",
                                         "interactor_output"}, max : Nat])])]

ASSUME RequestAssumption == Request \subseteq Single \cup StepsRequest \cup PipelineRequest

\* first: the parts of the first step, second: of the second; alone says that
\* the input is one stdin, stdin_url or stdin_from rather than stdin_parts.
ValidateStepStdinParts(parts, i) ==
    IF i = 1 THEN \A p \in Range(parts) : p.kind # "handoff"
             ELSE \E p \in Range(parts) : p.kind = "handoff"

ValidateStepPipeline(r) ==
    /\ \A i \in 1..2 : ValidateStepStdinParts(r.parts[i], i) /\ (r.alone[i] => Len(r.parts[i]) = 1)
    /\ r.handoff.from \in {"stdout", "file"} /\ r.handoff.max \in 0..TextBytes

\* Ids are positions: output j of step i is artifact <<i, j>>.
ValidatePipelineV1(r) ==
    LET outputs == UNION {{<<i, j>> : j \in DOMAIN r.steps[i].outputs} : i \in DOMAIN r.steps}
        Of(o)   == r.steps[o[1]].outputs[o[2]]
    IN  /\ Len(r.steps) \in 1..MaxPipelineSteps
        /\ \A i \in DOMAIN r.steps :
              /\ \A ref \in Range(r.steps[i].stdin) :
                    ref = <<0, 0>> \/ (ref \in outputs /\ ref[1] < i)
              /\ Cardinality({o \in outputs : o[1] = i /\ Of(o).kind = "participant_file"}) <= 1
        /\ \A o \in outputs :
              /\ Of(o).max \in 1..TextBytes
              /\ Of(o).kind = "participant_file" => Of(o).max <= FileBytes
              /\ Of(o).kind = "interactor_output" => r.steps[o[1]].kind = "interactive"
        /\ MapThenSumSet(LAMBDA o : Of(o).max, outputs) <= TotalBytes

Validate(r) == CASE r.mode = "single"   -> TRUE
                 [] r.mode = "steps"    -> ValidateStepPipeline(r)
                 [] r.mode = "pipeline" -> ValidatePipelineV1(r)

Init ==
    /\ req \in {r \in Request : Validate(r)}
    /\ pc = "start" /\ step = 1 /\ out = 1 /\ dirs = {} /\ files = {}
    /\ paths = <<>> /\ counted = {} /\ stored = 0
    /\ input = <<>> /\ urlLeft = UrlTime /\ urlSpent = 0
    /\ run = Res("none", "none") /\ stdout = <<>> /\ results = <<>>
    /\ samples = <<>> /\ image = FALSE /\ ctxDone = FALSE /\ response = Answer("none", "none")

-----------------------------------------------------------------------------
(* The plan of a request *)

Steps == CASE req.mode = "single" -> 1 [] req.mode = "steps" -> 2
           [] req.mode = "pipeline" -> Len(req.steps)
Final == step = Steps
Outputs == IF req.mode = "pipeline" THEN req.steps[step].outputs ELSE <<>>
Interactive == req.mode = "pipeline" /\ req.steps[step].kind = "interactive"
OutputsOf(kind) == {o \in Range(Outputs) : o.kind = kind}

WantsFile == CASE req.mode = "single" -> req.file
               [] req.mode = "steps" -> IF Final THEN req.file ELSE req.handoff.from = "file"
               [] req.mode = "pipeline" -> OutputsOf("participant_file") # {}
HasSPJ == req.mode # "pipeline" /\ Final /\ req.spj
IgnoreTLE == req.mode # "pipeline" /\ Final /\ req.ignoreTLE
evaluateOutput == req.mode = "single" \/ (req.mode = "steps" /\ Final)

\* What a step may print: its outputs raise the limit.
OutputLimit ==
    Max({OutputBytes} \cup {o.max : o \in OutputsOf("participant_stdout")}
        \cup {o.max : o \in IF Interactive THEN OutputsOf("participant_file") ELSE {}})
InteractorOutputMax == Max({0} \cup {o.max : o \in OutputsOf("interactor_output")})

-----------------------------------------------------------------------------
(* Directories and returning *)

Dropped(ds) == {f \in files : f.dir \notin ds}
Close(ds) == dirs' = dirs \ ds /\ files' = Dropped(ds)
File(dir, name, d) == [dir |-> dir, name |-> name, data |-> d]
Named(id, f) == [x \in DOMAIN paths \cup {id} |-> IF x = id THEN f ELSE paths[x]]

\* Service.Run answers; what was deferred on the way removes the store's and the
\* fixture's directory.
Respond(a) == pc' = "done" /\ response' = a /\ Close({"store", "fixture"})

Fail(source) == Respond(Answer("InitFail", source))

-----------------------------------------------------------------------------
(* Start: createRunWorkDir for handoffs or artifacts, or the frozen input *)

Start ==
    /\ pc = "start"
    /\ IF req.mode = "single"
       THEN /\ pc' = IF Sampled(req) /\ req.url THEN "freeze" ELSE "open"
            /\ UNCHANGED <<dirs, files, response>>
       ELSE \/ pc' = "input" /\ dirs' = {"store"} /\ UNCHANGED <<files, response>>
            \/ Fail("store")
    /\ UNCHANGED <<req, step, out, store, input, url, run, stdout, results, samples, image, ctxDone>>

\* runShortCaseBatch downloads a URL input once, into a directory of its own.
Freeze ==
    /\ pc = "freeze"
    /\ \/ Fail("stdin_url")
       \/ \E n \in 0..WorkspaceBytes :
             /\ dirs' = dirs \cup {"fixture"}
             /\ files' = {File("fixture", <<0, 0>>, Data(0, "url", n, TRUE))}
             /\ pc' = "open" /\ UNCHANGED response
    /\ UNCHANGED <<req, step, out, store, input, url, run, stdout, results, samples, image, ctxDone>>

-----------------------------------------------------------------------------
(* The input of a step *)

\* A download within the budget of all steps: it takes t, or is cut when the
\* budget is over.
Spends(t) ==
    /\ urlLeft' = IF t >= urlLeft THEN 0 ELSE urlLeft - t
    /\ urlSpent' = urlSpent + (IF t >= urlLeft THEN urlLeft ELSE t)

Handoff == <<1, 1>>

\* byteLimitWriter refuses what does not fit, and any text, even an empty one, once
\* the limit is reached; a copy of nothing is never written.
Refused(used, kind, n) == used + n > WorkspaceBytes \/ (kind = "text" /\ used = WorkspaceBytes)

Datum(p, n) == CASE p.kind = "text"    -> Data(0, "text", p.len, TRUE)
                 [] p.kind = "url"     -> Data(0, "url", n, TRUE)
                 [] p.kind = "handoff" -> paths[Handoff].data

\* n is the length of what a URL sends.
stdinParts(n) == [k \in DOMAIN req.parts[step] |-> Datum(req.parts[step][k], n)]

assembleStepStdinParts(made) ==
    \A k \in DOMAIN made :
        ~Refused(Lengths(SubSeq(made, 1, k - 1)), req.parts[step][k].kind, made[k].len)

\* A run that could not even read its input.
Unread == run' = Res("InitFail", "stdin") /\ pc' = "after" /\ UNCHANGED <<dirs, files, response>>

\* stdin_url and stdin_from hand a reader to the run; stdin_parts are first written
\* to a file beside the handoff.
prepareStepStdin ==
    LET parts == req.parts[step]
        alone == req.alone[step]
        urls  == \E p \in Range(parts) : p.kind = "url"
    IN  \E n \in (IF urls THEN Len0 ELSE {0}), t \in (IF urls THEN 0..UrlTime ELSE {0}) :
          LET late == urls /\ t >= urlLeft
              made == stdinParts(n)
          IN  /\ Spends(t)
              /\ \/ (urls \/ ~alone) /\ Fail("stdin_parts") /\ UNCHANGED <<input, run>>
                 \/ alone /\ late /\ Unread /\ UNCHANGED input
                 \/ /\ ~late /\ (alone \/ assembleStepStdinParts(made))
                    /\ input' = made
                    /\ files' = IF alone THEN files
                                ELSE files \cup {File("store", <<step, 0>>, Empty)}
                    /\ pc' = "open" /\ UNCHANGED <<dirs, response, run>>

artifact(ref) == IF ref = <<0, 0>> THEN Data(0, "resource", 1, TRUE) ELSE paths[ref].data

preparePipelineStdin ==
    LET refs == req.steps[step].stdin
        made == [k \in DOMAIN refs |-> artifact(refs[k])]
    IN  /\ UNCHANGED <<url, run>>
        /\ \/ Fail("stdin") /\ UNCHANGED input
           \/ /\ Lengths(made) <= WorkspaceBytes
              /\ input' = made /\ files' = files \cup {File("store", <<step, 0>>, Empty)}
              /\ pc' = "open" /\ UNCHANGED <<dirs, response>>

PrepareInput ==
    /\ pc = "input"
    /\ IF req.mode = "steps" THEN prepareStepStdin ELSE preparePipelineStdin
    /\ UNCHANGED <<req, step, out, store, stdout, results, samples, image, ctxDone>>

-----------------------------------------------------------------------------
(* runOneWithStdin, and runInteractiveExecution for an interactive step *)

StdinMax ==
    CASE req.mode = "single"   -> IF req.url THEN WorkspaceBytes ELSE TextBytes
      [] req.mode = "steps"    -> IF req.alone[step] /\ req.parts[step][1].kind # "url"
                                  THEN TextBytes ELSE WorkspaceBytes
      [] req.mode = "pipeline" -> WorkspaceBytes

\* The input of a single run: a fresh reader of the frozen file, or its own.
SingleInput ==
    IF files # {} THEN {<<f.data>> : f \in files}
    ELSE {<<Data(0, IF req.url THEN "url" ELSE "text", n, TRUE)>> : n \in Len0}

\* The workspace is made, the files are materialized and the input is opened, or
\* the run ends here; a sampled run looks at the context first.
Open ==
    /\ pc = "open"
    /\ input' \in IF req.mode = "single" THEN SingleInput ELSE {input}
    /\ \/ Unread
       \/ /\ ~(Sampled(req) /\ ctxDone) /\ Lengths(input') <= StdinMax
          /\ dirs' = dirs \cup {"work"} /\ pc' = "running" /\ UNCHANGED <<files, run, response>>
    /\ UNCHANGED <<req, step, out, store, url, stdout, results, samples, image, ctxDone>>

\* Mutant: the verdict of a step ignores that its output was cut.
applyStdoutLimitVerdict_Never(r, exceeded) == r

applyStdoutLimitVerdict(r, exceeded) ==
    IF exceeded /\ r.status \in {"OK", "Accepted"}
    THEN [r EXCEPT !.status = "RE", !.source = "stdout_limit"] ELSE r

\* runSPJ: it accepts or rejects what it is given, or fails by itself, as it does on
\* an input above the workspace limit; right says what a correct checker finds.  One
\* that crashes, or exits with an error, rejects.
runSPJ(r) == IF Lengths(input) > WorkspaceBytes THEN {"fail"}
             ELSE {"fail", "reject"} \cup IF r.right THEN {"accept"} ELSE {}

\* CompareState has not seen the expected state of an Entry program before, if it came
\* from a URL, and may find it invalid.
CompareState(r) == {IF r.right THEN "accept" ELSE "reject"}
                   \cup IF req.mode = "single" /\ req.url /\ shortCaseRepeatEligible(req)
                        THEN {"invalid"} ELSE {}

\* Mutant: stdout stands in for a file that could not be collected.
judgeOutputAvailable_Stdout(fromFile) == TRUE

judgeOutputAvailable(fromFile) == WantsFile => fromFile

\* evaluateRunStatus of a classified run r; fromFile says the required file is there.
evaluateRunStatus(r, fromFile) ==
    LET cut  == ~fromFile /\ r.over
        v    == applyStdoutLimitVerdict(r, cut)
        evaluated == /\ v.status = "OK" \/ (v.status = "TLE" /\ IgnoreTLE)
                     /\ judgeOutputAvailable(fromFile) /\ ~cut
        Judged(j) ==
            LET ok == j = "accept"
            IN  IF v.status = "TLE" /\ IgnoreTLE THEN [v EXCEPT !.score = IF ok THEN 1 ELSE 0]
                ELSE IF v.status # "OK" THEN v
                ELSE IF j = "fail" THEN [v EXCEPT !.status = "RE", !.source = "spj"]
                ELSE IF j = "invalid" THEN [v EXCEPT !.status = "InitFail", !.source = "judge"]
                ELSE [v EXCEPT !.status = IF ok THEN "Accepted" ELSE "WA", !.source = "judge"]
    IN  {Judged(j) : j \in IF ~evaluated THEN {"reject"}
                            ELSE IF HasSPJ THEN runSPJ(v) ELSE CompareState(v)}

\* What the sandbox returns, with the required file captured: status, the stdout it
\* kept, the file, the CPU time.
Captured(st, n, f, right, cpu) ==
    LET kept == Capped(step, "participant_stdout", n, OutputLimit)
        got  == f # None /\ f <= FileBytes
        r    == [Res(IF st = "OK" /\ WantsFile /\ ~got THEN "RE" ELSE st, "run") EXCEPT
                   !.stdout = kept, !.over = ~kept.whole, !.right = right, !.cpu = cpu,
                   !.file = IF got THEN Data(step, "participant_file", f, TRUE) ELSE Empty]
    IN  [r EXCEPT !.judgeOut = IF WantsFile THEN r.file ELSE kept]

Batch(st, n, f, right, cpu) ==
    IF st = "InitFail" THEN {Res("InitFail", "run")}
    ELSE LET r == Captured(st, n, f, right, cpu)
         IN  IF evaluateOutput THEN evaluateRunStatus(r, r.file # Empty)
             ELSE {applyStdoutLimitVerdict(r, r.over)}

\* An accepting interactor may have canceled a contestant that was still printing:
\* then nobody looks at the contestant's output limit.
Interacted(st, n, f, m) ==
    LET r == Captured(IF st = "OK" THEN "Accepted" ELSE st, n, f, TRUE, 0)
        lost == WantsFile /\ r.file = Empty
    IN  {[x EXCEPT !.emitted = Capped(step, "interactor_output", m, InteractorOutputMax),
                   !.artifactErr = lost \/ m > InteractorOutputMax]
           : x \in {applyStdoutLimitVerdict(r, r.over)} \cup (IF Chatty THEN {r} ELSE {})}

FileLen == IF WantsFile THEN Len0 \cup {None} ELSE {None}

Execute ==
    /\ pc = "running"
    /\ \E st \in {"OK", "TLE", "RE", "InitFail"}, n \in Len0, f \in FileLen,
          right \in (IF evaluateOutput THEN BOOLEAN ELSE {TRUE}),
          cpu \in (IF Sampled(req) THEN 0..Threshold + 1 ELSE {0}),
          m \in (IF InteractorOutputMax > 0 THEN Len0 ELSE {0}) :
             run' \in IF Interactive THEN Interacted(st, n, f, m) ELSE Batch(st, n, f, right, cpu)
    /\ image' \in IF Sampled(req) /\ samples = <<>> THEN BOOLEAN ELSE {image}
    /\ pc' = "after" /\ Close({"work"})
    /\ UNCHANGED <<req, step, out, store, input, url, stdout, results, samples, ctxDone, response>>

-----------------------------------------------------------------------------
(* A single run and its samples *)

\* Mutant: the samples are sorted, the index is not mapped back.
Median_Sorted == 2

\* The middle one of three samples in the order of a stable sort.
Median ==
    CHOOSE i \in 1..3 :
       Cardinality({j \in 1..3 : \/ samples'[j].cpu < samples'[i].cpu
                                 \/ samples'[j].cpu = samples'[i].cpu /\ j < i}) = 1

Interrupted == IF ctxDone THEN Fail("short_case_context")
               ELSE pc' = "open" /\ UNCHANGED <<dirs, files, response>>

runShortCaseMedian ==
    /\ samples' = Append(samples, run)
    /\ IF run.status # "Accepted" \/ (samples = <<>> /\ (image \/ run.cpu > Threshold))
       THEN Respond(AsAnswer(run))
       ELSE IF Len(samples') < 3 \/ ctxDone THEN Interrupted
       ELSE Respond([AsAnswer(samples'[1]) EXCEPT !.cpu = samples'[Median].cpu, !.selected = Median])

AfterSingle ==
    /\ pc = "after" /\ req.mode = "single"
    /\ IF Sampled(req) THEN runShortCaseMedian
       ELSE Respond(AsAnswer(run)) /\ UNCHANGED samples
    /\ UNCHANGED <<req, step, out, store, input, url, run, stdout, results, image, ctxDone>>

-----------------------------------------------------------------------------
(* The two steps: the handoff *)

handoffMax == IF req.handoff.max = 0 THEN OutputBytes ELSE req.handoff.max

AfterStep ==
    /\ pc = "after" /\ req.mode = "steps"
    /\ results' = Append(results, run.status)
    /\ \/ /\ Final \/ run.status # "OK"
          /\ Respond([AsAnswer(run) EXCEPT !.cpu = 0]) /\ UNCHANGED <<step, paths>>
       \/ /\ ~Final /\ run.status = "OK" /\ run.judgeOut.len > handoffMax
          /\ Respond(Answer("RE", "handoff")) /\ UNCHANGED <<step, paths>>
       \/ /\ ~Final /\ run.status = "OK" /\ run.judgeOut.len <= handoffMax
          /\ \/ Fail("handoff") /\ UNCHANGED <<step, paths>>
             \/ LET f == File("store", Handoff, run.judgeOut)
                IN  /\ files' = files \cup {f} /\ paths' = Named(Handoff, f)
                    /\ step' = step + 1 /\ pc' = "input" /\ UNCHANGED <<dirs, response>>
    /\ UNCHANGED <<req, out, counted, stored, input, url, run, stdout, samples, image, ctxDone>>

-----------------------------------------------------------------------------
(* Pipeline V1: the artifacts of a step, and the final judge *)

\* The step's input file is removed; a failed step or capture ends the pipeline.
AfterPipelineStep ==
    /\ pc = "after" /\ req.mode = "pipeline"
    /\ results' = Append(results, run.status)
    /\ IF run.status \notin {"OK", "Accepted"} THEN Respond(Answer(run.status, "step"))
       ELSE IF run.artifactErr THEN Respond(Answer("RE", "artifact"))
       ELSE /\ files' = {f \in files : f.name # <<step, 0>>} \cup
                        (IF InteractorOutputMax = 0 THEN {}
                         ELSE {File("store", <<step, None>>, run.emitted)})
            /\ pc' = "store" /\ UNCHANGED <<dirs, response>>
    /\ UNCHANGED <<req, step, out, store, input, url, run, stdout, samples, image, ctxDone>>

\* Mutant: a file stored under a second name is counted again.
Counts_Twice(f) ==
    /\ stored' = stored + f.data.len /\ stored' <= TotalBytes /\ counted' = counted \cup {f}

Counts(f) ==
    /\ stored' = stored + (IF f \in counted THEN 0 ELSE f.data.len)
    /\ f \in counted \/ stored' <= TotalBytes
    /\ counted' = counted \cup {f}

put(id, d, max) ==
    LET f == File("store", id, d)
    IN  /\ d.len <= max /\ Counts(f)
        /\ files' = files \cup {f} /\ paths' = Named(id, f)

\* The interactor's output is in the store already; another name for it costs nothing.
putPath(id, f, max) ==
    f.data.len <= max /\ Counts(f) /\ paths' = Named(id, f) /\ UNCHANGED files

Put(o) ==
    IF o.kind = "interactor_output"
    THEN putPath(<<step, out>>, File("store", <<step, None>>, run.emitted), o.max)
    ELSE put(<<step, out>>, IF o.kind = "participant_file" THEN run.file ELSE run.stdout, o.max)

StoreOutput ==
    /\ pc = "store" /\ out <= Len(Outputs)
    /\ \/ Put(Outputs[out]) /\ out' = out + 1 /\ UNCHANGED <<pc, dirs, response>>
       \/ Respond(Answer("RE", "artifact")) /\ UNCHANGED <<store, out>>
    /\ UNCHANGED <<req, step, input, url, run, stdout, results, samples, image, ctxDone>>

NextStep ==
    /\ pc = "store" /\ out > Len(Outputs)
    /\ stdout' = Append(stdout, run.stdout) /\ out' = 1
    /\ IF Final THEN pc' = "final" /\ UNCHANGED step ELSE pc' = "input" /\ step' = step + 1
    /\ UNCHANGED <<req, dirs, files, store, input, url, run, results, samples, image, ctxDone, response>>

\* A comparison of the final step's stdout, or a checker that may fail by itself.
runPipelineFinalJudge ==
    /\ pc = "final"
    /\ \E right \in BOOLEAN :
          /\ run' = [run EXCEPT !.judgeOut = stdout[Steps], !.right = right]
          /\ \/ Respond(Answer(IF right THEN "Accepted" ELSE "WA", "final"))
             \/ Respond(Answer("RE", "final:spj")) \/ Fail("final:spj")
    /\ UNCHANGED <<req, step, out, store, input, url, stdout, results, samples, image, ctxDone>>

-----------------------------------------------------------------------------

Cancel ==
    /\ ~ctxDone /\ Sampled(req) /\ pc # "done" /\ ctxDone' = TRUE
    /\ UNCHANGED <<req, pc, step, out, dirs, files, store, input, url, run, stdout, results,
                   samples, image, response>>

Done == pc = "done" /\ UNCHANGED vars

Next ==
    \/ Start \/ Freeze \/ PrepareInput \/ Open \/ Execute
    \/ AfterSingle \/ AfterStep \/ AfterPipelineStep
    \/ StoreOutput \/ NextStep \/ runPipelineFinalJudge
    \/ Cancel \/ Done

Spec == Init /\ [][Next]_vars

-----------------------------------------------------------------------------
(* Properties *)

\* Whatever a program is given to read is complete: an output of an earlier step
\* that succeeded, the very one its request names, and never a prefix of it, neither
\* of what the step printed nor of what was stored (stdout limit, max_bytes, the
\* limits of stdin_parts and of the run's own reader).
InputsWhole ==
    pc = "running" =>
       \A k \in DOMAIN input :
          /\ input[k].whole
          /\ input[k].step > 0 => /\ input[k].step < step
                                  /\ results[input[k].step] \in {"OK", "Accepted"}
          /\ req.mode = "pipeline" =>
                LET ref == req.steps[step].stdin[k]
                IN  ref # <<0, 0>> => input[k].kind = req.steps[ref[1]].outputs[ref[2]].kind

\* The artifact store's books: each file it lends out is on disk and counted once,
\* whatever the names it has, and the total stays in the budget.  The steps' downloads
\* together take no more than the time of one.
ResourcesBounded ==
    /\ pc # "done" => Range(paths) \subseteq files
    /\ req.mode = "pipeline" =>
          /\ counted = Range(paths)
          /\ stored = Cardinality(Bytes(counted)) /\ stored <= TotalBytes
    /\ urlSpent <= UrlTime

\* An Accepted answer, or full marks in spite of a time limit, means that every step
\* succeeded, and that what was judged, and found right, is the whole output of the
\* last one.
AcceptedIsEarned ==
    response.status = "Accepted" \/ response.score = 1 =>
       /\ run.right /\ run.judgeOut.whole /\ run.judgeOut.step = Steps
       /\ req.mode # "single" => Len(results) = Steps
       /\ \A i \in 1..Len(results) - 1 : results[i] \in {"OK", "Accepted"}

\* A short accepted case is run three times unless it has shown an image; its CPU
\* time is the median, that of the sample named; one repetition that fails decides
\* the case, and an interrupted one is no verdict.
SampledMedian ==
    pc = "done" /\ Sampled(req) =>
       /\ response.status = "Accepted" =>
             /\ \A s \in Range(samples) : s.status = "Accepted"
             /\ Len(samples) \in {1, 3}
             /\ Len(samples) = 1 <=> image \/ samples[1].cpu > Threshold
             /\ Len(samples) = 3 =>
                   /\ samples[response.selected].cpu = response.cpu
                   /\ Cardinality({i \in 1..3 : samples[i].cpu <= response.cpu}) >= 2
                   /\ Cardinality({i \in 1..3 : samples[i].cpu >= response.cpu}) >= 2
       /\ \A s \in Range(samples) : s.status # "Accepted" => response.status = s.status
=============================================================================
