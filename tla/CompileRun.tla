----------------------------- MODULE CompileRun -----------------------------
(***************************************************************************)
(* Builds of the compile service that overlap in one server process        *)
(* (src/internal/compile and the runtime state lease of                    *)
(* src/internal/security/runtime_state.go).                                *)
(*                                                                         *)
(* A build validates its request, writes its sources, follows the plan of  *)
(* the language's compiler (sandboxed commands in order, up to the first   *)
(* that does not end OK, then a collection of artifacts), and its response *)
(* is bounded where it leaves the service.  Every command takes the lease  *)
(* on the runtime state: dotnet, dafny and kotlinc-native, which reach     *)
(* their workspace through a path shared by the whole machine, take it     *)
(* alone.  What the compilers do inside the sandbox is the environment: it *)
(* forks, leaves its process group where the policy lets it, breaks limits,*)
(* ends, or is ended by the build's deadline.                              *)
(*                                                                         *)
(* Abstracted: names and contents of sources and artifacts (an artifact is *)
(* a size), captured text, flags and environment of the commands.          *)
(***************************************************************************)
EXTENDS Naturals, Sequences, Functions

CONSTANTS
    Job,         \* builds that may overlap
    Offers,      \* plans each of them may be asked to follow
    Grouped,     \* may a cgroup parent be configured: a set of Booleans
    FileLimit,   \* maxArtifactBytes
    TotalLimit   \* maxArtifactTotalBytes

ASSUME LimitsAssumption == FileLimit \in Nat /\ TotalLimit \in Nat /\ FileLimit <= TotalLimit

ASSUME GroupedAssumption == Grouped \subseteq BOOLEAN

None == "none"

ASSUME JobAssumption == None \notin Job

VARIABLES
    pc,        \* where Service.Run of each build stands
    plan,      \* what is left of the plan of the compiler it follows
    wide,      \* has it run a command that may leave its process group
    alive,     \* processes of the build: the helper it waits for, members of
               \* the helper's group, processes outside the group but near (a
               \* descendant, or a working directory in the workspace), and far
    exit,      \* how the helper ended
    done,      \* is the build's context over
    grouped,   \* is a cgroup parent configured
    group,     \* does the command have a cgroup
    leaked,    \* did the removal of a cgroup fail (only logged)
    status,    \* status of the command, then of the response
    left,      \* artifacts still to be read
    counted,   \* sum of the sizes the opened artifacts had
    read,      \* sizes of the data read from them
    torn,      \* was an artifact read while a process of the build ran
    writer,    \* holder of the write lock of runtimeStateMu
    readers,   \* holders of its read lock
    link       \* build whose workspace each shared path leads to

vars == <<pc, plan, wide, alive, exit, done, group, leaked, status, left,
          counted, read, torn, writer, readers, link, grouped>>

shared == <<writer, readers, link, grouped>>

artifacts == <<left, counted, read, torn>>
-----------------------------------------------------------------------------
(* Compilers: the commands each may run, and how it collects.              *)

Plan(commands, collect) == [commands |-> commands, collect |-> collect]

\* A command is "plain", "wide" (its policy allows new process groups), or one
\* of the two that are reached through a shared path.
Shared == {"dotnet", "konan"}

\* A plan collects "one" file or a private copy of it ("snapshot"), "each"
\* submitted file, "all" files of the workspace that match, one and then all
\* others ("mixed"), or all after the service checked the sources ("checked").
Collections == {"one", "snapshot", "each", "all", "mixed", "checked"}

AtMost(n, command) == UNION {[1..k -> {command}] : k \in 1..n}

\* One command over the sources, then the file it was told to write.
Ordinary == {Plan(<<"plain">>, "one")}

\* One command, then the files it left.
OrdinaryAll == {Plan(<<"plain">>, "all")}

\* One command per source (two stand for any number), then what matches.
checkedSourcesCompiler(command) == {Plan(c, "all") : c \in AtMost(2, command)}

scriptCheckCompiler == checkedSourcesCompiler("plain")

\* Nothing is run: the sources themselves are the artifacts.
passThroughCompilers == {Plan(<<>>, "all")}

\* sqlite and julia look for a source of theirs.
sourceOnlyCompilers == {Plan(<<>>, "all")}

\* whitespace, brainfuck and malbolge; the service reads the program itself.
compileMalbolge == {Plan(<<>>, "checked")}
compileUnlambda == {Plan(<<>>, "checked")}
compilePiet == {Plan(<<>>, "checked")}

nativeCompiler == Ordinary
compileRust == Ordinary
compileGo == Ordinary
singleSourceExecutableCompiler == Ordinary
mercuryCompiler == Ordinary
idris2Compiler == OrdinaryAll
compileVHDL == {Plan(<<"plain", "plain">>, "all")}
verilogCompilers == Ordinary
compileHare == {Plan(<<"wide">>, "one")}
kokaCompiler == Ordinary
intercalCompiler == Ordinary

\* Kotlin/Native goes through the shared cache lock, swiftc needs groups.
compileKotlinNative == {Plan(<<"konan">>, "one")}
compileHaskell == Ordinary
compileSwift == {Plan(<<"wide">>, "one")}
toolchainCompilers == Ordinary
carbonCompiler == {Plan(<<"plain", "plain">>, "one")}
zerolangCompiler == {Plan(<<"plain", "plain">>, "one")}

\* fsc, vbc and csc run under dotnet, as dotnet publish does, and as each check
\* of dafny.
compileFSharp == {Plan(<<"dotnet">>, "all")}
compileVBNet == {Plan(<<"dotnet">>, "all")}
compileCSharp == {Plan(<<"dotnet">>, "all")}
dafnyCompiler == checkedSourcesCompiler("dotnet")

\* javac, scalac and groovyc over all sources, clojure source by source.
jvmCompilers == {Plan(c, "all") : c \in AtMost(2, "plain")}

\* kotlinc, and with Java sources javac and jar after it.
kotlinJVMCompiler == {Plan(<<"plain">>, "one"),
                      Plan(<<"plain", "plain", "plain">>, "one")}

compileTypeScript == OrdinaryAll
coffeeScriptCompiler == Ordinary
elmCompiler == Ordinary
reScriptCompiler == {Plan(<<"plain">>, "mixed")}
pureScriptCompiler == {Plan(<<"plain">>, "mixed")}
compileWasm == Ordinary
assemblyScriptCompiler == {Plan(<<"plain", "plain">>, "one")}
bunCompiler == {Plan(c, "each") : c \in AtMost(2, "plain")}
pythonLikeCompiler == OrdinaryAll
entryCompiler == OrdinaryAll
compileGleam == OrdinaryAll
compileElixir == checkedSourcesCompiler("plain")
erlangCompiler == OrdinaryAll
interpretedCompilers == checkedSourcesCompiler("plain")
nasmCompiler == {Plan(<<"plain", "plain">>, "one")}

compileIsabelle == {Plan(<<"wide">>, "all")}
kFrameworkCompiler == {Plan(<<"wide">>, "all")}
agdaCompiler == checkedSourcesCompiler("plain")
compileOCaml == Ordinary

\* cargo metadata, checks of what it prints, cargo build.
compileRustCargo == {Plan(<<"plain", "plain">>, "snapshot")}

compilerRegistry ==
    UNION {passThroughCompilers, sourceOnlyCompilers, compileMalbolge,
           compileUnlambda, compilePiet, nativeCompiler, compileRust, compileGo,
           singleSourceExecutableCompiler, mercuryCompiler, idris2Compiler,
           compileVHDL, verilogCompilers, compileHare, kokaCompiler,
           intercalCompiler, compileKotlinNative, compileHaskell, compileSwift,
           toolchainCompilers, carbonCompiler, zerolangCompiler, compileFSharp,
           compileVBNet, compileCSharp, dafnyCompiler, jvmCompilers,
           kotlinJVMCompiler, scriptCheckCompiler, compileTypeScript,
           coffeeScriptCompiler, elmCompiler, reScriptCompiler,
           pureScriptCompiler, compileWasm, assemblyScriptCompiler,
           bunCompiler, pythonLikeCompiler, entryCompiler, compileGleam,
           compileElixir, erlangCompiler, interpretedCompilers, nasmCompiler,
           compileIsabelle, kFrameworkCompiler, agdaCompiler, compileOCaml,
           compileRustCargo}

Command(j) == Head(plan[j].commands)

\* A build in one of these holds the lease of its command.
Leased == {"start", "group", "request", "watch", "kill", "ungroup", "release"}

Exclusive(j) == Command(j) \in Shared
-----------------------------------------------------------------------------
Init ==
    /\ pc = [j \in Job |-> "new"]
    /\ plan \in {p \in [Job -> compilerRegistry] : \A j \in Job : p[j] \in Offers[j]}
    /\ wide = [j \in Job |-> FALSE]
    /\ alive = [j \in Job |-> {}]
    /\ exit = [j \in Job |-> None]
    /\ done = [j \in Job |-> FALSE]
    /\ group = [j \in Job |-> FALSE]
    /\ leaked = [j \in Job |-> FALSE]
    /\ status = [j \in Job |-> None]
    /\ left = [j \in Job |-> 0]
    /\ counted = [j \in Job |-> 0]
    /\ read = [j \in Job |-> <<>>]
    /\ torn = [j \in Job |-> FALSE]
    /\ writer = None
    /\ readers = {}
    /\ link = [p \in Shared |-> None]
    /\ grouped \in Grouped

Goto(j, l) == pc' = [pc EXCEPT ![j] = l]

Set(j, s) == status' = [status EXCEPT ![j] = s]

\* The sources are refused, or written and made read-only for the sandbox.
materializeSources == {"OK", "Invalid"}
hardenCompileWorkspace == {"OK", "Internal"}

\* The request is refused, the workspace cannot be made, or the build begins.
Validate(j) ==
    /\ pc[j] = "new"
    /\ \E s \in {"OK", "Invalid", "Internal"} \cup materializeSources
                                       \cup hardenCompileWorkspace :
          Set(j, s) /\ Goto(j, IF s = "OK" THEN "next" ELSE "respond")
    /\ UNCHANGED <<plan, wide, alive, exit, done, group, leaked, artifacts, shared>>

\* The answers of a compiler that goes no further: the sources, the manifest or
\* the executable are not acceptable; a project file, a tool's home or a part of
\* the toolchain is missing or cannot be written.
sourcesRefused == {"Invalid"}
projectFails == {"Internal"}

\* Between commands a compiler may give up; one that checks the sources itself
\* may find an error in them.
GivesUp(j) ==
    /\ pc[j] = "next"
    /\ \E s \in sourcesRefused \cup projectFails
                 \cup IF plan[j].collect = "checked" THEN {"CompileError"} ELSE {} :
          Set(j, s)
    /\ Goto(j, "respond")
    /\ UNCHANGED <<plan, wide, alive, exit, done, group, leaked, artifacts, shared>>

\* A command's directories cannot be prepared or its program is not installed.
PreparationFails(j) ==
    /\ pc[j] = "next" /\ plan[j].commands # <<>>
    /\ Set(j, "Internal") /\ Goto(j, "respond")
    /\ UNCHANGED <<plan, wide, alive, exit, done, group, leaked, artifacts, shared>>

\* Mutant: the exclusive lease looks for another exclusive one only.
Busy_WriterOnly(j) == writer # None

\* The lease is tried, never waited for.
Busy(j) == IF Exclusive(j) THEN writer # None \/ readers # {} ELSE writer # None

Take(j) ==
    IF Exclusive(j) THEN writer' = j /\ UNCHANGED readers
                    ELSE readers' = readers \cup {j} /\ UNCHANGED writer

\* AcquireRuntimeState: busy, failed in the preparation of the shared path
\* (before or after the link was made), or held.  A server that does not manage the
\* filesystem, in development only, takes the lease and makes no link: left out.
AcquireRuntimeState(j) ==
    /\ pc[j] = "next" /\ plan[j].commands # <<>>
    /\ \/ /\ ~ Busy(j)
          /\ Take(j)
          /\ link' = IF Exclusive(j) THEN [link EXCEPT ![Command(j)] = j] ELSE link
          /\ Goto(j, "start") /\ UNCHANGED <<status, grouped>>
       \/ /\ ~ Busy(j) /\ Exclusive(j)
          /\ \E l \in {link, [link EXCEPT ![Command(j)] = None],
                       [link EXCEPT ![Command(j)] = j]} : link' = l
          /\ Set(j, "Internal") /\ Goto(j, "respond")
          /\ UNCHANGED <<writer, readers, grouped>>
       \/ /\ Busy(j)
          /\ Set(j, "Internal") /\ Goto(j, "respond")
          /\ UNCHANGED shared
    /\ UNCHANGED <<plan, wide, alive, exit, done, group, leaked, artifacts>>
-----------------------------------------------------------------------------
(* One sandboxed command.                                                  *)

\* Pipes and capture files, then the helper; os/exec starts nothing for a
\* context that is over.
Start(j) ==
    /\ pc[j] = "start"
    /\ \/ /\ ~ done[j]
          /\ alive' = [alive EXCEPT ![j] = @ \cup {"helper"}]
          /\ wide' = [wide EXCEPT ![j] = @ \/ Command(j) = "wide"]
          /\ Goto(j, "group") /\ UNCHANGED status
       \/ Set(j, "Internal") /\ Goto(j, "release") /\ UNCHANGED <<alive, wide>>
    /\ UNCHANGED <<plan, exit, done, group, leaked, artifacts, shared>>

\* SIGKILL to the process group, and Wait.
KillGroup(j) ==
    /\ alive' = [alive EXCEPT ![j] = @ \ {"helper", "member"}]
    /\ exit' = [exit EXCEPT ![j] = IF "helper" \in alive[j] THEN "signal" ELSE @]

\* The group is made and joined before the helper has its request; without a
\* configured parent there is none.
CreateRunGroup(j) ==
    /\ pc[j] = "group"
    /\ group' = [group EXCEPT ![j] = grouped]
    /\ Goto(j, "request")
    /\ UNCHANGED <<plan, wide, alive, exit, done, leaked, status, artifacts, shared>>

\* A controller cannot be enabled or the group cannot be made.
EnableControllersFails(j) ==
    /\ pc[j] = "group" /\ grouped
    /\ KillGroup(j)
    /\ Set(j, "Internal") /\ Goto(j, "release")
    /\ UNCHANGED <<plan, wide, done, group, leaked, artifacts, shared>>

\* The helper cannot join: the new group is removed again, if it can be.
AddProcFails(j) ==
    /\ pc[j] = "group" /\ grouped
    /\ KillGroup(j)
    /\ leaked' \in {leaked, [leaked EXCEPT ![j] = TRUE]}
    /\ Set(j, "Internal") /\ Goto(j, "release")
    /\ UNCHANGED <<plan, wide, done, group, artifacts, shared>>

\* The write blocks for as long as the helper does not read.
WriteRequest(j) ==
    /\ pc[j] = "request" /\ "helper" \in alive[j]
    /\ Goto(j, "watch")
    /\ UNCHANGED <<plan, wide, alive, exit, done, group, leaked, status,
                   artifacts, shared>>

\* Nobody is left to read it: the server closed its own reading end.
WriteFails(j) ==
    /\ pc[j] = "request" /\ "helper" \notin alive[j]
    /\ KillGroup(j)
    /\ Set(j, "Internal") /\ Goto(j, "ungroup")
    /\ UNCHANGED <<plan, wide, done, group, leaked, artifacts, shared>>

\* The group dies whole; of the others those seen near the build do, unless
\* they fork between the reading of the process table and the kill.  A process that
\* has been sent SIGKILL is taken to write nothing more, although the code waits for
\* the end of the helper alone.
killSandbox(j) ==
    \E survivors \in SUBSET (alive[j] \cap {"near"}) :
       /\ alive' = [alive EXCEPT ![j] = survivors \cup (@ \cap {"far"})]
       /\ exit' = [exit EXCEPT ![j] = IF "helper" \in alive[j] THEN "signal" ELSE @]

\* The context is over: kill, wait, Timeout.
WatchDone(j) ==
    /\ pc[j] = "watch" /\ done[j]
    /\ killSandbox(j)
    /\ Set(j, "Timeout") /\ Goto(j, "kill")
    /\ UNCHANGED <<plan, wide, done, group, leaked, artifacts, shared>>

\* A tick finds memory, processes or the workspace above their limits.
WatchBreach(j) ==
    /\ pc[j] = "watch" /\ alive[j] # {}
    /\ killSandbox(j)
    /\ Set(j, "CompileError") /\ Goto(j, "kill")
    /\ UNCHANGED <<plan, wide, done, group, leaked, artifacts, shared>>

classifyCompileWaitStatus(how) ==
    CASE how = "zero"   -> "OK"
      [] how = "xcpu"   -> "Timeout"
      [] how = "signal" -> "Internal"
      [] how = "code"   -> "CompileError"

\* The helper was waited for: a limit it broke, or else how it ended.
WatchExit(j) ==
    /\ pc[j] = "watch" /\ exit[j] # None
    /\ \E s \in {"CompileError", classifyCompileWaitStatus(exit[j])} : Set(j, s)
    /\ Goto(j, "kill")
    /\ UNCHANGED <<plan, wide, alive, exit, done, group, leaked, artifacts, shared>>

\* Mutant: only a command that was stopped is cleaned up after.
DeferredKill_StoppedOnly(j) ==
    /\ pc[j] = "kill"
    /\ IF status[j] = "OK" THEN UNCHANGED <<alive, exit>> ELSE killSandbox(j)
    /\ Goto(j, "ungroup")
    /\ UNCHANGED <<plan, wide, done, group, leaked, status, artifacts, shared>>

\* The deferred calls of the command, last registered first.
DeferredKill(j) ==
    /\ pc[j] = "kill"
    /\ killSandbox(j)
    /\ Goto(j, "ungroup")
    /\ UNCHANGED <<plan, wide, done, group, leaked, status, artifacts, shared>>

\* cgroup.kill ends every process of the group, and only then can its directory
\* be removed; both are tried again until the cleanup's deadline.
KillAndRemoveWithRetry(j) ==
    \/ alive' = [alive EXCEPT ![j] = {}] /\ UNCHANGED leaked
    \/ /\ leaked' = [leaked EXCEPT ![j] = TRUE]
       /\ \E survivors \in SUBSET alive[j] : alive' = [alive EXCEPT ![j] = survivors]

\* Kill and remove, or a warning in the log.
cleanupCompileCgroup(j) ==
    /\ pc[j] = "ungroup"
    /\ IF group[j] THEN KillAndRemoveWithRetry(j) ELSE UNCHANGED <<alive, leaked>>
    /\ group' = [group EXCEPT ![j] = FALSE]
    /\ Goto(j, "release")
    /\ UNCHANGED <<plan, wide, exit, done, status, artifacts, shared>>

\* removeExpectedSymlink, and then the sealing of the path: either may fail.
Cleanups(j) == IF Exclusive(j) THEN {"failed", "removed", "sealed"} ELSE {"sealed"}

\* Mutant: a cleanup that fails returns before it unlocks.
ReleaseRuntimeState_ErrorKeepsLock(j) ==
    /\ pc[j] = "release"
    /\ \E c \in Cleanups(j) :
          /\ writer' = IF c = "sealed" /\ writer = j THEN None ELSE writer
          /\ link' = IF Exclusive(j) /\ c # "failed"
                     THEN [link EXCEPT ![Command(j)] = None] ELSE link
          /\ Set(j, IF c # "sealed" /\ status[j] = "OK" THEN "Internal" ELSE status[j])
          /\ Goto(j, IF c = "sealed" /\ status[j] = "OK" THEN "next" ELSE "respond")
    /\ readers' = readers \ {j}
    /\ plan' = [plan EXCEPT ![j].commands = Tail(@)]
    /\ exit' = [exit EXCEPT ![j] = None]
    /\ UNCHANGED <<wide, alive, done, group, leaked, artifacts, grouped>>

\* The cleanup may fail, the unlocking does not; a failure replaces OK only, and
\* the first command that does not end OK is the build's answer.
ReleaseRuntimeState(j) ==
    /\ pc[j] = "release"
    /\ \E c \in Cleanups(j) :
          /\ link' = IF Exclusive(j) /\ c # "failed"
                     THEN [link EXCEPT ![Command(j)] = None] ELSE link
          /\ Set(j, IF c # "sealed" /\ status[j] = "OK" THEN "Internal" ELSE status[j])
          /\ Goto(j, IF c = "sealed" /\ status[j] = "OK" THEN "next" ELSE "respond")
    /\ writer' = IF writer = j THEN None ELSE writer
    /\ readers' = readers \ {j}
    /\ plan' = [plan EXCEPT ![j].commands = Tail(@)]
    /\ exit' = [exit EXCEPT ![j] = None]
    /\ UNCHANGED <<wide, alive, done, group, leaked, artifacts, grouped>>
-----------------------------------------------------------------------------
(* Collection and response.                                                *)

Collect(j) ==
    /\ pc[j] = "next" /\ plan[j].commands = <<>>
    /\ \E n \in CASE plan[j].collect \in {"all", "checked"} -> 0..2
                [] plan[j].collect \in {"each", "mixed"} -> 1..2
                [] OTHER -> {1} :
          /\ left' = [left EXCEPT ![j] = n]
          /\ Goto(j, IF n = 0 THEN "respond" ELSE "collect")
    /\ UNCHANGED <<plan, wide, alive, exit, done, group, leaked, status,
                   counted, read, torn, shared>>

\* A snapshot copies at most the limit into a private file.
snapshotCargoArtifact(sizes) == sizes \cap 0..FileLimit

\* What can be read from a file that had this size when it was opened: more if
\* somebody is still writing.
Data(j, size) ==
    LET grown == IF alive[j] = {} THEN {size} ELSE size..(FileLimit + 1)
    IN  IF plan[j].collect = "snapshot" THEN snapshotCargoArtifact(grown) ELSE grown

\* collectArtifacts keeps a sum of the sizes; a file that is read by itself is
\* held to its own limit only.
Summed(j) ==
    \/ plan[j].collect \in {"all", "checked"}
    \/ plan[j].collect = "mixed" /\ read[j] # <<>>

\* openArtifact, the limits on what was opened, and the reading to its end.
ReadArtifact(j) ==
    /\ pc[j] = "collect"
    /\ \E size \in 0..FileLimit :
          /\ Summed(j) => counted[j] + size <= TotalLimit
          /\ \E data \in Data(j, size) : read' = [read EXCEPT ![j] = Append(@, data)]
          /\ counted' = [counted EXCEPT ![j] =
                IF left[j] = 1 THEN 0 ELSE IF Summed(j) THEN @ + size ELSE @]
    /\ torn' = [torn EXCEPT ![j] = @ \/ alive[j] # {}]
    /\ left' = [left EXCEPT ![j] = @ - 1]
    /\ Goto(j, IF left[j] = 1 THEN "respond" ELSE "collect")
    /\ UNCHANGED <<plan, wide, alive, exit, done, group, leaked, status, shared>>

\* A link, a second name, no regular file, a limit, a torn snapshot.
RefuseArtifact(j) ==
    /\ pc[j] = "collect"
    /\ read' = [read EXCEPT ![j] = <<>>]
    /\ left' = [left EXCEPT ![j] = 0]
    /\ counted' = [counted EXCEPT ![j] = 0]
    /\ Set(j, "Internal") /\ Goto(j, "respond")
    /\ UNCHANGED <<plan, wide, alive, exit, done, group, leaked, torn, shared>>

\* Are the artifacts of a response within the bounds of the wire.
WithinBounds(sizes) ==
    /\ \A i \in DOMAIN sizes : sizes[i] <= FileLimit
    /\ FoldFunction(+, 0, sizes) <= TotalLimit

\* The context is canceled, the workspace removed, and the response bounded at
\* the service's edge.
PrepareResponse(j) ==
    /\ pc[j] = "respond"
    /\ IF WithinBounds(read[j])
       THEN UNCHANGED <<read, status>>
       ELSE Set(j, "Internal") /\ read' = [read EXCEPT ![j] = <<>>]
    /\ done' = [done EXCEPT ![j] = TRUE]
    /\ Goto(j, "done")
    /\ UNCHANGED <<plan, wide, alive, exit, group, leaked, left, counted, torn, shared>>
-----------------------------------------------------------------------------
(* The sandbox and the clock.                                              *)

Started == {"group", "request", "watch"}

\* Before it has its request the helper can only fail.
HelperExits(j) ==
    /\ pc[j] \in Started /\ "helper" \in alive[j]
    /\ alive' = [alive EXCEPT ![j] = @ \ {"helper"}]
    /\ \E how \in {"zero", "code", "signal", "xcpu"} :
          /\ how = "zero" => pc[j] = "watch"
          /\ exit' = [exit EXCEPT ![j] = how]
    /\ UNCHANGED <<pc, plan, wide, done, group, leaked, status, artifacts, shared>>

\* os/exec kills the helper itself when the context of its command is over.
CommandContextKills(j) ==
    /\ pc[j] \in Started /\ "helper" \in alive[j] /\ done[j]
    /\ alive' = [alive EXCEPT ![j] = @ \ {"helper"}]
    /\ exit' = [exit EXCEPT ![j] = "signal"]
    /\ UNCHANGED <<pc, plan, wide, done, group, leaked, status, artifacts, shared>>

\* A process forks; where new process groups are allowed the child may leave
\* its group, its parent and the workspace.
Fork(j) ==
    /\ alive[j] # {} /\ pc[j] \notin {"group", "request", "done"}
    /\ \E child \in {"member", "near", "far"} :
          /\ child = "member" => alive[j] \cap {"helper", "member"} # {}
          /\ child # "member" => \/ alive[j] \cap {"near", "far"} # {}
                                 \/ pc[j] \in Leased /\ Command(j) = "wide"
          /\ child \notin alive[j]
          /\ alive' = [alive EXCEPT ![j] = @ \cup {child}]
    /\ UNCHANGED <<pc, plan, wide, exit, done, group, leaked, status,
                   artifacts, shared>>

ChildEnds(j) ==
    /\ \E child \in alive[j] \ {"helper"} : alive' = [alive EXCEPT ![j] = @ \ {child}]
    /\ UNCHANGED <<pc, plan, wide, exit, done, group, leaked, status,
                   artifacts, shared>>

\* The build's deadline, or the request that is given up.
ContextEnds(j) ==
    /\ ~ done[j] /\ pc[j] \in {"next", "start"} \cup Started
    /\ done' = [done EXCEPT ![j] = TRUE]
    /\ UNCHANGED <<pc, plan, wide, alive, exit, group, leaked, status,
                   artifacts, shared>>

\* Steps of the service that nothing but the service delays.
Serve(j) ==
    \/ Validate(j) \/ GivesUp(j) \/ PreparationFails(j)
    \/ AcquireRuntimeState(j) \/ Start(j)
    \/ CreateRunGroup(j) \/ EnableControllersFails(j) \/ AddProcFails(j)
    \/ WriteFails(j) \/ WatchDone(j)
    \/ WatchExit(j) \/ DeferredKill(j) \/ cleanupCompileCgroup(j)
    \/ ReleaseRuntimeState(j) \/ Collect(j) \/ ReadArtifact(j)
    \/ RefuseArtifact(j) \/ PrepareResponse(j)

Environment(j) ==
    \/ WriteRequest(j) \/ WatchBreach(j) \/ HelperExits(j) \/ CommandContextKills(j) \/ Fork(j)
    \/ ChildEnds(j) \/ ContextEnds(j)

Finished == (\A j \in Job : pc[j] = "done" /\ alive[j] = {}) /\ UNCHANGED vars

Next == (\E j \in Job : Serve(j) \/ Environment(j)) \/ Finished

Spec == Init /\ [][Next]_vars

\* The scheduler runs the service's goroutines, the deadline passes, and
\* os/exec acts on it.
FairSpec ==
    /\ Spec
    /\ \A j \in Job : WF_vars(Serve(j)) /\ WF_vars(ContextEnds(j))
                          /\ WF_vars(CommandContextKills(j))
-----------------------------------------------------------------------------
(* Properties.                                                             *)

\* Is the build inside a command.
Running(j) == pc[j] \in Leased

\* Processes the cleanup of a command cannot promise to end: they left the
\* group of a command that may, and no cgroup caught them.
MayStray(j) ==
    wide[j] /\ (~ grouped \/ leaked[j])

\* The path a runtime shares with the whole machine leads to the build that
\* runs it and to nobody else's: while it does, no other build runs a command
\* (AcquireRuntimeState), and while an ordinary command runs the path is sealed
\* unless its last user, which could not seal it, did not answer OK (a cleanup that
\* fails turns OK into Internal and is otherwise only logged).
FixedPathIsPrivate ==
    \A j \in Job :
       Running(j) =>
          IF Exclusive(j)
          THEN /\ link[Command(j)] = j
               /\ \A k \in Job \ {j} : ~ Running(k) /\ (alive[k] # {} => MayStray(k))
          ELSE \A p \in Shared : link[p] # None => status[link[p]] \notin {None, "OK"}

\* Artifacts are read from a workspace nobody writes any more, except to the
\* extent that a process that may leave its group got away from a server that
\* has no working cgroup (runSandboxedCommandWithGroups kills before it
\* returns); and even then the response keeps the limits (PrepareResponse).
ArtifactsAreWhole ==
    \A j \in Job :
       /\ torn[j] => MayStray(j)
       /\ pc[j] = "done" => WithinBounds(read[j]) /\ (status[j] # "OK" => read[j] = <<>>)

\* Every build returns, its lease with it: a helper that never reads its
\* request, ends or stops forking is ended by the build's deadline.
BuildReturns == \A j \in Job : (pc[j] # "new") ~> (pc[j] = "done" /\ j \notin readers \cup {writer})
=============================================================================
