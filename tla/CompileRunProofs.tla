-------------------------- MODULE CompileRunProofs --------------------------
(***************************************************************************)
(* Machine-checked proofs about CompileRun, for any number of builds, any  *)
(* plans of the registry and any limits.                                   *)
(*                                                                         *)
(* That a shared path leads to the build that runs it is not inductive by  *)
(* itself.  It rests on the lease (LeaseOK: who is inside a command holds  *)
(* it, and nobody else), on what may be left of a path (LinkOK), and on    *)
(* which processes can be alive at which point of a command (ProcessesOK): *)
(* the processes of a build that has left its command are strays.          *)
(***************************************************************************)
EXTENDS CompileRun, TLAPS, SequenceTheorems

Commands == {"plain", "wide", "dotnet", "konan"}

Plans == [commands : Seq(Commands), collect : Collections]

Steps == {"new", "next", "start", "group", "request", "watch", "kill", "ungroup",
          "release", "collect", "respond", "done"}

Kinds == {"helper", "member", "near", "far"}

Exits == {"zero", "xcpu", "signal", "code"}

Statuses == {"OK", "Invalid", "Internal", "Timeout", "CompileError"}

Failed(s) == s \in Statuses \ {"OK"}

TypeOK ==
    /\ pc \in [Job -> Steps]
    /\ plan \in [Job -> Plans]
    /\ wide \in [Job -> BOOLEAN] /\ torn \in [Job -> BOOLEAN] /\ done \in [Job -> BOOLEAN]
    /\ group \in [Job -> BOOLEAN] /\ leaked \in [Job -> BOOLEAN] /\ grouped \in BOOLEAN
    /\ alive \in [Job -> SUBSET Kinds]
    /\ exit \in [Job -> Exits \cup {None}]
    /\ status \in [Job -> Statuses \cup {None}]
    /\ left \in [Job -> Nat] /\ counted \in [Job -> Nat] /\ read \in [Job -> Seq(Nat)]
    /\ writer \in Job \cup {None} /\ readers \in SUBSET Job
    /\ link \in [Shared -> Job \cup {None}]

\* Who is inside a command holds the lease it needs, nobody else holds one, and a
\* writer is alone.
LeaseOK ==
    /\ \A j \in Job :
          /\ Running(j) => /\ plan[j].commands # <<>>
                           /\ IF Exclusive(j) THEN writer = j ELSE j \in readers
          /\ writer = j \/ j \in readers => Running(j)
    /\ writer # None => readers = {}

\* A shared path leads to the build that runs it, is sealed, or was left behind by a
\* build that has failed and does nothing any more.
LinkOK ==
    /\ \A j \in Job : Running(j) /\ Exclusive(j) => link[Command(j)] = j
    /\ \A p \in Shared :
          LET j == link[p] IN
          j # None => \/ writer = j /\ Command(j) = p
                      \/ pc[j] \in {"respond", "done"} /\ Failed(status[j])

Settled == {"new", "next", "start", "release", "collect", "respond", "done"}

\* What can be alive where: no helper and no member of its group where no command
\* runs, nobody outside the group unless a command may leave it, and outside of
\* commands, or until a command is under way, only strays.
ProcessesOK ==
    \A j \in Job :
       /\ pc[j] \in Settled \cup {"ungroup"} => alive[j] \subseteq {"near", "far"}
       /\ alive[j] \cap {"near", "far"} # {} => wide[j]
       /\ pc[j] \in Leased \ {"start", "release"} /\ Command(j) = "wide" => wide[j]
       /\ pc[j] \in Settled /\ alive[j] # {} => MayStray(j)
       /\ pc[j] = "group" /\ alive[j] \cap {"near", "far"} # {} => MayStray(j)
       /\ pc[j] \in {"request", "watch", "kill", "ungroup"} => group[j] = grouped

\* Until it has failed a build's status is OK, and only its last steps keep data.
StatusOK ==
    \A j \in Job :
       /\ pc[j] = "new" <=> status[j] = None
       /\ pc[j] \in {"next", "collect"} => status[j] = "OK"
       /\ pc[j] \notin {"collect", "respond", "done"} => read[j] = <<>>
       /\ status[j] # "OK" => read[j] = <<>>
       /\ pc[j] = "collect" => left[j] \in Nat \ {0}
       /\ pc[j] = "done" => WithinBounds(read[j])
       /\ torn[j] => MayStray(j)

IInv == TypeOK /\ LeaseOK /\ LinkOK /\ ProcessesOK /\ StatusOK

-----------------------------------------------------------------------------
(* Plans and bounds. *)

\* A command run up to n times in a row.
LEMMA RepeatedCommand ==
    ASSUME NEW n \in Nat, NEW command \in Commands
    PROVE  AtMost(n, command) \subseteq Seq(Commands)
  <1>1. ASSUME NEW k \in 1 .. n PROVE [1..k -> {command}] \subseteq Seq(Commands)
    <2>1. [1..k -> {command}] \subseteq [1..k -> Commands]
      OBVIOUS
    <2>2. k \in Nat
      OBVIOUS
    <2> QED
      BY <2>1, <2>2, SeqDef
  <1> QED
    BY <1>1 DEF AtMost

\* Every plan of the registry is a sequence of commands and a way to collect.
LEMMA RegistryPlans == compilerRegistry \subseteq Plans
  <1>1. ASSUME NEW k \in Collections, NEW c \in Seq(Commands) PROVE Plan(c, k) \in Plans
    BY DEF Plan, Plans
  <1>2. /\ <<>> \in Seq(Commands) /\ <<"plain">> \in Seq(Commands) /\ <<"wide">> \in Seq(Commands)
        /\ <<"konan">> \in Seq(Commands) /\ <<"dotnet">> \in Seq(Commands)
        /\ <<"plain", "plain">> \in Seq(Commands)
        /\ <<"plain", "plain", "plain">> \in Seq(Commands)
    BY DEF Commands
  <1>3. /\ AtMost(2, "plain") \subseteq Seq(Commands)
        /\ AtMost(2, "dotnet") \subseteq Seq(Commands)
    BY RepeatedCommand DEF Commands
  <1>4. {"one", "snapshot", "each", "all", "mixed", "checked"} = Collections
    BY DEF Collections
  <1>5. Ordinary \subseteq Plans /\ OrdinaryAll \subseteq Plans
    BY <1>1, <1>2, <1>4 DEF Ordinary, OrdinaryAll
  <1>6. ASSUME NEW command \in {"plain", "dotnet"}
        PROVE  checkedSourcesCompiler(command) \subseteq Plans
    BY <1>1, <1>3, <1>4 DEF checkedSourcesCompiler
  <1>7. /\ nativeCompiler \subseteq Plans /\ compileRust \subseteq Plans
        /\ compileGo \subseteq Plans
        /\ singleSourceExecutableCompiler \subseteq Plans /\ mercuryCompiler \subseteq Plans
        /\ verilogCompilers \subseteq Plans
        /\ kokaCompiler \subseteq Plans /\ intercalCompiler \subseteq Plans
        /\ compileHaskell \subseteq Plans
        /\ toolchainCompilers \subseteq Plans /\ coffeeScriptCompiler \subseteq Plans
        /\ elmCompiler \subseteq Plans
        /\ compileWasm \subseteq Plans /\ compileOCaml \subseteq Plans
        /\ idris2Compiler \subseteq Plans
        /\ compileTypeScript \subseteq Plans /\ pythonLikeCompiler \subseteq Plans
        /\ entryCompiler \subseteq Plans
        /\ compileGleam \subseteq Plans /\ erlangCompiler \subseteq Plans
    BY <1>5
    DEF nativeCompiler, compileRust, compileGo, singleSourceExecutableCompiler,
        mercuryCompiler, verilogCompilers, kokaCompiler, intercalCompiler, compileHaskell,
        toolchainCompilers, coffeeScriptCompiler, elmCompiler, compileWasm, compileOCaml,
        idris2Compiler, compileTypeScript, pythonLikeCompiler, entryCompiler, compileGleam,
        erlangCompiler
  <1>8. /\ scriptCheckCompiler \subseteq Plans /\ dafnyCompiler \subseteq Plans
        /\ compileElixir \subseteq Plans
        /\ interpretedCompilers \subseteq Plans /\ agdaCompiler \subseteq Plans
    BY <1>6
    DEF scriptCheckCompiler, dafnyCompiler, compileElixir, interpretedCompilers,
        agdaCompiler
  <1>9. /\ passThroughCompilers \subseteq Plans /\ sourceOnlyCompilers \subseteq Plans
        /\ compileMalbolge \subseteq Plans
        /\ compileUnlambda \subseteq Plans /\ compilePiet \subseteq Plans
        /\ compileVHDL \subseteq Plans
        /\ compileHare \subseteq Plans /\ compileKotlinNative \subseteq Plans
        /\ compileSwift \subseteq Plans
        /\ carbonCompiler \subseteq Plans /\ zerolangCompiler \subseteq Plans
    BY <1>1, <1>2, <1>4
    DEF passThroughCompilers, sourceOnlyCompilers, compileMalbolge, compileUnlambda,
        compilePiet, compileVHDL, compileHare, compileKotlinNative, compileSwift,
        carbonCompiler, zerolangCompiler
  <1>10. /\ compileFSharp \subseteq Plans /\ compileVBNet \subseteq Plans
         /\ compileCSharp \subseteq Plans
         /\ kotlinJVMCompiler \subseteq Plans /\ reScriptCompiler \subseteq Plans
         /\ pureScriptCompiler \subseteq Plans
         /\ assemblyScriptCompiler \subseteq Plans /\ nasmCompiler \subseteq Plans
         /\ compileIsabelle \subseteq Plans
         /\ kFrameworkCompiler \subseteq Plans /\ compileRustCargo \subseteq Plans
    BY <1>1, <1>2, <1>4
    DEF compileFSharp, compileVBNet, compileCSharp, kotlinJVMCompiler, reScriptCompiler,
        pureScriptCompiler, assemblyScriptCompiler, nasmCompiler, compileIsabelle,
        kFrameworkCompiler, compileRustCargo
  <1>11. /\ jvmCompilers \subseteq Plans /\ bunCompiler \subseteq Plans
    BY <1>1, <1>3, <1>4
    DEF jvmCompilers, bunCompiler
  <1> QED
    BY <1>7, <1>8, <1>9, <1>10, <1>11 DEF compilerRegistry

\* A response without artifacts is within the bounds.
LEMMA NothingWithinBounds == WithinBounds(<<>>)
  <1> DEFINE F(iter) == iter = [s \in SUBSET {} |->
                 IF s = {} THEN 0
                 ELSE LET x == CHOOSE y \in s : TRUE IN <<>>[x] + iter[s \ {x}]]
             g == [s \in SUBSET {} |-> 0]
  <1>1. F(g)
    OBVIOUS
  <1>2. DOMAIN <<>> = {}
    OBVIOUS
  <1>3. WithinBounds(<<>>) <=> (CHOOSE iter : F(iter))[{}] <= TotalLimit
    BY <1>2 DEF WithinBounds, FoldFunction, FoldFunctionOnSet, MapThenFoldSet
  <1>4. ASSUME NEW h, F(h) PROVE h[{}] = 0
    BY <1>4
  <1>5. F(CHOOSE iter : F(iter))
    BY <1>1
  <1> HIDE DEF F
  <1>6. (CHOOSE iter : F(iter))[{}] = 0
    BY <1>4, <1>5
  <1> QED
    BY <1>3, <1>6, LimitsAssumption

-----------------------------------------------------------------------------
(* One lemma per action. *)

\* A kill of the process group ends the helper and its group and leaves the others.
LEMMA KillGroupFacts ==
    ASSUME TypeOK, NEW j \in Job, KillGroup(j)
    PROVE  /\ alive' \in [Job -> SUBSET Kinds] /\ exit' \in [Job -> Exits \cup {None}]
           /\ alive'[j] = alive[j] \cap {"near", "far"}
           /\ \A k \in Job \ {j} : alive'[k] = alive[k]
  BY DEF TypeOK, KillGroup, Kinds, Exits

\* So does killSandbox, which also ends some of the others.
LEMMA KillSandboxFacts ==
    ASSUME TypeOK, NEW j \in Job, killSandbox(j)
    PROVE  /\ alive' \in [Job -> SUBSET Kinds] /\ exit' \in [Job -> Exits \cup {None}]
           /\ alive'[j] \subseteq alive[j] \cap {"near", "far"}
           /\ \A k \in Job \ {j} : alive'[k] = alive[k]
  <1>1. PICK survivors \in SUBSET (alive[j] \cap {"near"}) :
             alive' = [alive EXCEPT ![j] = survivors \cup (@ \cap {"far"})]
    BY DEF killSandbox
  <1>2. exit' = [exit EXCEPT ![j] = IF "helper" \in alive[j] THEN "signal" ELSE @]
    BY DEF killSandbox
  <1>3. alive[j] \in SUBSET Kinds
    BY DEF TypeOK
  <1>4. survivors \cup (alive[j] \cap {"far"}) \in SUBSET Kinds
    BY <1>3
  <1>5. /\ alive' \in [Job -> SUBSET Kinds]
        /\ alive'[j] = survivors \cup (alive[j] \cap {"far"})
        /\ \A k \in Job \ {j} : alive'[k] = alive[k]
    BY <1>1, <1>4 DEF TypeOK
  <1>6. exit' \in [Job -> Exits \cup {None}]
    BY <1>2 DEF TypeOK, Exits
  <1> QED
    BY <1>5, <1>6

\* The removal of a cgroup ends its processes, or is reported.
LEMMA KillAndRemoveFacts ==
    ASSUME TypeOK, NEW j \in Job, KillAndRemoveWithRetry(j)
    PROVE  /\ alive' \in [Job -> SUBSET Kinds] /\ leaked' \in [Job -> BOOLEAN]
           /\ alive'[j] \subseteq alive[j] /\ (alive'[j] # {} => leaked'[j])
           /\ (leaked[j] => leaked'[j])
           /\ \A k \in Job \ {j} : alive'[k] = alive[k] /\ leaked'[k] = leaked[k]
  <1>1. CASE alive' = [alive EXCEPT ![j] = {}] /\ UNCHANGED leaked
    BY <1>1 DEF TypeOK
  <1>2. CASE /\ leaked' = [leaked EXCEPT ![j] = TRUE]
             /\ \E survivors \in SUBSET alive[j] : alive' = [alive EXCEPT ![j] = survivors]
    <2>1. PICK survivors \in SUBSET alive[j] : alive' = [alive EXCEPT ![j] = survivors]
      BY <1>2
    <2>2. survivors \in SUBSET Kinds
      BY <2>1 DEF TypeOK
    <2> QED
      BY <1>2, <2>1, <2>2 DEF TypeOK
  <1> QED
    BY <1>1, <1>2 DEF KillAndRemoveWithRetry

\* Validation and the writing of the sources hold no lease and start nothing.
LEMMA ValidateKeeps ==
    ASSUME IInv, NEW j \in Job, Validate(j)
    PROVE  IInv'
  <1> USE DEF Validate, materializeSources, hardenCompileWorkspace, IInv, None, Goto,
        Set, shared, artifacts, Leased, Settled, Running, Exclusive, Command
  <1>1. TypeOK'
    BY DEF TypeOK, Steps, Statuses, Kinds, Exits, Shared, Plans
  <1>2. LeaseOK'
    BY JobAssumption DEF TypeOK, LeaseOK
  <1>3. LinkOK'
    BY JobAssumption DEF TypeOK, LeaseOK, LinkOK, Failed, Statuses
  <1>4. ProcessesOK'
    BY DEF TypeOK, ProcessesOK, MayStray, Kinds
  <1>5. StatusOK'
    BY NothingWithinBounds DEF TypeOK, ProcessesOK, StatusOK, MayStray
  <1> QED
    BY <1>1, <1>2, <1>3, <1>4, <1>5

\* A compiler that gives up between commands has failed and keeps no data.
LEMMA GivesUpKeeps ==
    ASSUME IInv, NEW j \in Job, GivesUp(j)
    PROVE  IInv'
  <1> USE DEF GivesUp, sourcesRefused, projectFails, IInv, None, Goto, Set, shared,
        artifacts, Leased, Settled, Running, Exclusive, Command
  <1>1. TypeOK'
    BY DEF TypeOK, Steps, Statuses, Kinds, Exits, Shared, Plans
  <1>2. LeaseOK'
    BY JobAssumption DEF TypeOK, LeaseOK
  <1>3. LinkOK'
    BY JobAssumption DEF TypeOK, LeaseOK, LinkOK, Failed, Statuses
  <1>4. ProcessesOK'
    BY DEF TypeOK, ProcessesOK, MayStray, Kinds
  <1>5. StatusOK'
    BY NothingWithinBounds DEF TypeOK, ProcessesOK, StatusOK, MayStray
  <1> QED
    BY <1>1, <1>2, <1>3, <1>4, <1>5

\* So has one whose command cannot be prepared.
LEMMA PreparationFailsKeeps ==
    ASSUME IInv, NEW j \in Job, PreparationFails(j)
    PROVE  IInv'
  <1> USE DEF PreparationFails, IInv, None, Goto, Set, shared, artifacts, Leased,
        Settled, Running, Exclusive, Command
  <1>1. TypeOK'
    BY DEF TypeOK, Steps, Statuses, Kinds, Exits, Shared, Plans
  <1>2. LeaseOK'
    BY JobAssumption DEF TypeOK, LeaseOK
  <1>3. LinkOK'
    BY JobAssumption DEF TypeOK, LeaseOK, LinkOK, Failed, Statuses
  <1>4. ProcessesOK'
    BY DEF TypeOK, ProcessesOK, MayStray, Kinds
  <1>5. StatusOK'
    BY NothingWithinBounds DEF TypeOK, ProcessesOK, StatusOK, MayStray
  <1> QED
    BY <1>1, <1>2, <1>3, <1>4, <1>5

\* The lease is taken only when nobody is in the way, and the path made with it.
LEMMA AcquireRuntimeStateKeeps ==
    ASSUME IInv, NEW j \in Job, AcquireRuntimeState(j)
    PROVE  IInv'
  <1> USE DEF AcquireRuntimeState, Busy, Take, IInv, None, Goto, Set, shared,
        artifacts, Leased, Settled, Running, Exclusive, Command
  <1>1. TypeOK'
    <2>1. pc' \in [Job -> Steps] /\ status' \in [Job -> Statuses \cup {None}]
      BY DEF TypeOK, Steps, Statuses
    <2>2. writer' \in Job \cup {None} /\ readers' \in SUBSET Job
      BY DEF TypeOK
    <2>3. \/ link' = link
          \/ \E b \in Job \cup {None} : link' = [link EXCEPT ![Command(j)] = b]
      OBVIOUS
    <2>4. link' \in [Shared -> Job \cup {None}]
      <3>1. CASE link' = link
        BY <3>1 DEF TypeOK
      <3>2. ASSUME NEW b \in Job \cup {None}, link' = [link EXCEPT ![Command(j)] = b]
            PROVE  link' \in [Shared -> Job \cup {None}]
        <4> HIDE DEF AcquireRuntimeState, None, Command
        <4> QED
          BY <3>2 DEF TypeOK
      <3> QED
        BY <2>3, <3>1, <3>2
    <2> QED
      BY <2>1, <2>2, <2>4 DEF TypeOK
  <1>2. LeaseOK'
    BY JobAssumption DEF TypeOK, LeaseOK
  <1>3. LinkOK'
    <2> DEFINE p == Command(j)
    <2>1. CASE ~Exclusive(j) \/ Busy(j)
      <3>1. /\ pc[j] = "next" /\ UNCHANGED <<plan, link>>
            /\ \/ pc' = [pc EXCEPT ![j] = "start"] /\ ~Exclusive(j) /\ UNCHANGED <<writer, status>>
               \/ /\ pc' = [pc EXCEPT ![j] = "respond"] /\ UNCHANGED <<writer, readers>>
                  /\ status' = [status EXCEPT ![j] = "Internal"]
        BY <2>1
      <3> HIDE DEF AcquireRuntimeState, Busy
      <3>2. ASSUME NEW k \in Job, Running(k)', Exclusive(k)'
            PROVE  link'[Command(k)'] = k
        <4>1. k # j
          BY <3>1, <3>2 DEF TypeOK
        <4> QED
          BY <3>1, <3>2, <4>1 DEF TypeOK, LinkOK
      <3>3. ASSUME NEW q \in Shared, NEW k \in Job, link'[q] = k
            PROVE  \/ writer' = k /\ Command(k)' = q
                   \/ pc'[k] \in {"respond", "done"} /\ Failed(status'[k])
        <4>1. link[q] = k /\ k # None
          BY <3>1, <3>3, JobAssumption DEF TypeOK
        <4>2. \/ writer = k /\ Command(k) = q
              \/ pc[k] \in {"respond", "done"} /\ Failed(status[k])
          BY <4>1 DEF LinkOK
        <4>3. CASE writer = k /\ Command(k) = q
          <5>1. Running(k)
            BY <4>3 DEF LeaseOK
          <5> QED
            BY <3>1, <4>3, <5>1 DEF LeaseOK
        <4>4. CASE pc[k] \in {"respond", "done"} /\ Failed(status[k])
          BY <3>1, <4>4 DEF TypeOK
        <4> QED
          BY <4>2, <4>3, <4>4
      <3>4. link' \in [Shared -> Job \cup {None}]
        BY <1>1 DEF TypeOK
      <3> QED
        BY <3>2, <3>3, <3>4 DEF LinkOK
    <2>2. CASE Exclusive(j) /\ ~Busy(j)
      <3>1. /\ pc[j] = "next" /\ UNCHANGED plan /\ writer = None /\ readers = {} /\ p \in Shared
            /\ \A q \in Shared \ {p} : link'[q] = link[q]
        BY <2>2 DEF TypeOK
      <3>2. \A k \in Job : ~Running(k)
        BY <3>1, JobAssumption DEF LeaseOK, TypeOK
      <3>3. CASE /\ writer' = j /\ link' = [link EXCEPT ![p] = j] /\ UNCHANGED status
                 /\ pc' = [pc EXCEPT ![j] = "start"]
        BY <3>1, <3>2, <3>3, JobAssumption DEF TypeOK, LinkOK, Failed, Statuses
      <3>4. CASE /\ UNCHANGED <<writer, readers>> /\ link'[p] \in {link[p], None, j}
                 /\ status' = [status EXCEPT ![j] = "Internal"]
                 /\ pc' = [pc EXCEPT ![j] = "respond"]
        <4>1. \A k \in Job : pc'[k] \notin {"start", "group", "request", "watch",
                "kill", "ungroup", "release"}
          BY <3>2, <3>4 DEF TypeOK
        <4>2. \A k \in Job : pc[k] \in {"respond", "done"} /\ Failed(status[k])
                               => pc'[k] \in {"respond", "done"} /\ Failed(status'[k])
          BY <3>1, <3>4 DEF TypeOK
        <4>3. pc'[j] = "respond" /\ Failed(status'[j])
          BY <3>4 DEF TypeOK, Failed, Statuses
        <4> HIDE DEF Command, AcquireRuntimeState, Exclusive
        <4>4. ASSUME NEW q \in Shared, link'[q] # None
              PROVE  pc'[link'[q]] \in {"respond", "done"} /\ Failed(status'[link'[q]])
          <5>1. link'[q] = j \/ link'[q] = link[q]
            BY <3>1, <3>4, <4>4
          <5>2. link[q] \in Job \/ link[q] = None
            BY DEF TypeOK
          <5> QED
            BY <3>1, <4>2, <4>3, <4>4, <5>1, <5>2, JobAssumption DEF LinkOK
        <4> QED
          BY <4>1, <4>4 DEF LinkOK
      <3> QED
        BY <2>2, <3>3, <3>4 DEF TypeOK
    <2> HIDE DEF AcquireRuntimeState, Exclusive, Busy
    <2> QED
      BY <2>1, <2>2
  <1>4. ProcessesOK'
    <2>1. /\ pc[j] = "next" /\ UNCHANGED <<plan, alive, wide, leaked, group, grouped>>
          /\ pc' = [pc EXCEPT ![j] = "start"] \/ pc' = [pc EXCEPT ![j] = "respond"]
      OBVIOUS
    <2>2. pc'[j] \in {"start", "respond"} /\ \A k \in Job \ {j} : pc'[k] = pc[k]
      BY <2>1 DEF TypeOK
    <2> HIDE DEF AcquireRuntimeState
    <2> QED
      BY <2>1, <2>2 DEF ProcessesOK, MayStray
  <1>5. StatusOK'
    BY NothingWithinBounds DEF TypeOK, ProcessesOK, StatusOK, MayStray
  <1> QED
    BY <1>1, <1>2, <1>3, <1>4, <1>5

\* A helper is started by a holder of the lease.
LEMMA StartKeeps ==
    ASSUME IInv, NEW j \in Job, Start(j)
    PROVE  IInv'
  <1> USE DEF Start, IInv, None, Goto, Set, shared, artifacts, Leased, Settled,
        Running, Exclusive, Command
  <1>1. TypeOK'
    <2>1. pc' \in [Job -> Steps] /\ status' \in [Job -> Statuses \cup {None}]
      BY DEF TypeOK, Steps, Statuses
    <2>2. alive[j] \cup {"helper"} \in SUBSET Kinds
      BY DEF TypeOK, Kinds
    <2>3. alive' = alive \/ alive' = [alive EXCEPT ![j] = alive[j] \cup {"helper"}]
      OBVIOUS
    <2>5. alive' \in [Job -> SUBSET Kinds]
      <3> HIDE DEF Start
      <3> QED
        BY <2>2, <2>3 DEF TypeOK
    <2>4. wide' \in [Job -> BOOLEAN]
      BY DEF TypeOK
    <2> QED
      BY <2>1, <2>4, <2>5 DEF TypeOK
  <1>2. LeaseOK'
    BY JobAssumption, ZenonT(30) DEF TypeOK, LeaseOK
  <1>3. LinkOK'
    <2>1. /\ pc[j] = "start" /\ UNCHANGED <<plan, writer, link>>
          /\ pc' = [pc EXCEPT ![j] = "group"] \/ pc' = [pc EXCEPT ![j] = "release"]
          /\ \A k \in Job \ {j} : status'[k] = status[k]
      BY DEF TypeOK
    <2> HIDE DEF Start, Exclusive
    <2> QED
      BY <2>1, JobAssumption DEF TypeOK, LinkOK, Exclusive
  <1>4. ProcessesOK'
    <2>1. CASE /\ alive' = [alive EXCEPT ![j] = @ \cup {"helper"}]
               /\ wide' = [wide EXCEPT ![j] = @ \/ Command(j) = "wide"]
               /\ pc' = [pc EXCEPT ![j] = "group"]
      <3>1. /\ alive'[j] \cap {"near", "far"} = alive[j] \cap {"near", "far"}
            /\ wide'[j] = (wide[j] \/ Command(j) = "wide") /\ pc'[j] = "group"
            /\ pc[j] = "start" /\ UNCHANGED <<plan, leaked, group, grouped>>
        BY <2>1 DEF TypeOK
      <3>2. \A k \in Job \ {j} : alive'[k] = alive[k] /\ wide'[k] = wide[k] /\ pc'[k] = pc[k]
        BY <2>1 DEF TypeOK
      <3> HIDE DEF Start, Command
      <3> QED
        BY <3>1, <3>2 DEF ProcessesOK, MayStray, Command
    <2>2. CASE pc' = [pc EXCEPT ![j] = "release"] /\ UNCHANGED <<alive, wide>>
      BY <2>2 DEF TypeOK, ProcessesOK, MayStray
    <2> QED
      BY <2>1, <2>2
  <1>5. StatusOK'
    BY NothingWithinBounds DEF TypeOK, ProcessesOK, StatusOK, MayStray
  <1> QED
    BY <1>1, <1>2, <1>3, <1>4, <1>5

\* From here on the command is in a cgroup if there is a parent for one.
LEMMA CreateRunGroupKeeps ==
    ASSUME IInv, NEW j \in Job, CreateRunGroup(j)
    PROVE  IInv'
  <1> USE DEF CreateRunGroup, IInv, None, Goto, Set, shared, artifacts, Leased,
        Settled, Running, Exclusive, Command
  <1>1. TypeOK'
    BY DEF TypeOK, Steps, Statuses, Kinds, Exits, Shared, Plans
  <1>2. LeaseOK'
    BY JobAssumption DEF TypeOK, LeaseOK
  <1>3. LinkOK'
    BY JobAssumption DEF TypeOK, LeaseOK, LinkOK, Failed, Statuses
  <1>4. ProcessesOK'
    BY DEF TypeOK, ProcessesOK, MayStray, Kinds
  <1>5. StatusOK'
    BY NothingWithinBounds DEF TypeOK, ProcessesOK, StatusOK, MayStray
  <1> QED
    BY <1>1, <1>2, <1>3, <1>4, <1>5

\* A command whose controllers cannot be enabled leaves nothing but strays.
LEMMA EnableControllersFailsKeeps ==
    ASSUME IInv, NEW j \in Job, EnableControllersFails(j)
    PROVE  IInv'
  <1> USE DEF EnableControllersFails, IInv, None, Goto, Set, shared, artifacts, Leased,
        Settled, Running, Exclusive, Command
  <1>1. TypeOK'
    BY KillGroupFacts DEF TypeOK, Steps, Statuses, Kinds, Exits, Shared, Plans
  <1>2. LeaseOK'
    BY JobAssumption DEF TypeOK, LeaseOK
  <1>3. LinkOK'
    BY JobAssumption DEF TypeOK, LeaseOK, LinkOK, Failed, Statuses
  <1>4. ProcessesOK'
    <2>1. /\ pc[j] = "group" /\ pc' = [pc EXCEPT ![j] = "release"]
          /\ UNCHANGED <<plan, wide, group, grouped>>
          /\ leaked' \in [Job -> BOOLEAN] /\ \A k \in Job : leaked[k] => leaked'[k]
      BY DEF TypeOK
    <2>2. /\ alive' \in [Job -> SUBSET Kinds] /\ alive'[j] = alive[j] \cap {"near", "far"}
          /\ \A k \in Job \ {j} : alive'[k] = alive[k]
      BY KillGroupFacts
    <2> HIDE DEF EnableControllersFails, Command
    <2> QED
      BY <2>1, <2>2 DEF TypeOK, ProcessesOK, MayStray, Command
  <1>5. StatusOK'
    BY KillGroupFacts, NothingWithinBounds DEF TypeOK, ProcessesOK, StatusOK, MayStray
  <1> QED
    BY <1>1, <1>2, <1>3, <1>4, <1>5

\* Nor does one whose helper cannot join its cgroup.
LEMMA AddProcFailsKeeps ==
    ASSUME IInv, NEW j \in Job, AddProcFails(j)
    PROVE  IInv'
  <1> USE DEF AddProcFails, IInv, None, Goto, Set, shared, artifacts, Leased, Settled,
        Running, Exclusive, Command
  <1>1. TypeOK'
    BY KillGroupFacts DEF TypeOK, Steps, Statuses, Kinds, Exits, Shared, Plans
  <1>2. LeaseOK'
    BY JobAssumption DEF TypeOK, LeaseOK
  <1>3. LinkOK'
    BY JobAssumption DEF TypeOK, LeaseOK, LinkOK, Failed, Statuses
  <1>4. ProcessesOK'
    <2>1. /\ pc[j] = "group" /\ pc' = [pc EXCEPT ![j] = "release"]
          /\ UNCHANGED <<plan, wide, group, grouped>>
          /\ leaked' \in [Job -> BOOLEAN] /\ \A k \in Job : leaked[k] => leaked'[k]
      BY DEF TypeOK
    <2>2. /\ alive' \in [Job -> SUBSET Kinds] /\ alive'[j] = alive[j] \cap {"near", "far"}
          /\ \A k \in Job \ {j} : alive'[k] = alive[k]
      BY KillGroupFacts
    <2> HIDE DEF AddProcFails, Command
    <2> QED
      BY <2>1, <2>2 DEF TypeOK, ProcessesOK, MayStray, Command
  <1>5. StatusOK'
    BY KillGroupFacts, NothingWithinBounds DEF TypeOK, ProcessesOK, StatusOK, MayStray
  <1> QED
    BY <1>1, <1>2, <1>3, <1>4, <1>5

\* The helper has its request.
LEMMA WriteRequestKeeps ==
    ASSUME IInv, NEW j \in Job, WriteRequest(j)
    PROVE  IInv'
  <1> USE DEF WriteRequest, IInv, None, Goto, Set, shared, artifacts, Leased, Settled,
        Running, Exclusive, Command
  <1>1. TypeOK'
    BY DEF TypeOK, Steps, Statuses, Kinds, Exits, Shared, Plans
  <1>2. LeaseOK'
    BY JobAssumption DEF TypeOK, LeaseOK
  <1>3. LinkOK'
    BY JobAssumption DEF TypeOK, LeaseOK, LinkOK, Failed, Statuses
  <1>4. ProcessesOK'
    BY DEF TypeOK, ProcessesOK, MayStray, Kinds
  <1>5. StatusOK'
    BY NothingWithinBounds DEF TypeOK, ProcessesOK, StatusOK, MayStray
  <1> QED
    BY <1>1, <1>2, <1>3, <1>4, <1>5

\* The helper is gone before it has its request.
LEMMA WriteFailsKeeps ==
    ASSUME IInv, NEW j \in Job, WriteFails(j)
    PROVE  IInv'
  <1> USE DEF WriteFails, IInv, None, Goto, Set, shared, artifacts, Leased, Settled,
        Running, Exclusive, Command
  <1>1. TypeOK'
    BY KillGroupFacts DEF TypeOK, Steps, Statuses, Kinds, Exits, Shared, Plans
  <1>2. LeaseOK'
    BY JobAssumption DEF TypeOK, LeaseOK
  <1>3. LinkOK'
    BY JobAssumption DEF TypeOK, LeaseOK, LinkOK, Failed, Statuses
  <1>4. ProcessesOK'
    BY KillGroupFacts DEF TypeOK, ProcessesOK, MayStray, Kinds
  <1>5. StatusOK'
    BY KillGroupFacts, NothingWithinBounds DEF TypeOK, ProcessesOK, StatusOK, MayStray
  <1> QED
    BY <1>1, <1>2, <1>3, <1>4, <1>5

\* The deadline ends the command, and its group.
LEMMA WatchDoneKeeps ==
    ASSUME IInv, NEW j \in Job, WatchDone(j)
    PROVE  IInv'
  <1> USE DEF WatchDone, IInv, None, Goto, Set, shared, artifacts, Leased, Settled,
        Running, Exclusive, Command
  <1>1. TypeOK'
    BY KillSandboxFacts DEF TypeOK, Steps, Statuses, Kinds, Exits, Shared, Plans
  <1>2. LeaseOK'
    BY JobAssumption DEF TypeOK, LeaseOK
  <1>3. LinkOK'
    BY JobAssumption DEF TypeOK, LeaseOK, LinkOK, Failed, Statuses
  <1>4. ProcessesOK'
    BY KillSandboxFacts DEF TypeOK, ProcessesOK, MayStray, Kinds
  <1>5. StatusOK'
    BY KillSandboxFacts, NothingWithinBounds DEF TypeOK, ProcessesOK, StatusOK, MayStray
  <1> QED
    BY <1>1, <1>2, <1>3, <1>4, <1>5

\* So does a limit that is exceeded.
LEMMA WatchBreachKeeps ==
    ASSUME IInv, NEW j \in Job, WatchBreach(j)
    PROVE  IInv'
  <1> USE DEF WatchBreach, IInv, None, Goto, Set, shared, artifacts, Leased, Settled,
        Running, Exclusive, Command
  <1>1. TypeOK'
    BY KillSandboxFacts DEF TypeOK, Steps, Statuses, Kinds, Exits, Shared, Plans
  <1>2. LeaseOK'
    BY JobAssumption DEF TypeOK, LeaseOK
  <1>3. LinkOK'
    BY JobAssumption DEF TypeOK, LeaseOK, LinkOK, Failed, Statuses
  <1>4. ProcessesOK'
    BY KillSandboxFacts DEF TypeOK, ProcessesOK, MayStray, Kinds
  <1>5. StatusOK'
    BY KillSandboxFacts, NothingWithinBounds DEF TypeOK, ProcessesOK, StatusOK, MayStray
  <1> QED
    BY <1>1, <1>2, <1>3, <1>4, <1>5

\* The helper ended; its group may still be there.
LEMMA WatchExitKeeps ==
    ASSUME IInv, NEW j \in Job, WatchExit(j)
    PROVE  IInv'
  <1> USE DEF WatchExit, classifyCompileWaitStatus, IInv, None, Goto, Set, shared,
        artifacts, Leased, Settled, Running, Exclusive, Command
  <1>1. TypeOK'
    BY DEF TypeOK, Steps, Statuses, Kinds, Exits, Shared, Plans
  <1>2. LeaseOK'
    BY JobAssumption DEF TypeOK, LeaseOK
  <1>3. LinkOK'
    BY JobAssumption DEF TypeOK, LeaseOK, LinkOK, Failed, Statuses
  <1>4. ProcessesOK'
    BY DEF TypeOK, ProcessesOK, MayStray, Kinds
  <1>5. StatusOK'
    <2>1. /\ pc[j] = "watch" /\ pc' = [pc EXCEPT ![j] = "kill"]
          /\ status' \in [Job -> Statuses \cup {None}] /\ status'[j] \in Statuses
          /\ \A k \in Job \ {j} : status'[k] = status[k]
          /\ UNCHANGED <<read, left, torn, wide, grouped, leaked>>
      BY DEF TypeOK, Statuses, Exits
    <2> HIDE DEF WatchExit
    <2> QED
      BY <2>1 DEF TypeOK, StatusOK, MayStray, Statuses
  <1> QED
    BY <1>1, <1>2, <1>3, <1>4, <1>5

\* After the deferred kill nobody of the group is left.
LEMMA DeferredKillKeeps ==
    ASSUME IInv, NEW j \in Job, DeferredKill(j)
    PROVE  IInv'
  <1> USE DEF DeferredKill, IInv, None, Goto, Set, shared, artifacts, Leased, Settled,
        Running, Exclusive, Command
  <1>1. TypeOK'
    BY KillSandboxFacts DEF TypeOK, Steps, Statuses, Kinds, Exits, Shared, Plans
  <1>2. LeaseOK'
    BY JobAssumption DEF TypeOK, LeaseOK
  <1>3. LinkOK'
    BY JobAssumption DEF TypeOK, LeaseOK, LinkOK, Failed, Statuses
  <1>4. ProcessesOK'
    BY KillSandboxFacts DEF TypeOK, ProcessesOK, MayStray, Kinds
  <1>5. StatusOK'
    BY KillSandboxFacts, NothingWithinBounds DEF TypeOK, ProcessesOK, StatusOK, MayStray
  <1> QED
    BY <1>1, <1>2, <1>3, <1>4, <1>5

\* What the cgroup does not catch is reported as leaked.
LEMMA cleanupCompileCgroupKeeps ==
    ASSUME IInv, NEW j \in Job, cleanupCompileCgroup(j)
    PROVE  IInv'
  <1> USE DEF cleanupCompileCgroup, IInv, None, Goto, Set, shared, artifacts, Leased,
        Settled, Running, Exclusive, Command
  <1>1. TypeOK'
    BY KillAndRemoveFacts DEF TypeOK, Steps, Statuses, Kinds, Exits, Shared, Plans
  <1>2. LeaseOK'
    BY JobAssumption DEF TypeOK, LeaseOK
  <1>3. LinkOK'
    BY JobAssumption DEF TypeOK, LeaseOK, LinkOK, Failed, Statuses
  <1>4. ProcessesOK'
    BY KillAndRemoveFacts DEF TypeOK, ProcessesOK, MayStray, Kinds
  <1>5. StatusOK'
    BY KillAndRemoveFacts, NothingWithinBounds DEF TypeOK, ProcessesOK, StatusOK, MayStray
  <1> QED
    BY <1>1, <1>2, <1>3, <1>4, <1>5

\* The lease is given back whatever becomes of the path; a path that is left behind has
\* failed its build.
LEMMA ReleaseRuntimeStateKeeps ==
    ASSUME IInv, NEW j \in Job, ReleaseRuntimeState(j)
    PROVE  IInv'
  <1> USE DEF ReleaseRuntimeState, Cleanups, IInv, None, Goto, Set, shared, artifacts,
        Leased, Settled, Running, Exclusive, Command
  <1>1. TypeOK'
    <2>1. pc' \in [Job -> Steps] /\ exit' \in [Job -> Exits \cup {None}]
      BY DEF TypeOK, Steps
    <2>2. status' \in [Job -> Statuses \cup {None}]
      BY DEF TypeOK, Statuses
    <2>3. plan' \in [Job -> Plans]
      <3>1. plan[j] \in Plans /\ plan[j].commands # <<>>
        BY DEF TypeOK, LeaseOK
      <3>2. Tail(plan[j].commands) \in Seq(Commands)
        BY <3>1 DEF Plans
      <3>3. [plan[j] EXCEPT !.commands = Tail(@)] \in Plans
        BY <3>1, <3>2 DEF Plans
      <3> QED
        BY <3>3 DEF TypeOK
    <2>4. writer' \in Job \cup {None} /\ readers' \in SUBSET Job
      BY DEF TypeOK
    <2>5. link' \in [Shared -> Job \cup {None}]
      BY DEF TypeOK
    <2> QED
      BY <2>1, <2>2, <2>3, <2>4, <2>5 DEF TypeOK
  <1>2. LeaseOK'
    BY JobAssumption DEF TypeOK, LeaseOK
  <1>3. LinkOK'
    <2> DEFINE p == Command(j)
    <2>1. PICK c \in Cleanups(j) :
             /\ link' = IF Exclusive(j) /\ c # "failed" THEN [link EXCEPT ![p] = None] ELSE link
             /\ status' = [status EXCEPT ![j] =
                              IF c # "sealed" /\ status[j] = "OK" THEN "Internal" ELSE status[j]]
             /\ pc' = [pc EXCEPT ![j] =
                          IF c = "sealed" /\ status[j] = "OK" THEN "next" ELSE "respond"]
      OBVIOUS
    <2>2. /\ pc[j] = "release" /\ writer' = IF writer = j THEN None ELSE writer
          /\ \A k \in Job \ {j} : plan'[k] = plan[k] /\ pc'[k] = pc[k] /\ status'[k] = status[k]
          /\ pc'[j] \in {"next", "respond"}
      BY <2>1 DEF TypeOK
    <2>3. \A k \in Job \ {j} : Running(k) /\ Exclusive(k) => ~Exclusive(j)
      BY <2>2, JobAssumption DEF LeaseOK
    <2>4. \A k \in Job \ {j} : Running(k) /\ Exclusive(k) => link'[Command(k)] = k
      BY <2>1, <2>3 DEF LinkOK
    <2>5. ASSUME NEW q \in Shared, NEW k \in Job, link'[q] = k
          PROVE  \/ writer' = k /\ Command(k)' = q
                 \/ pc'[k] \in {"respond", "done"} /\ Failed(status'[k])
      <3>1. link[q] = k /\ k # None
        BY <2>1, <2>5, JobAssumption DEF TypeOK
      <3>2. CASE k # j
        <4> HIDE DEF ReleaseRuntimeState
        <4>1. \/ writer = k /\ Command(k) = q
              \/ pc[k] \in {"respond", "done"} /\ Failed(status[k])
          BY <3>1 DEF LinkOK
        <4>2. pc'[k] = pc[k] /\ status'[k] = status[k] /\ plan'[k] = plan[k]
          BY <2>2, <3>1, <3>2
        <4> QED
          BY <2>2, <3>1, <3>2, <4>1, <4>2
      <3>3. CASE k = j
        <4>1. writer = j /\ p = q
          BY <2>2, <3>1, <3>3 DEF LinkOK
        <4>2. Exclusive(j)
          BY <2>2, <4>1, JobAssumption DEF LeaseOK
        <4>3. c = "failed"
          BY <2>1, <2>5, <3>1, <4>1, <4>2, JobAssumption DEF TypeOK
        <4>4. status[j] \in Statuses
          BY <2>2 DEF TypeOK, StatusOK
        <4> QED
          BY <2>1, <3>3, <4>3, <4>4 DEF TypeOK, Failed, Statuses
      <3> QED
        BY <3>2, <3>3
    <2> HIDE DEF ReleaseRuntimeState, p
    <2> QED
      <3>1. ASSUME NEW k \in Job, Running(k)', Exclusive(k)'
            PROVE  link'[Command(k)'] = k
        <4>1. k # j
          BY <2>2, <3>1
        <4> QED
          BY <2>2, <2>4, <3>1, <4>1
      <3>2. link' \in [Shared -> Job \cup {None}]
        BY <1>1 DEF TypeOK
      <3> QED
        BY <2>5, <3>1, <3>2 DEF LinkOK
  <1>4. ProcessesOK'
    BY DEF TypeOK, ProcessesOK, MayStray, Kinds
  <1>5. StatusOK'
    BY NothingWithinBounds DEF TypeOK, ProcessesOK, StatusOK, MayStray
  <1> QED
    BY <1>1, <1>2, <1>3, <1>4, <1>5

\* The collection begins when the plan is done.
LEMMA CollectKeeps ==
    ASSUME IInv, NEW j \in Job, Collect(j)
    PROVE  IInv'
  <1> USE DEF Collect, IInv, None, Goto, Set, shared, artifacts, Leased, Settled,
        Running, Exclusive, Command
  <1>1. TypeOK'
    BY DEF TypeOK, Steps, Statuses, Kinds, Exits, Shared, Plans
  <1>2. LeaseOK'
    BY JobAssumption DEF TypeOK, LeaseOK
  <1>3. LinkOK'
    BY JobAssumption DEF TypeOK, LeaseOK, LinkOK, Failed, Statuses
  <1>4. ProcessesOK'
    BY DEF TypeOK, ProcessesOK, MayStray, Kinds
  <1>5. StatusOK'
    BY NothingWithinBounds DEF TypeOK, ProcessesOK, StatusOK, MayStray
  <1> QED
    BY <1>1, <1>2, <1>3, <1>4, <1>5

\* An artifact is torn only by a stray.
LEMMA ReadArtifactKeeps ==
    ASSUME IInv, NEW j \in Job, ReadArtifact(j)
    PROVE  IInv'
  <1> USE DEF ReadArtifact, IInv, None, Goto, Set, shared, artifacts, Leased, Settled,
        Running, Exclusive, Command
  <1>1. TypeOK'
    <2>1. pc' \in [Job -> Steps] /\ torn' \in [Job -> BOOLEAN]
      BY DEF TypeOK, Steps
    <2>2. left' \in [Job -> Nat]
      BY DEF TypeOK, StatusOK
    <2>3. PICK size \in 0 .. FileLimit :
             /\ \E data \in Data(j, size) : read' = [read EXCEPT ![j] = Append(@, data)]
             /\ counted' = [counted EXCEPT ![j] =
                   IF left[j] = 1 THEN 0 ELSE IF Summed(j) THEN @ + size ELSE @]
      OBVIOUS
    <2>4. counted' \in [Job -> Nat]
      <3> HIDE DEF Summed
      <3> QED
        BY <2>3, LimitsAssumption DEF TypeOK
    <2>5. Data(j, size) \subseteq Nat
      BY LimitsAssumption DEF Data, snapshotCargoArtifact
    <2>6. PICK data \in Nat : read' = [read EXCEPT ![j] = Append(@, data)]
      BY <2>3, <2>5
    <2>7. read' \in [Job -> Seq(Nat)]
      BY <2>6 DEF TypeOK
    <2> QED
      BY <2>1, <2>2, <2>4, <2>7 DEF TypeOK
  <1>2. LeaseOK'
    BY JobAssumption DEF TypeOK, LeaseOK
  <1>3. LinkOK'
    BY JobAssumption DEF TypeOK, LeaseOK, LinkOK, Failed, Statuses
  <1>4. ProcessesOK'
    BY DEF TypeOK, ProcessesOK, MayStray, Kinds
  <1>5. StatusOK'
    BY NothingWithinBounds DEF TypeOK, ProcessesOK, StatusOK, MayStray
  <1> QED
    BY <1>1, <1>2, <1>3, <1>4, <1>5

\* A refused artifact takes the others with it.
LEMMA RefuseArtifactKeeps ==
    ASSUME IInv, NEW j \in Job, RefuseArtifact(j)
    PROVE  IInv'
  <1> USE DEF RefuseArtifact, IInv, None, Goto, Set, shared, artifacts, Leased,
        Settled, Running, Exclusive, Command
  <1>1. TypeOK'
    BY DEF TypeOK, Steps, Statuses, Kinds, Exits, Shared, Plans
  <1>2. LeaseOK'
    BY JobAssumption DEF TypeOK, LeaseOK
  <1>3. LinkOK'
    BY JobAssumption DEF TypeOK, LeaseOK, LinkOK, Failed, Statuses
  <1>4. ProcessesOK'
    BY DEF TypeOK, ProcessesOK, MayStray, Kinds
  <1>5. StatusOK'
    BY NothingWithinBounds DEF TypeOK, ProcessesOK, StatusOK, MayStray
  <1> QED
    BY <1>1, <1>2, <1>3, <1>4, <1>5

\* What does not keep the limits is not sent.
LEMMA PrepareResponseKeeps ==
    ASSUME IInv, NEW j \in Job, PrepareResponse(j)
    PROVE  IInv'
  <1> USE DEF PrepareResponse, IInv, None, Goto, Set, shared, artifacts, Leased,
        Settled, Running, Exclusive, Command
  <1>1. TypeOK'
    <2>1. pc' \in [Job -> Steps] /\ status' \in [Job -> Statuses \cup {None}]
      BY DEF TypeOK, Steps, Statuses
    <2>2. read' = read \/ read' = [read EXCEPT ![j] = <<>>]
      OBVIOUS
    <2>3. read' \in [Job -> Seq(Nat)]
      <3> HIDE DEF PrepareResponse
      <3>1. <<>> \in Seq(Nat)
        OBVIOUS
      <3> QED
        BY <2>2, <3>1 DEF TypeOK
    <2> QED
      BY <2>1, <2>3 DEF TypeOK
  <1>2. LeaseOK'
    BY JobAssumption DEF TypeOK, LeaseOK
  <1>3. LinkOK'
    BY JobAssumption DEF TypeOK, LeaseOK, LinkOK, Failed, Statuses
  <1>4. ProcessesOK'
    BY DEF TypeOK, ProcessesOK, MayStray, Kinds
  <1>5. StatusOK'
    BY NothingWithinBounds DEF TypeOK, ProcessesOK, StatusOK, MayStray
  <1> QED
    BY <1>1, <1>2, <1>3, <1>4, <1>5

\* A helper that ends may leave members of its group.
LEMMA HelperExitsKeeps ==
    ASSUME IInv, NEW j \in Job, HelperExits(j)
    PROVE  IInv'
  <1> USE DEF HelperExits, Started, IInv, None, Goto, Set, shared, artifacts, Leased,
        Settled, Running, Exclusive, Command
  <1>1. TypeOK'
    BY DEF TypeOK, Steps, Statuses, Kinds, Exits, Shared, Plans
  <1>2. LeaseOK'
    BY JobAssumption DEF TypeOK, LeaseOK
  <1>3. LinkOK'
    BY JobAssumption DEF TypeOK, LeaseOK, LinkOK, Failed, Statuses
  <1>4. ProcessesOK'
    BY DEF TypeOK, ProcessesOK, MayStray, Kinds
  <1>5. StatusOK'
    BY NothingWithinBounds DEF TypeOK, ProcessesOK, StatusOK, MayStray
  <1> QED
    BY <1>1, <1>2, <1>3, <1>4, <1>5

\* So does one that os/exec has ended.
LEMMA CommandContextKillsKeeps ==
    ASSUME IInv, NEW j \in Job, CommandContextKills(j)
    PROVE  IInv'
  <1> USE DEF CommandContextKills, Started, IInv, None, Goto, Set, shared, artifacts,
        Leased, Settled, Running, Exclusive, Command
  <1>1. TypeOK'
    BY DEF TypeOK, Steps, Statuses, Kinds, Exits, Shared, Plans
  <1>2. LeaseOK'
    BY JobAssumption DEF TypeOK, LeaseOK
  <1>3. LinkOK'
    BY JobAssumption DEF TypeOK, LeaseOK, LinkOK, Failed, Statuses
  <1>4. ProcessesOK'
    BY DEF TypeOK, ProcessesOK, MayStray, Kinds
  <1>5. StatusOK'
    BY NothingWithinBounds DEF TypeOK, ProcessesOK, StatusOK, MayStray
  <1> QED
    BY <1>1, <1>2, <1>3, <1>4, <1>5

\* Only a command that may leave its group has children outside.
LEMMA ForkKeeps ==
    ASSUME IInv, NEW j \in Job, Fork(j)
    PROVE  IInv'
  <1> USE DEF Fork, IInv, None, Goto, Set, shared, artifacts, Leased, Settled, Running,
        Exclusive, Command
  <1>1. TypeOK'
    <2>1. PICK child \in Kinds : alive' = [alive EXCEPT ![j] = @ \cup {child}]
      BY DEF TypeOK, Kinds
    <2>2. alive[j] \cup {child} \in SUBSET Kinds
      BY DEF TypeOK
    <2> QED
      BY <2>1, <2>2 DEF TypeOK
  <1>2. LeaseOK'
    BY JobAssumption DEF TypeOK, LeaseOK
  <1>3. LinkOK'
    BY JobAssumption DEF TypeOK, LeaseOK, LinkOK, Failed, Statuses
  <1>4. ProcessesOK'
    <2>1. PICK child \in {"member", "near", "far"} :
             /\ child = "member" => alive[j] \cap {"helper", "member"} # {}
             /\ child # "member" => \/ alive[j] \cap {"near", "far"} # {}
                                    \/ pc[j] \in Leased /\ Command(j) = "wide"
             /\ alive' = [alive EXCEPT ![j] = @ \cup {child}]
      OBVIOUS
    <2>2. /\ alive[j] # {} /\ pc[j] \notin {"group", "request", "done"}
          /\ UNCHANGED <<pc, plan, wide, leaked, group, grouped>>
      OBVIOUS
    <2>3. alive'[j] = alive[j] \cup {child} /\ \A k \in Job \ {j} : alive'[k] = alive[k]
      BY <2>1 DEF TypeOK
    <2> HIDE DEF Fork, Command
    <2>4. child # "member" => wide[j]
      BY <2>1, <2>2 DEF TypeOK, ProcessesOK, MayStray, Kinds
    <2>5. pc[j] \in Settled \cup {"ungroup"} => child # "member"
      BY <2>1 DEF ProcessesOK
    <2>6. MayStray(j)' <=> MayStray(j)
      BY <2>2 DEF MayStray
    <2>7. pc[j] \in Settled => MayStray(j)
      BY <2>2 DEF ProcessesOK
    <2> QED
      <3> SUFFICES ASSUME NEW k \in Job
                   PROVE  /\ pc[k] \in Settled \cup {"ungroup"} => alive'[k] \subseteq {"near", "far"}
                          /\ alive'[k] \cap {"near", "far"} # {} => wide[k]
                          /\ pc[k] \in Settled /\ alive'[k] # {} => MayStray(k)
                          /\ pc[k] = "group" /\ alive'[k] \cap {"near",
                               "far"} # {} => MayStray(k)
        BY <2>2 DEF ProcessesOK, MayStray, Command
      <3>1. CASE k = j
        BY <2>1, <2>2, <2>3, <2>4, <2>5, <2>7, <3>1 DEF ProcessesOK
      <3>2. CASE k # j
        BY <2>2, <2>3, <3>2 DEF ProcessesOK
      <3> QED
        BY <3>1, <3>2
  <1>5. StatusOK'
    BY NothingWithinBounds DEF TypeOK, ProcessesOK, StatusOK, MayStray
  <1> QED
    BY <1>1, <1>2, <1>3, <1>4, <1>5

\* A process less.
LEMMA ChildEndsKeeps ==
    ASSUME IInv, NEW j \in Job, ChildEnds(j)
    PROVE  IInv'
  <1> USE DEF ChildEnds, IInv, None, Goto, Set, shared, artifacts, Leased, Settled,
        Running, Exclusive, Command
  <1>1. TypeOK'
    <2>1. PICK child \in Kinds : alive' = [alive EXCEPT ![j] = @ \ {child}]
      BY DEF TypeOK, Kinds
    <2>2. alive[j] \ {child} \in SUBSET Kinds
      BY DEF TypeOK
    <2> QED
      BY <2>1, <2>2 DEF TypeOK
  <1>2. LeaseOK'
    BY JobAssumption DEF TypeOK, LeaseOK
  <1>3. LinkOK'
    BY JobAssumption DEF TypeOK, LeaseOK, LinkOK, Failed, Statuses
  <1>4. ProcessesOK'
    BY DEF TypeOK, ProcessesOK, MayStray, Kinds
  <1>5. StatusOK'
    BY NothingWithinBounds DEF TypeOK, ProcessesOK, StatusOK, MayStray
  <1> QED
    BY <1>1, <1>2, <1>3, <1>4, <1>5

\* A build's context ends.
LEMMA ContextEndsKeeps ==
    ASSUME IInv, NEW j \in Job, ContextEnds(j)
    PROVE  IInv'
  <1> USE DEF ContextEnds, Started, IInv, None, Goto, Set, shared, artifacts, Leased,
        Settled, Running, Exclusive, Command
  <1>1. TypeOK'
    BY DEF TypeOK, Steps, Statuses, Kinds, Exits, Shared, Plans
  <1>2. LeaseOK'
    BY JobAssumption DEF TypeOK, LeaseOK
  <1>3. LinkOK'
    BY JobAssumption DEF TypeOK, LeaseOK, LinkOK, Failed, Statuses
  <1>4. ProcessesOK'
    BY DEF TypeOK, ProcessesOK, MayStray, Kinds
  <1>5. StatusOK'
    BY NothingWithinBounds DEF TypeOK, ProcessesOK, StatusOK, MayStray
  <1> QED
    BY <1>1, <1>2, <1>3, <1>4, <1>5

-----------------------------------------------------------------------------
(* The theorems. *)

\* Builds that have not begun hold nothing and run nothing.
LEMMA InitIInv == Init => IInv
  <1> SUFFICES ASSUME Init PROVE IInv
    OBVIOUS
  <1> USE DEF Init, None, Leased, Settled, Running, Exclusive, Command
  <1>1. plan \in [Job -> Plans]
    BY RegistryPlans
  <1>2. <<>> \in Seq(Nat)
    OBVIOUS
  <1>3. TypeOK
    <2>1. pc \in [Job -> Steps] /\ alive \in [Job -> SUBSET Kinds] /\ read \in [Job -> Seq(Nat)]
      BY <1>2 DEF Steps
    <2>2. /\ exit \in [Job -> Exits \cup {None}] /\ status \in [Job -> Statuses \cup {None}]
          /\ left \in [Job -> Nat] /\ counted \in [Job -> Nat]
      OBVIOUS
    <2>3. /\ wide \in [Job -> BOOLEAN] /\ torn \in [Job -> BOOLEAN] /\ done \in [Job -> BOOLEAN]
          /\ group \in [Job -> BOOLEAN] /\ leaked \in [Job -> BOOLEAN] /\ grouped \in BOOLEAN
      BY GroupedAssumption
    <2>4. /\ writer \in Job \cup {None} /\ readers \in SUBSET Job
          /\ link \in [Shared -> Job \cup {None}]
      OBVIOUS
    <2> QED
      BY <1>1, <2>1, <2>2, <2>3, <2>4 DEF TypeOK
  <1>4. LeaseOK
    BY JobAssumption DEF LeaseOK
  <1>5. LinkOK
    BY DEF LinkOK
  <1>6. ProcessesOK
    BY DEF ProcessesOK
  <1>7. StatusOK
    BY DEF StatusOK
  <1> QED
    BY <1>3, <1>4, <1>5, <1>6, <1>7 DEF IInv

\* Nothing changes.
LEMMA StutterKeeps == IInv /\ UNCHANGED vars => IInv'
  <1> SUFFICES ASSUME IInv, UNCHANGED vars PROVE IInv'
    OBVIOUS
  <1> USE DEF IInv, vars, Leased, Settled, Running, Exclusive, Command
  <1>1. TypeOK'
    BY DEF TypeOK
  <1>2. LeaseOK'
    BY DEF LeaseOK
  <1>3. LinkOK'
    BY DEF LinkOK
  <1>4. ProcessesOK'
    BY DEF ProcessesOK, MayStray
  <1>5. StatusOK'
    BY DEF StatusOK, MayStray
  <1> QED
    BY <1>1, <1>2, <1>3, <1>4, <1>5

\* Every step of a build, of its processes or of the clock keeps the invariant.
LEMMA NextIInv == IInv /\ [Next]_vars => IInv'
  <1> SUFFICES ASSUME IInv, [Next]_vars PROVE IInv'
    OBVIOUS
  <1>1. ASSUME NEW j \in Job, Serve(j) PROVE IInv'
    BY <1>1, ValidateKeeps, GivesUpKeeps, PreparationFailsKeeps,
       AcquireRuntimeStateKeeps, StartKeeps, CreateRunGroupKeeps,
       EnableControllersFailsKeeps, AddProcFailsKeeps, WriteFailsKeeps,
       WatchDoneKeeps, WatchExitKeeps, DeferredKillKeeps,
       cleanupCompileCgroupKeeps, ReleaseRuntimeStateKeeps, CollectKeeps,
       ReadArtifactKeeps, RefuseArtifactKeeps, PrepareResponseKeeps DEF Serve
  <1>2. ASSUME NEW j \in Job, Environment(j) PROVE IInv'
    BY <1>2, WriteRequestKeeps, WatchBreachKeeps, HelperExitsKeeps,
       CommandContextKillsKeeps, ForkKeeps, ChildEndsKeeps,
       ContextEndsKeeps DEF Environment
  <1>3. CASE UNCHANGED vars
    BY <1>3, StutterKeeps
  <1> QED
    BY <1>1, <1>2, <1>3 DEF Next, Finished

\* The inductive invariant holds throughout.
THEOREM Inductive == Spec => []IInv
  BY InitIInv, NextIInv, PTL DEF Spec

\* While a build runs behind a shared path, the path leads to it and no other build
\* runs (AcquireRuntimeState); while an ordinary command runs, whatever path is not
\* sealed was left by a build that did not answer OK (ReleaseRuntimeState).
THEOREM PathStaysPrivate == Spec => []FixedPathIsPrivate
  <1>1. IInv => FixedPathIsPrivate
    <2> SUFFICES ASSUME IInv, NEW j \in Job, Running(j)
                 PROVE  IF Exclusive(j)
                        THEN /\ link[Command(j)] = j
                             /\ \A k \in Job \ {j} : ~Running(k) /\ (alive[k] # {} => MayStray(k))
                        ELSE \A p \in Shared : link[p] # None => status[link[p]] \notin {None, "OK"}
      BY DEF FixedPathIsPrivate
    <2> USE DEF IInv
    <2>1. CASE Exclusive(j)
      <3>1. link[Command(j)] = j
        BY <2>1 DEF LinkOK
      <3>2. ASSUME NEW k \in Job \ {j} PROVE ~Running(k)
        BY <2>1, JobAssumption DEF LeaseOK
      <3>3. ASSUME NEW k \in Job \ {j}, alive[k] # {} PROVE MayStray(k)
        <4>1. pc[k] \in Settled
          BY <3>2 DEF TypeOK, Steps, Settled, Running, Leased
        <4> QED
          BY <3>3, <4>1 DEF ProcessesOK
      <3> QED
        BY <2>1, <3>1, <3>2, <3>3
    <2>2. CASE ~Exclusive(j)
      <3>1. writer = None
        BY <2>2, JobAssumption DEF LeaseOK
      <3>2. ASSUME NEW p \in Shared, link[p] # None PROVE Failed(status[link[p]])
        BY <3>1, <3>2 DEF LinkOK
      <3> QED
        BY <2>2, <3>2 DEF Failed, Statuses, None
    <2> QED
      BY <2>1, <2>2
  <1> QED
    BY <1>1, Inductive, PTL

\* An artifact is read beside a living process only if that process is a stray the
\* cleanup could not promise to end (DeferredKill, cleanupCompileCgroup), and every
\* response keeps the limits on its artifacts, a failed one without any
\* (PrepareResponse).
THEOREM ArtifactsStayWhole == Spec => []ArtifactsAreWhole
  <1>1. IInv => ArtifactsAreWhole
    BY DEF IInv, StatusOK, ArtifactsAreWhole
  <1> QED
    BY <1>1, Inductive, PTL

=============================================================================
