---------------------------- MODULE PeersProofs ----------------------------
(***************************************************************************)
(* Machine-checked proofs about programs that talk to each other: about    *)
(* CommunicationRun, for any number of participants, and two in a match,   *)
(* and at the end about InteractiveRun.                                    *)
(*                                                                         *)
(* Who is blamed depends on the order of four kinds of stamps.  What makes *)
(* the verdict right is that a victim of the cancellation is known by it:  *)
(* it completes after the stamp of the cancellation, or after a manager    *)
(* that was collected and had failed, or after nobody can be blamed any    *)
(* more (CancelOK), so it is never first (BlameOK); and that whoever fails *)
(* of its own accord before that is first, or comes after somebody who is  *)
(* (TriggerOK).  Both rest on what a result tells of the reason for it     *)
(* (ExplainedOK, DeadlineOK), and on the stamps being distinct (StampsOK). *)
(*                                                                         *)
(* Prompt is a hypothesis throughout: without it the properties are false. *)
(*                                                                         *)
(* Of an interactive run the gate and the records of why a side was        *)
(* canceled decide everything (GateOK, CancelCause).                       *)
(***************************************************************************)
EXTENDS CommunicationRun, MCInteractiveRun, FiniteSetTheorems, TLAPS

Events == Proc \cup {"proto", "cancel"}
Phases == {"none", "setup", "ready", "running", "over", "sent", "got"}
Causes == {"none", "setup", "canceled", "own", "clean", "pipe", "deadline"}

\* The run of p is over, whether it is known already or not.
Ended(p) == phase[p] \in {"over", "sent", "got"}

\* Every variable stays in its range; a seat's run is over and sent in one step.
TypeOK ==
    /\ match \in BOOLEAN /\ (match => Cardinality(Seat) = 2)
    /\ pc \in {"prepare", "await", "collect", "judge", "returned"}
    /\ parent \in BOOLEAN /\ comm \in BOOLEAN /\ armed \in BOOLEAN
    /\ triggered \in BOOLEAN /\ startup \in BOOLEAN
    /\ phase \in [Proc -> Phases] /\ (\A p \in Seat : phase[p] # "over")
    /\ readied \subseteq Proc /\ begun \subseteq Proc
    /\ fired \subseteq Proc /\ deadline \subseteq fired
    /\ DOMAIN result = Proc /\ why \in [Proc -> Causes]
    /\ proto \in {"none", "valid", "invalid", "incomplete"}
    /\ boundary \subseteq {"fault", "exit"} /\ first \in Seat \cup {Nobody}

\* A process has a stamp once its result has been sent; no two stamps are the same.
StampsOK ==
    /\ clock \in Nat /\ at \in [Events -> Nat]
    /\ \A e \in Events : at[e] <= clock
    /\ \A d, e \in Events : d # e /\ at[d] # 0 => at[d] # at[e]
    /\ \A p \in Proc : (at[p] # 0) <=> (phase[p] \in {"sent", "got"})

\* No process is begun before all are ready, and all are got when they are judged.
StartOK ==
    /\ pc = "prepare" => \A p \in Proc : phase[p] = "none"
    /\ pc \in {"prepare", "await"} => begun = {} /\ ~armed
    /\ pc \notin {"prepare", "await"} => comm \/ armed \/ \A p \in Proc : phase[p] = "none"
    /\ begun # {} \/ fired # {} => armed
    /\ armed => readied = Proc
    /\ pc = "judge" => \A p \in Proc : phase[p] = "got"
    /\ \A p \in Proc : phase[p] = "running" => p \in begun
    /\ \A p \in begun : phase[p] = "running" \/ Ended(p)

\* The ways to fail once the deadline has passed.
LateEnds == {Res("OK", "none", 1), Res("TLE", "limit", None), Res("InitFail", "sandbox_init", 1),
             Res("RE", "stream_io", 0), Res("RE", "signal", None), Res("TLE", "wall_time", None)}

\* What a process returned, and why it ended.
ExplainedOK ==
    \A p \in Proc :
       /\ ~Ended(p) => /\ why[p] \in {"none", "deadline"} /\ (why[p] = "deadline" => p \in begun)
                       /\ result[p] = Res("OK", "none", None)
       /\ Ended(p) /\ p \notin begun =>
              why[p] \in {"setup", "canceled"} /\ result[p] = Res("InitFail", "none", None)
       /\ Ended(p) /\ p \in begun =>
             \/ why[p] = "clean" /\ result[p] = Res("OK", "none", 0)
             \/ why[p] = "own" /\ result[p] \in {Res("OK", "none", 1), Res("TLE", "limit", None)}
             \/ why[p] = "setup" /\ result[p] = Res("InitFail", "sandbox_init", 1)
             \/ why[p] = "pipe" /\ result[p] \in {Res("RE", "stream_io", 0), Res("RE", "signal", None)}
             \/ why[p] = "canceled" /\ result[p] = Res("TLE", "wall_time", None)
             \/ why[p] = "deadline" /\ result[p] \in LateEnds

\* p was running when it was canceled.
Stopped(p) == p \in begun /\ why[p] = "canceled"

\* A deadline that fired while the process ran is known as the cause, unless the
\* process ended well in spite of it, and a match keeps a record of it.
DeadlineOK ==
    /\ at["cancel"] # 0 => comm
    /\ \A p \in fired : phase[p] = "running" => why[p] = "deadline"
    /\ \A p \in Proc : Stopped(p) => comm
    /\ match => \A p \in Proc : why[p] = "deadline" => p \in deadline
    /\ \A p \in Seat : p \in deadline /\ p \in begun => why[p] \in {"deadline", "clean"}

\* The manager has been collected and has no verdict to give.
ManagerBad == phase[M] = "got" /\ (why[M] # "clean" \/ proto # "valid")

\* p has completed after the manager was collected.
After(p) == phase[M] = "got" /\ at[p] > at[M]

\* The sandbox of p failed when its target counted as started already.
SandboxFailed(p) == result[p].source = "sandbox_init"

\* Who has failed and was collected in time, or with its sandbox, is first, unless
\* everything has been canceled already.
TriggerOK ==
    /\ triggered => first # Nobody \/ ManagerBad \/ (comm /\ begun = {})
    /\ first # Nobody => triggered /\ phase[first] = "got" /\ why[first] # "clean"
    /\ "fault" \in boundary => triggered
    /\ "exit" \in boundary => phase[M] = "got"
    /\ phase[M] = "got" /\ begun # {} => proto # "none"
    /\ phase[M] = "got" => comm \/ proto # "none"
    /\ ~parent /\ first = Nobody =>
          \A p \in Seat : phase[p] = "got" /\ why[p] # "clean" =>
                            triggered \/ (After(p) /\ ~SandboxFailed(p))

\* A victim of the cancellation is never first.
BlameOK ==
    /\ comm /\ ~parent => triggered \/ phase[M] = "got"
    /\ ~parent => \A p \in Seat : Stopped(p) => (triggered \/ After(p)) /\ first # p

\* There will be no first failure, if no sandbox fails.
Settled ==
    /\ first = Nobody /\ phase[M] = "got"
    /\ \A p \in Seat : at[p] = 0 \/ phase[p] = "got" \/ at[p] > at[M]

\* In a match a victim of the cancellation completes after its stamp, unless there is
\* no stamp, or one too late for a manager that has failed.  When a sandbox has failed
\* nobody is to blame anyway.
CancelOK ==
    match /\ ~parent /\ (\A p \in Seat : ~SandboxFailed(p)) =>
       /\ first # Nobody => comm \/ "fault" \in boundary
       /\ first # Nobody /\ begun # {} => "fault" \in boundary \/ at["cancel"] # 0
       /\ comm /\ at["cancel"] = 0 => begun = {} \/ ManagerBad \/ Settled
       /\ \A p \in Seat : Stopped(p) =>
             \/ at["cancel"] # 0 /\ at[p] > at["cancel"]
             \/ ManagerBad /\ (at["cancel"] = 0 \/ at["cancel"] > at[M])
             \/ at["cancel"] = 0 /\ Settled

\* The three properties of the answer.
Fair == ManagerVerdictStands /\ MatchIsFair /\ CancellationIsNoFault

\* Until the end there is no answer; then there is a fair one, of finished runs.
AnswerOK ==
    /\ pc # "returned" => response = Answer("none", "none", Nobody)
    /\ pc = "returned" =>
          \A p \in Proc :
             phase[p] = IF response.source = "communication:admission" THEN "none" ELSE "got"
    /\ response.outcome = "forfeit" => response.seat \in Seat
    /\ Fair

IInv ==
    /\ TypeOK /\ StampsOK /\ StartOK /\ ExplainedOK /\ DeadlineOK
    /\ TriggerOK /\ BlameOK /\ CancelOK /\ AnswerOK


\* Nobody's name is taken for another's.
LEMMA NoClash == /\ M \notin Seat /\ "proto" \notin Proc /\ "cancel" \notin Proc /\ Nobody \notin Proc
                 /\ "proto" # "cancel" /\ Seat \subseteq Proc /\ M \in Proc /\ Proc = Seat \cup {M}
  BY SeatAssumption DEF M, Proc, Nobody

\* Before the answer there is nothing to show, and after it nothing changes that it
\* rests on.
LEMMA NoAnswerYet ==
    ASSUME AnswerOK, pc # "returned", pc' # "returned", UNCHANGED response
    PROVE  AnswerOK'
  <1>1. response' = Answer("none", "none", Nobody)
    BY DEF AnswerOK
  <1> QED
    BY <1>1 DEF AnswerOK, Fair, ManagerVerdictStands, MatchIsFair, CancellationIsNoFault, Answer

LEMMA AnswerStands ==
    ASSUME AnswerOK, UNCHANGED <<pc, response, parent, phase, proto, result>>,
           pc = "returned" => why' = why /\ \A p \in Proc : at'[p] = at[p]
    PROVE  AnswerOK'
  <1>1. CASE pc # "returned"
    BY <1>1, NoAnswerYet
  <1>2. CASE pc = "returned"
    BY <1>2, NoClash DEF AnswerOK, Fair, ManagerVerdictStands, MatchIsFair, CancellationIsNoFault,
       Genuine
  <1> QED
    BY <1>1, <1>2

-----------------------------------------------------------------------------
(* A run ends *)

\* A process ends with the result r for the reason c.
Reason(p, r, c) ==
    /\ phase[p] \in {"setup", "ready", "running"}
    /\ \/ /\ phase[p] # "running" /\ c \in {"setup", "canceled"}
          /\ r = Res("InitFail", "none", None)
       \/ /\ phase[p] = "running"
          /\ \/ c = "clean" /\ r = Res("OK", "none", 0)
             \/ c = "own" /\ r \in {Res("OK", "none", 1), Res("TLE", "limit", None)}
             \/ c = "setup" /\ r = Res("InitFail", "sandbox_init", 1)
             \/ c = "pipe" /\ r \in {Res("RE", "stream_io", 0), Res("RE", "signal", None)}
             \/ c = "canceled" /\ r = Res("TLE", "wall_time", None)
    /\ c = "canceled" => Canceled(p)

\* What changes then.
LEMMA EndChanges ==
    ASSUME TypeOK, NEW p \in Proc, NEW r, NEW c, Returns(p, r, c), Reason(p, r, c),
           UNCHANGED <<Outside, readied, begun>>
    PROVE  /\ phase' = [phase EXCEPT ![p] = IF p = M THEN "over" ELSE "sent"]
           /\ \A q \in Proc : phase'[q] = IF q = p THEN IF p = M THEN "over" ELSE "sent" ELSE phase[q]
           /\ why' \in [Proc -> Causes]
           /\ \A q \in Proc \ {p} : why'[q] = why[q] /\ result'[q] = result[q]
           /\ why'[p] = IF why[p] = "deadline" /\ c # "clean" THEN "deadline" ELSE c
           /\ result'[p] = r /\ DOMAIN result' = Proc
           /\ p = M => UNCHANGED <<clock, at>>
           /\ p # M => clock' = clock + 1 /\ at' = [at EXCEPT ![p] = clock + 1]
           /\ UNCHANGED <<match, pc, parent, comm, readied, begun, startup, armed, fired, deadline,
                          proto, first, triggered, boundary, response>>
  <1> USE DEF TypeOK, Returns, Reason
  <1>1. /\ phase' = [phase EXCEPT ![p] = IF p = M THEN "over" ELSE "sent"]
        /\ \A q \in Proc : phase'[q] = IF q = p THEN IF p = M THEN "over" ELSE "sent" ELSE phase[q]
    OBVIOUS
  <1>2. /\ why' \in [Proc -> Causes]
        /\ \A q \in Proc \ {p} : why'[q] = why[q]
        /\ why'[p] = IF why[p] = "deadline" /\ c # "clean" THEN "deadline" ELSE c
    BY DEF Causes
  <1>3. /\ result'[p] = r /\ DOMAIN result' = Proc
        /\ \A q \in Proc \ {p} : result'[q] = result[q]
    OBVIOUS
  <1>4. /\ p = M => UNCHANGED <<clock, at>>
        /\ p # M => clock' = clock + 1 /\ at' = [at EXCEPT ![p] = clock + 1]
    BY DEF Stamp, now
  <1>5. UNCHANGED <<match, pc, parent, comm, readied, begun, startup, armed, fired, deadline,
                    proto, first, triggered, boundary, response>>
    BY DEF Outside, timer, loop
  <1> QED
    BY <1>1, <1>2, <1>3, <1>4, <1>5

\* However a run ends, the invariant is kept.
LEMMA EndKeeps ==
    ASSUME Prompt, IInv, NEW p \in Proc, NEW r, NEW c, Returns(p, r, c), Reason(p, r, c),
           UNCHANGED <<Outside, readied, begun>>
    PROVE  IInv'
  <1> USE NoClash DEF IInv
  <1> DEFINE Ph == IF p = M THEN "over" ELSE "sent"
  <1>a. /\ phase' = [phase EXCEPT ![p] = Ph]
        /\ phase[p] \in {"setup", "ready", "running"}
        /\ p \in Seat => Ph = "sent"
        /\ p \notin Seat => Ph = "over" /\ p = M
        /\ c # "deadline"
    <2>1. phase' = [phase EXCEPT ![p] = Ph]
      BY EndChanges
    <2>2. phase[p] \in {"setup", "ready", "running"} /\ c # "deadline"
      BY DEF Reason
    <2>3. (p \in Seat => Ph = "sent") /\ (p \notin Seat => Ph = "over" /\ p = M)
      OBVIOUS
    <2> QED
      BY <2>1, <2>2, <2>3
  <1>b. /\ why' \in [Proc -> Causes]
        /\ \A q \in Proc \ {p} : why'[q] = why[q] /\ result'[q] = result[q]
        /\ why'[p] = IF why[p] = "deadline" /\ c # "clean" THEN "deadline" ELSE c
        /\ result'[p] = r /\ DOMAIN result' = Proc
    BY EndChanges
  <1>c. /\ UNCHANGED <<match, pc, parent, comm, readied, begun, startup, armed, fired, deadline,
                       proto, first, triggered, boundary, response>>
        /\ at'["cancel"] = at["cancel"]
    BY EndChanges DEF StampsOK, Events
  <1>d. /\ p = M => UNCHANGED <<clock, at>>
        /\ p # M => clock' = clock + 1 /\ at' = [at EXCEPT ![p] = clock + 1]
    BY EndChanges
  <1>e. /\ \A q \in Proc \ {p} : phase'[q] = phase[q] /\ at'[q] = at[q]
        /\ phase'[p] = Ph
        /\ p \in Seat => at'[p] = clock + 1 /\ \A e \in Events : at'[e] = IF e = p THEN clock + 1 ELSE at[e]
    BY <1>a, <1>d DEF TypeOK, StampsOK, Events
  <1> HIDE DEF Ph
  <1>f. \A q \in Proc : at[q] \in Nat /\ at[q] <= clock /\ at'[q] \in Nat
    BY <1>e, <1>d DEF StampsOK, Events
  <1>g. at["cancel"] \in Nat /\ at["cancel"] <= clock /\ clock \in Nat
    BY DEF StampsOK, Events
  <1>1. TypeOK'
    BY <1>a, <1>b, <1>c DEF TypeOK, Phases
  <1>2. StampsOK'
    <2>1. CASE p = M
      BY <2>1, <1>a, <1>d, <1>e DEF StampsOK
    <2>2. CASE p # M
      BY <2>2, <1>a, <1>d, <1>e DEF StampsOK, Events
    <2> QED
      BY <2>1, <2>2
  <1>3. StartOK'
    BY <1>a, <1>c, <1>e DEF StartOK, Ended, TypeOK
  <1>4. ExplainedOK'
    <2>1. Ended(p)' /\ \A q \in Proc \ {p} : Ended(q)' <=> Ended(q)
      BY <1>a, <1>e DEF Ended
    <2>2. p \in begun <=> phase[p] = "running"
      BY <1>a DEF StartOK, Ended
    <2>3. ~Ended(p)
      BY <1>a DEF Ended
    <2>4. p \in begun \/ why[p] = "none"
      BY <2>3 DEF ExplainedOK
    <2>5. \/ p \notin begun /\ c \in {"setup", "canceled"} /\ r = Res("InitFail", "none", None)
          \/ /\ p \in begun
             /\ \/ c = "clean" /\ r = Res("OK", "none", 0)
                \/ c = "own" /\ r \in {Res("OK", "none", 1), Res("TLE", "limit", None)}
                \/ c = "setup" /\ r = Res("InitFail", "sandbox_init", 1)
                \/ c = "pipe" /\ r \in {Res("RE", "stream_io", 0), Res("RE", "signal", None)}
                \/ c = "canceled" /\ r = Res("TLE", "wall_time", None)
      BY <2>2 DEF Reason
    <2>6. why'[p] = c \/ (why'[p] = "deadline" /\ c # "clean" /\ p \in begun)
      BY <1>b, <2>4
    <2>7. p \in begun /\ c # "clean" => r \in LateEnds
      BY <2>5 DEF LateEnds
    <2> QED
      BY <1>b, <1>c, <2>1, <2>5, <2>6, <2>7 DEF ExplainedOK
  <1>h. p \in fired /\ p \in begun => why[p] = "deadline"
    BY <1>a DEF DeadlineOK, StartOK, Ended
  <1>i. p \in begun /\ c = "canceled" /\ why'[p] # "deadline" => comm
    BY <1>b, <1>h DEF Reason, Canceled
  <1>5. DeadlineOK'
    <2>1. p \in begun /\ p \in deadline => why'[p] \in {"deadline", "clean"}
      BY <1>b, <1>h DEF TypeOK
    <2>2. \A q \in Proc : Stopped(q)' => comm
      BY <1>b, <1>c, <1>i DEF DeadlineOK, Stopped
    <2> QED
      BY <1>a, <1>b, <1>c, <1>e, <2>1, <2>2 DEF DeadlineOK, TypeOK
  <1>6. TriggerOK'
    <2>1. first # p
      BY <1>a DEF TriggerOK
    <2>2. phase[M] = "got" => p # M
      BY <1>a
    <2>3. phase'[M] = "got" <=> phase[M] = "got"
      BY <1>a, <1>e
    <2>4. ManagerBad => ManagerBad'
      BY <2>2, <2>3, <1>b, <1>c DEF ManagerBad
    <2>5. \A q \in Seat : phase'[q] = "got" => phase[q] = "got" /\ q # p
      BY <1>a, <1>e
    <2>6. \A q \in Seat : After(q) /\ q # p => After(q)'
      BY <2>2, <2>3, <1>e DEF After
    <2>7. \A q \in Seat : q # p => (SandboxFailed(q)' <=> SandboxFailed(q))
      BY <1>b DEF SandboxFailed
    <2> QED
      BY <1>b, <1>c, <1>e, <2>1, <2>3, <2>4, <2>5, <2>6, <2>7 DEF TriggerOK, TypeOK
  <1>7. BlameOK'
    <2>1. phase[M] = "got" => p # M
      BY <1>a
    <2>2. phase'[M] = "got" <=> phase[M] = "got"
      BY <1>a, <1>e
    <2>3. \A q \in Seat : After(q) /\ q # p => After(q)'
      BY <2>1, <2>2, <1>e DEF After
    <2>4. phase[M] = "got" /\ p \in Seat => After(p)'
      BY <2>1, <2>2, <1>e, <1>f, <1>g DEF After
    <2>5. first # p
      BY <1>a DEF TriggerOK
    <2>6. comm /\ ~parent => triggered \/ phase[M] = "got"
      BY DEF BlameOK
    <2>7. p \in Seat /\ Stopped(p)' => comm
      BY <1>b, <1>c, <1>i DEF Stopped
    <2>8. \A q \in Seat : q # p => (Stopped(q)' <=> Stopped(q))
      BY <1>b, <1>c DEF Stopped
    <2> QED
      BY <1>c, <2>2, <2>3, <2>4, <2>5, <2>6, <2>7, <2>8 DEF BlameOK
  <1>8. CancelOK'
    <2>1. phase[M] = "got" => p # M
      BY <1>a
    <2>2. phase'[M] = "got" <=> phase[M] = "got"
      BY <1>a, <1>e
    <2>3. ManagerBad => ManagerBad' /\ at'[M] = at[M]
      BY <2>1, <2>2, <1>b, <1>c, <1>e DEF ManagerBad
    <2>4. Settled => Settled'
      BY <2>1, <2>2, <1>c, <1>e, <1>f, <1>g DEF Settled
    <2>5. SUFFICES ASSUME match, ~parent, \A q \in Seat : ~SandboxFailed(q)' PROVE CancelOK'
      BY <1>c DEF CancelOK
    <2>6. \A q \in Seat : ~SandboxFailed(q)
      <3>1. ~SandboxFailed(p)
        BY <1>a DEF ExplainedOK, Ended, SandboxFailed, Res
      <3> QED
        BY <2>5, <3>1, <1>b DEF SandboxFailed
    <2>7. \A q \in Seat : q # p /\ Stopped(q)' => Stopped(q) /\ at'[q] = at[q]
      BY <1>b, <1>c, <1>e DEF Stopped
    <2>8. p \in Seat /\ Stopped(p)' => p \in begun /\ comm /\ at'[p] = clock + 1
      BY <1>b, <1>c, <1>e, <1>i DEF Stopped
    <2>9. p \in Seat /\ Stopped(p)' =>
             \/ at["cancel"] # 0 /\ at'[p] > at["cancel"]
             \/ ManagerBad' /\ at["cancel"] = 0
             \/ at["cancel"] = 0 /\ Settled'
      BY <2>3, <2>4, <2>5, <2>6, <2>8, <1>g DEF CancelOK
    <2> QED
      BY <1>c, <2>3, <2>4, <2>5, <2>6, <2>7, <2>9 DEF CancelOK
  <1>9. AnswerOK'
    <2>1. pc # "returned"
      BY <1>a DEF AnswerOK
    <2>2. response' = Answer("none", "none", Nobody) /\ pc' # "returned"
      BY <2>1, <1>c DEF AnswerOK
    <2> QED
      BY <2>2 DEF AnswerOK, Fair, ManagerVerdictStands, MatchIsFair, CancellationIsNoFault, Answer
  <1> QED
    BY <1>1, <1>2, <1>3, <1>4, <1>5, <1>6, <1>7, <1>8, <1>9 DEF IInv

\* The ways to end.
LEMMA Endings ==
    ASSUME Prompt, IInv, NEW p \in Proc,
           CanceledEarly(p) \/ EndsItself(p) \/ SandboxFails(p) \/ PipeBreaks(p) \/ Killed(p)
    PROVE  IInv'
  <1>1. CASE CanceledEarly(p)
    <2>1. Reason(p, Res("InitFail", "none", None), "canceled")
      BY <1>1 DEF CanceledEarly, Reason
    <2> QED
      BY <1>1, <2>1, EndKeeps DEF CanceledEarly
  <1>2. CASE EndsItself(p)
    <2>1. PICK r \in {Res("OK", "none", 0), Res("OK", "none", 1), Res("TLE", "limit", None)} :
              Returns(p, r, IF r.exit = 0 THEN "clean" ELSE "own")
      BY <1>2 DEF EndsItself
    <2>2. /\ r = Res("OK", "none", 0) => (IF r.exit = 0 THEN "clean" ELSE "own") = "clean"
          /\ r # Res("OK", "none", 0) => (IF r.exit = 0 THEN "clean" ELSE "own") = "own"
      BY <2>1 DEF Res, None
    <2>3. Reason(p, r, IF r.exit = 0 THEN "clean" ELSE "own")
      BY <1>2, <2>1, <2>2 DEF EndsItself, Reason
    <2> QED
      BY <1>2, <2>1, <2>3, EndKeeps DEF EndsItself
  <1>3. CASE PipeBreaks(p)
    <2>1. PICK r \in {Res("RE", "stream_io", 0), Res("RE", "signal", None)} : Returns(p, r, "pipe")
      BY <1>3 DEF PipeBreaks
    <2>2. Reason(p, r, "pipe")
      BY <1>3, <2>1 DEF PipeBreaks, Reason
    <2> QED
      BY <1>3, <2>1, <2>2, EndKeeps DEF PipeBreaks
  <1>4. CASE Killed(p)
    <2>1. Reason(p, Res("TLE", "wall_time", None), "canceled")
      BY <1>4 DEF Killed, Reason
    <2> QED
      BY <1>4, <2>1, EndKeeps DEF Killed
  <1>5. CASE SandboxFails(p)
    <2>1. CASE phase[p] = "ready" /\ Returns(p, Res("InitFail", "none", None), "setup")
      <3>1. Reason(p, Res("InitFail", "none", None), "setup")
        BY <2>1 DEF Reason
      <3> QED
        BY <1>5, <2>1, <3>1, EndKeeps DEF SandboxFails
    <2>2. CASE phase[p] = "running" /\ Returns(p, Res("InitFail", "sandbox_init", 1), "setup")
      <3>1. Reason(p, Res("InitFail", "sandbox_init", 1), "setup")
        BY <2>2 DEF Reason
      <3> QED
        BY <1>5, <2>2, <3>1, EndKeeps DEF SandboxFails
    <2> QED
      BY <1>5, <2>1, <2>2 DEF SandboxFails
  <1> QED
    BY <1>1, <1>2, <1>3, <1>4, <1>5

-----------------------------------------------------------------------------
(* A run gets ready and starts *)

\* A process that reports that it is ready.
LEMMA ReadyKeeps ==
    ASSUME Prompt, IInv, NEW p \in Proc, phase[p] = "setup", phase' = [phase EXCEPT ![p] = "ready"],
           readied' = readied \cup {p}, UNCHANGED <<Outside, begun, result, why, now>>
    PROVE  IInv'
  <1> USE NoClash DEF IInv, Outside, timer, loop, now
  <1>a. \A q \in Proc : phase'[q] = IF q = p THEN "ready" ELSE phase[q]
    BY DEF TypeOK
  <1>1. TypeOK'
    BY DEF TypeOK, Phases, Causes
  <1>2. StampsOK'
    BY <1>a DEF StampsOK, Events
  <1>3. StartOK'
    BY <1>a DEF StartOK, Ended, TypeOK
  <1>b. \A q \in Proc : Ended(q)' <=> Ended(q)
    BY <1>a DEF Ended
  <1>4. ExplainedOK'
    BY <1>b DEF ExplainedOK
  <1>c. \A q \in Proc : Stopped(q)' <=> Stopped(q)
    BY DEF Stopped
  <1>d. \A q \in Proc : After(q)' <=> After(q)
    BY <1>a DEF After
  <1>e. ManagerBad' <=> ManagerBad
    BY <1>a DEF ManagerBad
  <1>f. Settled' <=> Settled
    BY <1>a DEF Settled
  <1>5. DeadlineOK'
    BY <1>a, <1>c DEF DeadlineOK, TypeOK
  <1>6. TriggerOK'
    BY <1>a, <1>d, <1>e DEF TriggerOK, TypeOK, SandboxFailed
  <1>7. BlameOK'
    BY <1>a, <1>c, <1>d DEF BlameOK
  <1>8. CancelOK'
    BY <1>c, <1>e, <1>f DEF CancelOK, SandboxFailed
  <1>9. AnswerOK'
    <2>1. pc # "returned"
      BY <1>a DEF AnswerOK
    <2> QED
      BY <2>1, NoAnswerYet
  <1> QED
    BY <1>1, <1>2, <1>3, <1>4, <1>5, <1>6, <1>7, <1>8, <1>9 DEF IInv

\* A setup succeeds or fails.
LEMMA SetupStep == ASSUME Prompt, IInv, NEW p \in Proc, Setup(p) PROVE IInv'
  <1>1. CASE phase' = [phase EXCEPT ![p] = "ready"] /\ readied' = readied \cup {p}
             /\ UNCHANGED <<result, why, now>>
    BY <1>1, ReadyKeeps DEF Setup
  <1>2. CASE Returns(p, Res("InitFail", "none", None), "setup") /\ UNCHANGED readied
    <2>1. Reason(p, Res("InitFail", "none", None), "setup")
      BY <1>2 DEF Setup, Reason
    <2> QED
      BY <1>2, <2>1, EndKeeps DEF Setup
  <1> QED
    BY <1>1, <1>2 DEF Setup

\* With Prompt no target starts once the coordinator has canceled.
LEMMA TargetStartsStep == ASSUME Prompt, IInv, NEW p \in Proc, TargetStarts(p) PROVE IInv'
  <1> USE NoClash DEF IInv, TargetStarts, Outside, timer, loop, now
  <1>a. \A q \in Proc : phase'[q] = IF q = p THEN "running" ELSE phase[q]
    BY DEF TypeOK
  <1>b. ~comm /\ p \notin fired
    BY DEF Canceled
  <1>1. TypeOK'
    BY DEF TypeOK, Phases, Causes
  <1>2. StampsOK'
    BY <1>a DEF StampsOK, Events
  <1>3. StartOK'
    BY <1>a, <1>b DEF StartOK, Ended, TypeOK
  <1>c. \A q \in Proc : Ended(q)' <=> Ended(q)
    BY <1>a DEF Ended
  <1>d. ~Ended(p) /\ p \notin begun
    BY <1>a DEF StartOK, Ended
  <1>4. ExplainedOK'
    BY <1>c, <1>d DEF ExplainedOK
  <1>e. \A q \in Proc : Stopped(q)' <=> Stopped(q)
    BY <1>d DEF Stopped, ExplainedOK
  <1>f. \A q \in Proc : After(q)' <=> After(q)
    BY <1>a DEF After
  <1>g. ManagerBad' <=> ManagerBad
    BY <1>a DEF ManagerBad
  <1>5. DeadlineOK'
    BY <1>a, <1>b, <1>e DEF DeadlineOK, TypeOK
  <1>6. TriggerOK'
    BY <1>a, <1>b, <1>f, <1>g DEF TriggerOK, TypeOK, SandboxFailed
  <1>7. BlameOK'
    BY <1>a, <1>b, <1>d, <1>e, <1>f DEF BlameOK, ExplainedOK
  <1>8. CancelOK'
    BY <1>b, <1>e, <1>g DEF CancelOK, DeadlineOK, SandboxFailed
  <1>9. AnswerOK'
    <2>1. pc # "returned"
      BY <1>a DEF AnswerOK
    <2> QED
      BY <2>1, NoAnswerYet
  <1> QED
    BY <1>1, <1>2, <1>3, <1>4, <1>5, <1>6, <1>7, <1>8, <1>9 DEF IInv

-----------------------------------------------------------------------------
(* Timers, and the loop that waits until all are ready *)

\* The start of a request, or its rejection.
LEMMA PrepareStep == ASSUME Prompt, IInv, Prepare PROVE IInv'
  <1> USE NoClash DEF IInv, Prepare, Go, run, timer, loop, now, Answer
  <1>1. TypeOK'
    BY DEF TypeOK, Phases, Causes
  <1>2. StampsOK'
    BY DEF StampsOK, TypeOK, StartOK, Events, Phases
  <1>3. StartOK'
    BY DEF StartOK, TypeOK, Ended, Phases
  <1>4. ExplainedOK'
    BY DEF ExplainedOK, TypeOK, StartOK, Ended, Phases
  <1>5. DeadlineOK'
    BY DEF DeadlineOK, TypeOK, StampsOK, StartOK, ExplainedOK, Ended, Events, Stopped
  <1>6. TriggerOK'
    BY DEF TriggerOK, SandboxFailed, TypeOK, StampsOK, StartOK, ExplainedOK, ManagerBad, After, Ended,
           Events
  <1>7. BlameOK'
    BY DEF BlameOK, TypeOK, StampsOK, StartOK, ExplainedOK, DeadlineOK, TriggerOK,
           Stopped, After, Ended, Events
  <1>8. CancelOK'
    BY DEF CancelOK, SandboxFailed, TypeOK, StampsOK, StartOK, ExplainedOK, DeadlineOK, TriggerOK,
           BlameOK, Stopped, ManagerBad, Settled, Ended, Events
  <1>9. AnswerOK'
    BY DEF AnswerOK, TypeOK, StampsOK, StartOK, ExplainedOK, Fair, ManagerVerdictStands,
           MatchIsFair, CancellationIsNoFault, Genuine
  <1> QED
    BY <1>1, <1>2, <1>3, <1>4, <1>5, <1>6, <1>7, <1>8, <1>9 DEF IInv

\* The manager's completion gets its time.
LEMMA ManagerCompletesStep == ASSUME Prompt, IInv, ManagerCompletes PROVE IInv'
  <1> USE NoClash DEF IInv, ManagerCompletes, Stamp, Outside, timer, loop, now
  <1>1. TypeOK'
    BY DEF TypeOK, Phases, Causes
  <1>2. StampsOK'
    BY DEF StampsOK, TypeOK, Events, Phases
  <1>3. StartOK'
    BY DEF StartOK, TypeOK, Ended, Phases
  <1>4. ExplainedOK'
    BY DEF ExplainedOK, TypeOK, StartOK, Ended, Phases
  <1>5. DeadlineOK'
    BY DEF DeadlineOK, TypeOK, StampsOK, StartOK, ExplainedOK, Ended, Events, Stopped
  <1>6. TriggerOK'
    BY DEF TriggerOK, SandboxFailed, TypeOK, StampsOK, StartOK, ExplainedOK, ManagerBad, After, Ended,
           Events
  <1>7. BlameOK'
    BY DEF BlameOK, TypeOK, StampsOK, StartOK, ExplainedOK, DeadlineOK, TriggerOK,
           Stopped, After, Ended, Events
  <1>8. CancelOK'
    BY DEF CancelOK, SandboxFailed, TypeOK, StampsOK, StartOK, ExplainedOK, DeadlineOK, TriggerOK,
           BlameOK, Stopped, ManagerBad, Settled, Ended, Events
  <1>9. AnswerOK'
    BY NoAnswerYet DEF AnswerOK, TypeOK
  <1> QED
    BY <1>1, <1>2, <1>3, <1>4, <1>5, <1>6, <1>7, <1>8, <1>9 DEF IInv

\* The reader of the manager's result sees its end.
LEMMA ReadResultStep == ASSUME Prompt, IInv, ReadResult PROVE IInv'
  <1> USE NoClash DEF IInv, ReadResult, StampMatch, Stamp, run, timer, loop, now,
                      managerFilesClosed
  <1>1. TypeOK'
    BY DEF TypeOK, Phases, Causes
  <1>2. StampsOK'
    BY DEF StampsOK, TypeOK, Events, Phases
  <1>3. StartOK'
    BY DEF StartOK, TypeOK, Ended, Phases
  <1>4. ExplainedOK'
    BY DEF ExplainedOK, TypeOK, StartOK, Ended, Phases
  <1>5. DeadlineOK'
    BY DEF DeadlineOK, TypeOK, StampsOK, StartOK, ExplainedOK, Ended, Events, Stopped
  <1>6. TriggerOK'
    BY DEF TriggerOK, SandboxFailed, TypeOK, StampsOK, StartOK, ExplainedOK, ManagerBad, After, Ended,
           Events
  <1>7. BlameOK'
    BY DEF BlameOK, TypeOK, StampsOK, StartOK, ExplainedOK, DeadlineOK, TriggerOK,
           Stopped, After, Ended, Events
  <1>8. CancelOK'
    BY DEF CancelOK, SandboxFailed, TypeOK, StampsOK, StartOK, ExplainedOK, DeadlineOK, TriggerOK,
           BlameOK, Stopped, ManagerBad, Settled, Ended, Events
  <1>9. AnswerOK'
    <2>1. \A p \in Proc : at'[p] = at[p]
      BY DEF StampsOK, Events
    <2>2. CASE pc # "returned"
      BY <2>2, NoAnswerYet
    <2>3. CASE pc = "returned"
      <3>1. /\ UNCHANGED <<pc, response, parent, phase, why, result>> /\ proto = "none"
            /\ AnswerOK
        OBVIOUS
      <3> QED
        BY ONLY NoClash, <2>1, <2>3, <3>1 DEF AnswerOK, Fair, ManagerVerdictStands, MatchIsFair,
           CancellationIsNoFault, Genuine
    <2> QED
      BY <2>2, <2>3
  <1> QED
    BY <1>1, <1>2, <1>3, <1>4, <1>5, <1>6, <1>7, <1>8, <1>9 DEF IInv

\* The request's own context is done.
LEMMA ParentCancelsStep == ASSUME Prompt, IInv, ParentCancels PROVE IInv'
  <1> USE NoClash DEF IInv, ParentCancels, run, timer, loop, now
  <1>1. TypeOK'
    BY DEF TypeOK, Phases, Causes
  <1>2. StampsOK'
    BY DEF StampsOK, TypeOK, Events, Phases
  <1>3. StartOK'
    BY DEF StartOK, TypeOK, Ended, Phases
  <1>4. ExplainedOK'
    BY DEF ExplainedOK, TypeOK, StartOK, Ended, Phases
  <1>5. DeadlineOK'
    BY DEF DeadlineOK, TypeOK, StampsOK, StartOK, ExplainedOK, Ended, Events, Stopped
  <1>6. TriggerOK'
    BY DEF TriggerOK, SandboxFailed, TypeOK, StampsOK, StartOK, ExplainedOK, ManagerBad, After, Ended,
           Events
  <1>7. BlameOK'
    BY DEF BlameOK, TypeOK, StampsOK, StartOK, ExplainedOK, DeadlineOK, TriggerOK,
           Stopped, After, Ended, Events
  <1>8. CancelOK'
    BY DEF CancelOK, SandboxFailed, TypeOK, StampsOK, StartOK, ExplainedOK, DeadlineOK, TriggerOK,
           BlameOK, Stopped, ManagerBad, Settled, Ended, Events
  <1>9. AnswerOK'
    BY DEF AnswerOK, TypeOK, StampsOK, StartOK, ExplainedOK, Fair, ManagerVerdictStands,
           MatchIsFair, CancellationIsNoFault, Genuine
  <1> QED
    BY <1>1, <1>2, <1>3, <1>4, <1>5, <1>6, <1>7, <1>8, <1>9 DEF IInv

\* A wall timer fires.
LEMMA WallFiresStep == ASSUME Prompt, IInv, NEW p \in Proc, WallFires(p) PROVE IInv'
  <1> USE NoClash DEF IInv, WallFires, run, timer, loop, now
  <1>1. TypeOK'
    BY DEF TypeOK, Phases, Causes
  <1>2. StampsOK'
    BY DEF StampsOK, TypeOK, Events, Phases
  <1>3. StartOK'
    BY DEF StartOK, TypeOK, Ended, Phases
  <1>4. ExplainedOK'
    BY DEF ExplainedOK, TypeOK, StartOK, Ended, Phases
  <1>5. DeadlineOK'
    BY DEF DeadlineOK, TypeOK, StampsOK, StartOK, ExplainedOK, Ended, Events, Stopped
  <1>6. TriggerOK'
    BY DEF TriggerOK, SandboxFailed, TypeOK, StampsOK, StartOK, ExplainedOK, ManagerBad, After, Ended,
           Events
  <1>7. BlameOK'
    BY DEF BlameOK, TypeOK, StampsOK, StartOK, ExplainedOK, DeadlineOK, TriggerOK,
           Stopped, After, Ended, Events
  <1>8. CancelOK'
    BY DEF CancelOK, SandboxFailed, TypeOK, StampsOK, StartOK, ExplainedOK, DeadlineOK, TriggerOK,
           BlameOK, Stopped, ManagerBad, Settled, Ended, Events
  <1>9. AnswerOK'
    BY AnswerStands DEF AnswerOK, StampsOK, StartOK, Ended
  <1> QED
    BY <1>1, <1>2, <1>3, <1>4, <1>5, <1>6, <1>7, <1>8, <1>9 DEF IInv

\* Somebody who waits at the startup boundary may cancel.
LEMMA BoundaryStep == ASSUME Prompt, IInv, NEW b \in {"fault", "exit"}, Boundary(b) PROVE IInv'
  <1> USE NoClash DEF IInv, Boundary, StampMatch, Stamp, run, timer, loop, now
  <1>1. TypeOK'
    BY ZenonT(60) DEF TypeOK, Phases, Causes
  <1>2. StampsOK'
    BY DEF StampsOK, TypeOK, Events, Phases
  <1>3. StartOK'
    BY DEF StartOK, TypeOK, Ended, Phases
  <1>4. ExplainedOK'
    BY DEF ExplainedOK, TypeOK, StartOK, Ended, Phases
  <1>5. DeadlineOK'
    BY DEF DeadlineOK, TypeOK, StampsOK, StartOK, ExplainedOK, Ended, Events, Stopped
  <1>6. TriggerOK'
    BY DEF TriggerOK, SandboxFailed, TypeOK, StampsOK, StartOK, ExplainedOK, ManagerBad, After, Ended,
           Events
  <1>7. BlameOK'
    BY DEF BlameOK, TypeOK, StampsOK, StartOK, ExplainedOK, DeadlineOK, TriggerOK,
           Stopped, After, Ended, Events
  <1>8. CancelOK'
    BY DEF CancelOK, SandboxFailed, TypeOK, StampsOK, StartOK, ExplainedOK, DeadlineOK, TriggerOK,
           BlameOK, Stopped, ManagerBad, Settled, Ended, Events
  <1>9. AnswerOK'
    BY AnswerStands DEF StampsOK, TypeOK, Events
  <1> QED
    BY <1>1, <1>2, <1>3, <1>4, <1>5, <1>6, <1>7, <1>8, <1>9 DEF IInv

\* A result that comes before all are ready ends the start.
LEMMA AwaitResultStep == ASSUME Prompt, IInv, NEW p \in Proc, AwaitResult(p) PROVE IInv'
  <1> USE NoClash DEF IInv, AwaitResult, Abort, Go, run, timer, loop, now
  <1>1. TypeOK'
    BY DEF TypeOK, Phases, Causes
  <1>2. StampsOK'
    BY DEF StampsOK, TypeOK, Events, Phases
  <1>3. StartOK'
    BY DEF StartOK, TypeOK, Ended, Phases
  <1>4. ExplainedOK'
    BY DEF ExplainedOK, TypeOK, StartOK, Ended, Phases
  <1>5. DeadlineOK'
    BY DEF DeadlineOK, TypeOK, StampsOK, StartOK, ExplainedOK, Ended, Events, Stopped
  <1>6. TriggerOK'
    BY DEF TriggerOK, SandboxFailed, TypeOK, StampsOK, StartOK, ExplainedOK, ManagerBad, After, Ended,
           Events
  <1>7. BlameOK'
    BY DEF BlameOK, TypeOK, StampsOK, StartOK, ExplainedOK, DeadlineOK, TriggerOK,
           Stopped, After, Ended, Events
  <1>8. CancelOK'
    BY DEF CancelOK, SandboxFailed, TypeOK, StampsOK, StartOK, ExplainedOK, DeadlineOK, TriggerOK,
           BlameOK, Stopped, ManagerBad, Settled, Ended, Events
  <1>9. AnswerOK'
    BY DEF AnswerOK, TypeOK, StampsOK, StartOK, ExplainedOK, Fair, ManagerVerdictStands,
           MatchIsFair, CancellationIsNoFault, Genuine
  <1> QED
    BY <1>1, <1>2, <1>3, <1>4, <1>5, <1>6, <1>7, <1>8, <1>9 DEF IInv

\* So does the startup timer, or the request's cancellation.
LEMMA AwaitGivesUpStep == ASSUME Prompt, IInv, AwaitGivesUp PROVE IInv'
  <1> USE NoClash DEF IInv, AwaitGivesUp, Abort, Go, run, timer, loop, now
  <1>1. TypeOK'
    BY DEF TypeOK, Phases, Causes
  <1>2. StampsOK'
    BY DEF StampsOK, TypeOK, Events, Phases
  <1>3. StartOK'
    BY DEF StartOK, TypeOK, Ended, Phases
  <1>4. ExplainedOK'
    BY DEF ExplainedOK, TypeOK, StartOK, Ended, Phases
  <1>5. DeadlineOK'
    BY DEF DeadlineOK, TypeOK, StampsOK, StartOK, ExplainedOK, Ended, Events, Stopped
  <1>6. TriggerOK'
    BY DEF TriggerOK, SandboxFailed, TypeOK, StampsOK, StartOK, ExplainedOK, ManagerBad, After, Ended,
           Events
  <1>7. BlameOK'
    BY DEF BlameOK, TypeOK, StampsOK, StartOK, ExplainedOK, DeadlineOK, TriggerOK,
           Stopped, After, Ended, Events
  <1>8. CancelOK'
    BY DEF CancelOK, SandboxFailed, TypeOK, StampsOK, StartOK, ExplainedOK, DeadlineOK, TriggerOK,
           BlameOK, Stopped, ManagerBad, Settled, Ended, Events
  <1>9. AnswerOK'
    BY DEF AnswerOK, TypeOK, StampsOK, StartOK, ExplainedOK, Fair, ManagerVerdictStands,
           MatchIsFair, CancellationIsNoFault, Genuine
  <1> QED
    BY <1>1, <1>2, <1>3, <1>4, <1>5, <1>6, <1>7, <1>8, <1>9 DEF IInv

\* All are ready: the wall timers are armed and the gate opens.
LEMMA AwaitAllStep == ASSUME Prompt, IInv, AwaitAll PROVE IInv'
  <1> USE NoClash DEF IInv, AwaitAll, Go, run, timer, loop, now
  <1>1. TypeOK'
    BY DEF TypeOK, Phases, Causes
  <1>2. StampsOK'
    BY DEF StampsOK, TypeOK, Events, Phases
  <1>3. StartOK'
    BY DEF StartOK, TypeOK, Ended, Phases
  <1>4. ExplainedOK'
    BY DEF ExplainedOK, TypeOK, StartOK, Ended, Phases
  <1>5. DeadlineOK'
    BY DEF DeadlineOK, TypeOK, StampsOK, StartOK, ExplainedOK, Ended, Events, Stopped
  <1>6. TriggerOK'
    BY DEF TriggerOK, SandboxFailed, TypeOK, StampsOK, StartOK, ExplainedOK, ManagerBad, After, Ended,
           Events
  <1>7. BlameOK'
    BY DEF BlameOK, TypeOK, StampsOK, StartOK, ExplainedOK, DeadlineOK, TriggerOK,
           Stopped, After, Ended, Events
  <1>8. CancelOK'
    BY DEF CancelOK, SandboxFailed, TypeOK, StampsOK, StartOK, ExplainedOK, DeadlineOK, TriggerOK,
           BlameOK, Stopped, ManagerBad, Settled, Ended, Events
  <1>9. AnswerOK'
    BY DEF AnswerOK, TypeOK, StampsOK, StartOK, ExplainedOK, Fair, ManagerVerdictStands,
           MatchIsFair, CancellationIsNoFault, Genuine
  <1> QED
    BY <1>1, <1>2, <1>3, <1>4, <1>5, <1>6, <1>7, <1>8, <1>9 DEF IInv

\* The collecting loop ends.
LEMMA AllCollectedStep == ASSUME Prompt, IInv, AllCollected PROVE IInv'
  <1> USE NoClash DEF IInv, AllCollected, Go, StampMatch, Stamp, run, timer, loop, now
  <1>1. TypeOK'
    BY DEF TypeOK, Phases, Causes
  <1>2. StampsOK'
    BY DEF StampsOK, TypeOK, Events, Phases
  <1>3. StartOK'
    BY DEF StartOK, TypeOK, Ended, Phases
  <1>4. ExplainedOK'
    BY DEF ExplainedOK, TypeOK, StartOK, Ended, Phases
  <1>5. DeadlineOK'
    BY DEF DeadlineOK, TypeOK, StampsOK, StartOK, ExplainedOK, Ended, Events, Stopped
  <1>6. TriggerOK'
    BY DEF TriggerOK, SandboxFailed, TypeOK, StampsOK, StartOK, ExplainedOK, ManagerBad, After, Ended,
           Events
  <1>7. BlameOK'
    BY DEF BlameOK, TypeOK, StampsOK, StartOK, ExplainedOK, DeadlineOK, TriggerOK,
           Stopped, After, Ended, Events
  <1>8. CancelOK'
    BY DEF CancelOK, SandboxFailed, TypeOK, StampsOK, StartOK, ExplainedOK, DeadlineOK, TriggerOK,
           BlameOK, Stopped, ManagerBad, Settled, Ended, Events
  <1>9. AnswerOK'
    BY NoAnswerYet
  <1> QED
    BY <1>1, <1>2, <1>3, <1>4, <1>5, <1>6, <1>7, <1>8, <1>9 DEF IInv

-----------------------------------------------------------------------------
(* The loop that collects the results *)

\* What can be told from what a process returned.
LEMMA Verdicts ==
    ASSUME IInv, NEW p \in Proc, Ended(p)
    PROVE  /\ communicationProcessFailed(p) <=> why[p] # "clean"
           /\ finalOK(p) <=> why[p] = "clean"
           /\ p \notin begun \/ SandboxFailed(p) => communicationParticipantInfrastructureFailure(p)
           /\ result[p].source = "stream_io" => why[p] \in {"pipe", "deadline"}
           /\ why[p] = "pipe" => result[p].source \in {"stream_io", "signal"}
           /\ result[p].source = "wall_time" => why[p] \in {"canceled", "deadline"} /\ p \in begun
           /\ p \notin begun => why[p] \in {"setup", "canceled"}
           /\ why[p] = "setup" => communicationParticipantInfrastructureFailure(p)
           /\ SandboxFailed(p) => why[p] \in {"setup", "deadline"}
           /\ why[p] \in {"setup", "canceled", "own", "clean", "pipe", "deadline"}
  <1>1. \/ p \notin begun /\ why[p] \in {"setup", "canceled"} /\ result[p] = Res("InitFail", "none", None)
        \/ p \in begun /\ why[p] = "clean" /\ result[p] = Res("OK", "none", 0)
        \/ p \in begun /\ why[p] = "own" /\ result[p] \in {Res("OK", "none", 1), Res("TLE", "limit", None)}
        \/ p \in begun /\ why[p] = "setup" /\ result[p] = Res("InitFail", "sandbox_init", 1)
        \/ p \in begun /\ why[p] = "pipe" /\ result[p] \in {Res("RE", "stream_io", 0), Res("RE", "signal", None)}
        \/ p \in begun /\ why[p] = "canceled" /\ result[p] = Res("TLE", "wall_time", None)
        \/ p \in begun /\ why[p] = "deadline" /\ result[p] \in LateEnds
    BY DEF IInv, ExplainedOK
  <1> HIDE DEF IInv
  <1> QED
    BY <1>1 DEF communicationProcessFailed, finalOK, communicationParticipantInfrastructureFailure,
       classify, Res, None, LateEnds, SandboxFailed

\* In a match, where no sandbox has failed, the coordinator finds the faults that are a
\* seat's own, and a broken pipe that the seat has not survived.
LEMMA FaultIsGenuine ==
    ASSUME IInv, match, NEW p \in Seat, Ended(p), p \in begun,
           ~communicationParticipantInfrastructureFailure(p)
    PROVE  /\ Genuine(p) => communicationIndependentParticipantFault(p)
           /\ communicationIndependentParticipantFault(p) =>
                 Genuine(p) \/ (why[p] = "pipe" /\ result[p].source = "signal")
  <1>1. p \in Proc /\ (why[p] = "deadline" => p \in deadline) /\ (p \in deadline => why[p] \in {"deadline", "clean"})
    BY DEF IInv, DeadlineOK, Proc
  <1>2. \/ why[p] = "clean" /\ result[p] = Res("OK", "none", 0)
        \/ why[p] = "own" /\ result[p] \in {Res("OK", "none", 1), Res("TLE", "limit", None)}
        \/ why[p] = "setup" /\ result[p] = Res("InitFail", "sandbox_init", 1)
        \/ why[p] = "pipe" /\ result[p] \in {Res("RE", "stream_io", 0), Res("RE", "signal", None)}
        \/ why[p] = "canceled" /\ result[p] = Res("TLE", "wall_time", None)
        \/ why[p] = "deadline" /\ result[p] \in LateEnds
    BY <1>1 DEF IInv, ExplainedOK
  <1> QED
    BY <1>1, <1>2 DEF communicationIndependentParticipantFault, finalOK,
       communicationParticipantInfrastructureFailure, classify, Res, None, Genuine, LateEnds

\* From here on a seat that completes is after the manager.
LEMMA CollectManagerStep == ASSUME Prompt, IInv, CollectManager PROVE IInv'
  <1>v. communicationProcessFailed(M) <=> why[M] # "clean"
    BY Verdicts, NoClash DEF CollectManager, Collected, Ended
  <1> USE NoClash DEF IInv, CollectManager, Collected, CollectRest, run, timer, loop, now
  <1>a. \A q \in Proc : phase'[q] = IF q = M THEN "got" ELSE phase[q]
    BY DEF TypeOK
  <1>1. TypeOK'
    BY DEF TypeOK, Phases, Causes
  <1>2. StampsOK'
    BY <1>a DEF StampsOK, Events
  <1>3. StartOK'
    BY <1>a DEF StartOK, Ended, TypeOK
  <1>b. \A q \in Proc : Ended(q)' <=> Ended(q)
    BY <1>a DEF Ended
  <1>4. ExplainedOK'
    BY <1>b DEF ExplainedOK
  <1>c. \A q \in Proc : Stopped(q)' <=> Stopped(q)
    BY DEF Stopped
  <1>d. ~(\E q \in Seat : After(q)) /\ ~ManagerBad /\ ~Settled
    BY DEF After, ManagerBad, Settled
  <1>e. ManagerBad' <=> (why[M] # "clean" \/ proto # "valid")
    BY <1>a DEF ManagerBad
  <1>f. \A q \in Seat : After(q)' <=> at[q] > at[M]
    BY <1>a DEF After
  <1>g. comm => comm'
    OBVIOUS
  <1>h. \/ ManagerBad' /\ triggered' /\ comm' /\ boundary' = boundary
        \/ ~ManagerBad' /\ boundary' = boundary \cup {"exit"} /\ UNCHANGED <<triggered, comm>>
    BY <1>v, <1>e
  <1>5. DeadlineOK'
    BY <1>a, <1>c, <1>g DEF DeadlineOK, TypeOK
  <1>6. TriggerOK'
    <2>1. ~parent /\ first = Nobody =>
             \A q \in Seat : phase'[q] = "got" /\ why[q] # "clean" => triggered'
      BY <1>a, <1>d, <1>h DEF TriggerOK
    <2>2. triggered => triggered' 
      OBVIOUS
    <2>3. triggered' => first # Nobody \/ ManagerBad' \/ (comm' /\ begun = {})
      BY <1>d, <1>h DEF TriggerOK
    <2> QED
      BY <1>a, <1>h, <2>1, <2>2, <2>3 DEF TriggerOK, TypeOK
  <1>7. BlameOK'
    BY <1>a, <1>c, <1>d, <1>h DEF BlameOK
  <1>8. CancelOK'
    <2> SUFFICES ASSUME match, ~parent, \A q \in Seat : ~SandboxFailed(q) PROVE CancelOK'
      BY DEF CancelOK, SandboxFailed
    <2>1. first # Nobody => comm' \/ "fault" \in boundary'
      BY DEF CancelOK
    <2>2. first # Nobody /\ begun # {} => "fault" \in boundary' \/ at["cancel"] # 0
      BY DEF CancelOK
    <2>3. ASSUME comm', at["cancel"] = 0 PROVE begun = {} \/ ManagerBad' \/ Settled'
      BY <2>3, <1>d, <1>h DEF CancelOK
    <2>4. ASSUME NEW q \in Seat, Stopped(q)
          PROVE  at["cancel"] # 0 /\ at[q] > at["cancel"]
      BY <2>4, <1>d DEF CancelOK
    <2> QED
      BY <1>c, <2>1, <2>2, <2>3, <2>4 DEF CancelOK
  <1>9. AnswerOK'
    BY NoAnswerYet
  <1> QED
    BY <1>1, <1>2, <1>3, <1>4, <1>5, <1>6, <1>7, <1>8, <1>9 DEF IInv

\* A failed seat is blamed, or it is too late for that.
LEMMA CollectSeatStep == ASSUME Prompt, IInv, NEW p \in Seat, CollectSeat(p) PROVE IInv'
  <1>v. communicationProcessFailed(p) <=> why[p] # "clean"
    BY Verdicts, NoClash DEF CollectSeat, Collected, Ended
  <1> USE NoClash DEF IInv, CollectSeat, Collected, CollectRest, run, timer, loop, now
  <1>a. \A q \in Proc : phase'[q] = IF q = p THEN "got" ELSE phase[q]
    BY DEF TypeOK
  <1>1. TypeOK'
    BY DEF TypeOK, Phases, Causes
  <1>2. StampsOK'
    BY <1>a DEF StampsOK, Events
  <1>3. StartOK'
    BY <1>a DEF StartOK, Ended, TypeOK
  <1>b. \A q \in Proc : Ended(q)' <=> Ended(q)
    BY <1>a DEF Ended
  <1>4. ExplainedOK'
    BY <1>b DEF ExplainedOK
  <1>c. \A q \in Proc : Stopped(q)' <=> Stopped(q)
    BY DEF Stopped
  <1>d. \A q \in Proc : After(q)' <=> After(q)
    BY <1>a DEF After
  <1>e. ManagerBad' <=> ManagerBad
    BY <1>a DEF ManagerBad
  <1>f. at[p] \in Nat /\ at[M] \in Nat /\ at[p] # at[M]
    BY DEF StampsOK, Events
  <1>h. \/ /\ why[p] # "clean" /\ first = Nobody /\ ~triggered /\ ~parent /\ ~(After(p) /\ ~SandboxFailed(p))
           /\ first' = p /\ triggered'
           /\ \/ match /\ boundary' = boundary \cup {"fault"} /\ comm' = comm
              \/ ~match /\ comm' /\ boundary' = boundary
        \/ /\ why[p] = "clean" \/ first # Nobody \/ triggered \/ parent \/ (After(p) /\ ~SandboxFailed(p))
           /\ UNCHANGED <<first, triggered, boundary, comm>>
    BY <1>v, <1>f DEF communicationParticipantFailureOverridesManager, After, SandboxFailed
  <1>i. Stopped(p) => ~SandboxFailed(p)
    BY Verdicts DEF Ended, Stopped
  <1>5. DeadlineOK'
    BY <1>a, <1>c, <1>h DEF DeadlineOK, TypeOK
  <1>6. TriggerOK'
    BY <1>a, <1>d, <1>e, <1>h DEF TriggerOK, TypeOK, ExplainedOK, SandboxFailed
  <1>7. BlameOK'
    BY <1>a, <1>c, <1>d, <1>h, <1>i DEF BlameOK
  <1>8. CancelOK'
    <2> SUFFICES ASSUME match, ~parent, \A q \in Seat : ~SandboxFailed(q) PROVE CancelOK'
      BY DEF CancelOK, SandboxFailed
    <2>1. comm' => comm
      BY <1>h
    <2>2. Settled => Settled'
      BY <1>a, <1>f, <1>h DEF Settled, StampsOK, After
    <2> QED
      BY <1>c, <1>e, <1>h, <2>1, <2>2 DEF CancelOK
  <1>9. AnswerOK'
    BY NoAnswerYet
  <1> QED
    BY <1>1, <1>2, <1>3, <1>4, <1>5, <1>6, <1>7, <1>8, <1>9 DEF IInv

-----------------------------------------------------------------------------
(* The judgement *)

\* A match has no other seats than two that are known to be different.
LEMMA TwoSeats ==
    ASSUME Cardinality(Seat) = 2, NEW f \in Seat, NEW q \in Seat, f # q
    PROVE  Seat = {f, q}
  <1>1. IsFiniteSet(Seat)
    BY SeatAssumption
  <1>2. /\ IsFiniteSet(Seat \ {f}) /\ Cardinality(Seat \ {f}) = 1
    BY <1>1, FS_RemoveElement
  <1>3. Cardinality((Seat \ {f}) \ {q}) = 0 /\ IsFiniteSet((Seat \ {f}) \ {q})
    BY <1>2, FS_RemoveElement
  <1>4. (Seat \ {f}) \ {q} = {}
    BY <1>3, FS_EmptySet
  <1> QED
    BY <1>4

\* Its first fault is one, and the earliest.
LEMMA FirstFault ==
    ASSUME IInv, match, \A p \in Seat : at[p] # 0
    PROVE  LET faults == {p \in Seat : communicationIndependentParticipantFault(p)}
           IN  /\ faults = {} => firstFault = first
               /\ faults # {} => /\ firstFault \in faults
                                 /\ \A q \in faults \ {firstFault} : at[firstFault] < at[q]
  <1> DEFINE faults == {p \in Seat : communicationIndependentParticipantFault(p)}
  <1>1. faults \subseteq Seat /\ \A p \in faults : at[p] \in Nat
    BY NoClash DEF IInv, StampsOK, Events
  <1>2. \A p, q \in faults : p # q => at[p] # at[q]
    BY <1>1, NoClash DEF IInv, StampsOK, Events
  <1>3. firstFault = IF faults = {} THEN first ELSE CHOOSE p \in faults : \A q \in faults : at[p] <= at[q]
    BY DEF firstFault
  <1> HIDE DEF faults
  <1>4. ASSUME faults # {} PROVE \E p \in faults : \A q \in faults : at[p] <= at[q]
    <2>1. PICK a \in faults : TRUE
      BY <1>4
    <2>2. CASE \A q \in faults : at[a] <= at[q]
      BY <2>1, <2>2
    <2>3. CASE \E q \in faults : ~(at[a] <= at[q])
      <3>1. PICK b \in faults : ~(at[a] <= at[b])
        BY <2>3
      <3>2. at[b] <= at[a] /\ a # b
        BY <1>1, <3>1
      <3>3. Seat = {a, b}
        BY <1>1, <3>2, TwoSeats DEF IInv, TypeOK
      <3> QED
        BY <1>1, <3>2, <3>3
    <2> QED
      BY <2>2, <2>3
  <1>5. ASSUME faults # {}
        PROVE  firstFault \in faults /\ \A q \in faults : at[firstFault] <= at[q]
    BY <1>3, <1>4, <1>5
  <1>6. ASSUME faults # {}, NEW q \in faults \ {firstFault}
        PROVE  at[firstFault] < at[q]
    BY <1>1, <1>2, <1>5, <1>6
  <1> QED
    BY <1>3, <1>5, <1>6 DEF faults

\* The answer of a match rests on what the seats and the manager did.
LEMMA MatchVerdict ==
    ASSUME IInv, match, pc = "judge", NEW r, r = buildCommunicationMatchResponse
    PROVE  /\ r.outcome \in {"error", "completed", "forfeit"}
           /\ r.source # "communication:admission"
           /\ r.outcome = "forfeit" =>
                 /\ r.seat \in Seat /\ (Genuine(r.seat) \/ why[r.seat] = "pipe")
                 /\ result[r.seat].source = "stream_io" /\ ~Genuine(r.seat) =>
                       why[M] = "canceled" /\ at[r.seat] < at[M]
                 /\ \A p \in Seat \ {r.seat} : ~Genuine(p)
           /\ r.outcome = "completed" => \A p \in Seat : ~Genuine(p)
           /\ r.outcome \in {"completed", "forfeit"} => ~Genuine(M)
           /\ r.source = "communication:double_forfeit" => \A p \in Seat : why[p] # "canceled"
  <1> DEFINE f == firstFault
             judged == /\ ~parent /\ Seat \subseteq begun /\ (managerValid \/ managerCanceledForForfeit)
                       /\ \A p \in Seat : ~communicationParticipantInfrastructureFailure(p)
             fulfilled ==
                managerValid /\ (f = Nobody \/ (/\ ~communicationIndependentParticipantFault(f)
                                                /\ \/ result[f].source = "stream_io" \/ at[M] <= at[f]))
  <1>1. \A p \in Proc : Ended(p) /\ at[p] # 0 /\ at[p] \in Nat
    BY DEF IInv, StartOK, StampsOK, Ended, Events
  <1>2. ASSUME judged, NEW p \in Seat
        PROVE  /\ Genuine(p) => communicationIndependentParticipantFault(p)
               /\ communicationIndependentParticipantFault(p) =>
                     Genuine(p) \/ (why[p] = "pipe" /\ result[p].source = "signal")
    BY <1>1, <1>2, FaultIsGenuine, NoClash
  <1>3. /\ (\E p \in Seat : communicationIndependentParticipantFault(p)) =>
              f \in Seat /\ communicationIndependentParticipantFault(f)
        /\ (\A p \in Seat : ~communicationIndependentParticipantFault(p)) => f = first
    BY <1>1, FirstFault, NoClash
  <1>4. f \in Seat \cup {Nobody}
    BY <1>1, FirstFault, NoClash DEF IInv, TypeOK
  <1>m. managerValid => why[M] = "clean" /\ proto = "valid"
    BY <1>1, Verdicts, NoClash DEF managerValid
  <1>n. managerCanceledForForfeit =>
           Stopped(M) /\ at["cancel"] # 0 /\ at[M] >= at["cancel"] /\ first # Nobody
    BY <1>1, Verdicts, NoClash DEF managerCanceledForForfeit, IInv, DeadlineOK, Stopped
  <1>g. judged => ~Genuine(M)
    BY <1>m, <1>n DEF Genuine, Stopped
  <1>f. ASSUME judged, f # Nobody PROVE f \in Seat /\ (Genuine(f) \/ why[f] = "pipe")
    <2>1. CASE \E p \in Seat : communicationIndependentParticipantFault(p)
      BY <2>1, <1>f, <1>2, <1>3
    <2>2. CASE \A p \in Seat : ~communicationIndependentParticipantFault(p)
      <3>1. f = first /\ f \in Seat /\ f \in Proc /\ f \in begun /\ Ended(f) /\ why[f] # "clean"
        BY <2>2, <1>1, <1>3, <1>4, <1>f, NoClash DEF IInv, TriggerOK
      <3>2. why[f] \in {"own", "deadline", "canceled", "pipe"}
        BY <3>1, <1>f, Verdicts
      <3>3. ~Stopped(f)
        BY <3>1, <1>f DEF IInv, BlameOK
      <3> QED
        BY <3>1, <3>2, <3>3 DEF Genuine, Stopped
    <2> QED
      BY <2>1, <2>2
  <1>5. ASSUME judged, fulfilled
        PROVE  \A p \in Seat : ~Genuine(p)
    BY <1>5, <1>2, <1>3, NoClash
  <1>6. ASSUME judged, ~fulfilled, f # Nobody, managerValid \/ ~(at[M] < at[f]),
               result[f].source = "stream_io", ~Genuine(f)
        PROVE  why[M] = "canceled" /\ at[f] < at[M]
    <2>1. f \in Seat /\ why[f] = "pipe"
      BY <1>6, <1>f
    <2>2. ~communicationIndependentParticipantFault(f)
      BY <2>1, <1>2, <1>6
    <2>3. ~managerValid
      BY <2>2, <1>6
    <2>4. managerCanceledForForfeit
      BY <2>3, <1>6
    <2>5. at[f] # at[M] /\ at[f] \in Nat /\ at[M] \in Nat
      BY <1>1, <2>1, NoClash DEF IInv, StampsOK, Events
    <2> QED
      BY <2>3, <2>4, <2>5, <1>6, <1>n DEF Stopped
  <1>7. ASSUME judged, NEW q \in Seat, Genuine(q) PROVE alsoFailed(q)
    <2>1. communicationIndependentParticipantFault(q)
      BY <1>2, <1>7
    <2>2. communicationProcessFailed(q)
      BY <1>1, <1>7, Verdicts, NoClash DEF Genuine
    <2> QED
      BY <2>1, <2>2 DEF alsoFailed
  <1>8. ASSUME judged, NEW q \in Seat, q # f, f # Nobody, alsoFailed(q), NEW s \in Seat
        PROVE  why[s] # "canceled"
    <2>0. f \in Seat /\ (Genuine(f) \/ why[f] = "pipe")
      BY <1>8, <1>f
    <2>1. s \in {f, q}
      BY <1>8, <2>0, TwoSeats DEF IInv, TypeOK
    <2>2. CASE s = f
      BY <2>0, <2>2 DEF Genuine
    <2>3. CASE s = q
      <3> SUFFICES ASSUME why[q] = "canceled" PROVE FALSE
        BY <2>3
      <3>1. ~communicationIndependentParticipantFault(q)
        BY <1>2, <1>8 DEF Genuine
      <3>2. at["cancel"] # 0 /\ at[q] <= at["cancel"]
        BY <1>8, <3>1 DEF alsoFailed
      <3>3. Stopped(q)
        BY <1>8 DEF Stopped
      <3>4. at["cancel"] \in Nat /\ at[q] \in Nat /\ at[M] \in Nat
        BY NoClash DEF IInv, StampsOK, Events
      <3>5. \A p \in Seat : ~SandboxFailed(p)
        BY <1>1, <1>8, Verdicts, NoClash
      <3>6. ManagerBad /\ at["cancel"] > at[M]
        BY <1>8, <3>2, <3>3, <3>4, <3>5 DEF IInv, CancelOK
      <3> QED
        BY <3>4, <3>6, <1>8, <1>m, <1>n DEF ManagerBad
    <2> QED
      BY <2>1, <2>2, <2>3
  <1>9. \/ \E src \in {"communication:request_canceled", "communication:startup",
                       "communication:participant:init", "manager:runtime",
                       "manager:result_protocol"} : r = Fail(src)
        \/ judged /\ fulfilled /\ r = Answer("completed", "none", Nobody)
        \/ /\ judged /\ ~fulfilled /\ f # Nobody /\ (managerValid \/ ~(at[M] < at[f]))
           /\ \/ r = Fail("communication:double_forfeit") /\ \E q \in Seat \ {f} : alsoFailed(q)
              \/ r = Answer("forfeit", "none", f) /\ \A q \in Seat \ {f} : ~alsoFailed(q)
    BY DEF buildCommunicationMatchResponse
  <1> HIDE DEF f, judged, fulfilled
  <1>10. CASE \E src \in {"communication:request_canceled", "communication:startup",
                         "communication:participant:init", "manager:runtime",
                         "manager:result_protocol"} : r = Fail(src)
    BY <1>10 DEF Fail, Answer
  <1>11. CASE judged /\ fulfilled /\ r = Answer("completed", "none", Nobody)
    BY <1>11, <1>5, <1>g DEF Answer
  <1>12. CASE /\ judged /\ ~fulfilled /\ f # Nobody
              /\ r = Fail("communication:double_forfeit") /\ \E q \in Seat \ {f} : alsoFailed(q)
    BY <1>12, <1>8 DEF Fail, Answer
  <1>13. CASE /\ judged /\ ~fulfilled /\ f # Nobody /\ (managerValid \/ ~(at[M] < at[f]))
              /\ r = Answer("forfeit", "none", f) /\ \A q \in Seat \ {f} : ~alsoFailed(q)
    <2>1. \A q \in Seat \ {f} : ~Genuine(q)
      BY <1>13, <1>7
    <2> QED
      BY <1>13, <1>6, <1>f, <1>g, <2>1 DEF Answer
  <1> QED
    BY <1>9, <1>10, <1>11, <1>12, <1>13

\* So does the manager's verdict without one.
LEMMA ManagerVerdict ==
    ASSUME IInv, pc = "judge", NEW r, r = buildCommunicationResponse
    PROVE  /\ r.outcome \in {"RE", "scored"}
           /\ r.source \notin {"communication:admission", "communication:double_forfeit"}
           /\ r.outcome = "scored" /\ ~parent =>
                 /\ why[M] = "clean" /\ proto = "valid"
                 /\ \A p \in Seat : (Genuine(p) => at[p] > at[M]) /\ ~SandboxFailed(p)
  <1>1. \A p \in Proc : Ended(p) /\ phase[p] = "got"
    BY DEF IInv, StartOK, Ended
  <1>2. ~communicationProcessFailed(M) <=> why[M] = "clean"
    BY <1>1, Verdicts, NoClash
  <1>3. ASSUME first = Nobody, why[M] = "clean", proto = "valid", ~parent, NEW p \in Seat
        PROVE  (Genuine(p) => at[p] > at[M]) /\ ~SandboxFailed(p)
    <2>1. begun # {}
      BY <1>1, <1>3, NoClash DEF IInv, ExplainedOK
    <2>2. ~triggered
      BY <1>3, <2>1 DEF IInv, TriggerOK, ManagerBad
    <2>3. SandboxFailed(p) \/ Genuine(p) => why[p] # "clean"
      BY <1>1, Verdicts, NoClash DEF Genuine
    <2>4. p \in Seat /\ phase[p] = "got"
      BY <1>1, NoClash
    <2> QED
      BY <1>3, <2>2, <2>3, <2>4 DEF IInv, TriggerOK, After
  <1>4. \/ \E src \in {"participant", "manager:runtime", "manager:result_protocol"}, s \in {first, Nobody} :
              r = Answer("RE", src, s)
        \/ first = Nobody /\ why[M] = "clean" /\ proto = "valid" /\ r = Answer("scored", "manager", Nobody)
    BY <1>2 DEF buildCommunicationResponse
  <1> QED
    BY <1>3, <1>4 DEF Answer

\* The answer is given.
LEMMA JudgeStep == ASSUME Prompt, IInv, Judge PROVE IInv'
  <1>1. TypeOK' /\ StampsOK' /\ ExplainedOK' /\ DeadlineOK'
    BY NoClash DEF IInv, Judge, Go, run, timer, loop, now, TypeOK, StampsOK, ExplainedOK, DeadlineOK,
       Phases, Causes, Events, Ended, Stopped
  <1>2. StartOK'
    BY DEF IInv, Judge, Go, run, timer, StartOK, Ended
  <1>3. TriggerOK' /\ BlameOK' /\ CancelOK'
    BY DEF IInv, Judge, Go, run, timer, loop, now, TriggerOK, BlameOK, CancelOK, ManagerBad, After,
       Stopped, Settled, SandboxFailed
  <1>4. AnswerOK'
    <2>1. /\ pc = "judge" /\ pc' = "returned" /\ \A p \in Proc : phase'[p] = "got"
          /\ UNCHANGED <<parent, why, proto, at, result>>
      BY DEF IInv, StartOK, Judge, Go, run, now
    <2>2. \A p \in Proc : Genuine(p)' <=> Genuine(p)
      BY <2>1 DEF Genuine
    <2>3. CASE match
      <3>1. response' \in {buildCommunicationMatchResponse, Fail("communication:aggregate")}
        BY <2>3 DEF Judge
      <3>2. CASE response' = buildCommunicationMatchResponse
        <4>1. /\ response'.outcome \in {"error", "completed", "forfeit"}
              /\ response'.source # "communication:admission"
              /\ response'.outcome = "forfeit" =>
                    /\ response'.seat \in Seat /\ (Genuine(response'.seat) \/ why[response'.seat] = "pipe")
                    /\ result[response'.seat].source = "stream_io" /\ ~Genuine(response'.seat) =>
                          why[M] = "canceled" /\ at[response'.seat] < at[M]
                    /\ \A p \in Seat \ {response'.seat} : ~Genuine(p)
              /\ response'.outcome = "completed" => \A p \in Seat : ~Genuine(p)
              /\ response'.outcome \in {"completed", "forfeit"} => ~Genuine(M)
              /\ response'.source = "communication:double_forfeit" => \A p \in Seat : why[p] # "canceled"
          BY <2>1, <2>3, <3>2, MatchVerdict
        <4> QED
          BY <2>1, <4>1 DEF AnswerOK, Fair, ManagerVerdictStands, MatchIsFair, CancellationIsNoFault, Genuine
      <3>3. CASE response' = Fail("communication:aggregate")
        BY <2>1, <3>3 DEF AnswerOK, Fair, ManagerVerdictStands, MatchIsFair, CancellationIsNoFault,
           Fail, Answer
      <3> QED
        BY <3>1, <3>2, <3>3
    <2>4. CASE ~match
      <3>1. \/ response' = buildCommunicationResponse
            \/ response' = Answer("RE", "communication:aggregate", Nobody)
        BY <2>4 DEF Judge
      <3>2. CASE response' = buildCommunicationResponse
        <4>1. /\ response'.outcome \in {"RE", "scored"}
              /\ response'.source \notin {"communication:admission", "communication:double_forfeit"}
              /\ response'.outcome = "scored" /\ ~parent =>
                    /\ why[M] = "clean" /\ proto = "valid"
                    /\ \A p \in Seat : (Genuine(p) => at[p] > at[M]) /\ ~SandboxFailed(p)
          BY <2>1, <3>2, ManagerVerdict
        <4> QED
          BY <2>1, <4>1 DEF SandboxFailed, AnswerOK, Fair, ManagerVerdictStands, MatchIsFair, CancellationIsNoFault, Genuine
      <3>3. CASE response' = Answer("RE", "communication:aggregate", Nobody)
        BY <2>1, <3>3 DEF AnswerOK, Fair, ManagerVerdictStands, MatchIsFair, CancellationIsNoFault, Answer
      <3> QED
        BY <3>1, <3>2, <3>3
    <2> QED
      BY <2>3, <2>4 DEF IInv, TypeOK
  <1> QED
    BY <1>1, <1>2, <1>3, <1>4 DEF IInv

-----------------------------------------------------------------------------
(* The theorems *)

\* A request that has just arrived satisfies the invariant.
LEMMA InitIInv == Init => IInv
  <1> SUFFICES ASSUME Init PROVE IInv
    OBVIOUS
  <1> USE NoClash DEF Init
  <1>1. TypeOK
    BY DEF TypeOK, Phases, Causes
  <1>2. StampsOK /\ StartOK /\ ExplainedOK /\ DeadlineOK
    BY DEF StampsOK, StartOK, ExplainedOK, DeadlineOK, Events, Ended, Stopped
  <1>3. TriggerOK /\ BlameOK /\ CancelOK
    BY DEF TriggerOK, BlameOK, CancelOK, ManagerBad, After, Stopped, Settled
  <1>4. AnswerOK
    BY DEF AnswerOK, Fair, ManagerVerdictStands, MatchIsFair, CancellationIsNoFault, Answer
  <1> QED
    BY <1>1, <1>2, <1>3, <1>4 DEF IInv

\* A request that has been answered.
LEMMA ReturnedStep == ASSUME IInv, UNCHANGED vars PROVE IInv'
  <1>1. TypeOK' /\ StampsOK' /\ StartOK' /\ ExplainedOK' /\ DeadlineOK'
    BY DEF IInv, vars, run, timer, loop, now, TypeOK, StampsOK, StartOK, ExplainedOK, DeadlineOK,
       Phases, Causes, Events, Ended, Stopped
  <1>2. TriggerOK' /\ BlameOK' /\ CancelOK'
    BY DEF IInv, vars, run, timer, loop, now, TriggerOK, BlameOK, CancelOK, ManagerBad, After, Stopped,
       Settled, SandboxFailed
  <1>3. AnswerOK'
    BY DEF IInv, vars, run, now, AnswerOK, Fair, ManagerVerdictStands, MatchIsFair,
       CancellationIsNoFault, Genuine
  <1> QED
    BY <1>1, <1>2, <1>3 DEF IInv

\* Every step of anybody keeps it.
LEMMA NextIInv == ASSUME Prompt, IInv, [Next]_vars PROVE IInv'
  <1>1. CASE Coordinator
    BY <1>1, PrepareStep, AwaitAllStep, AwaitGivesUpStep, CollectManagerStep, AllCollectedStep, JudgeStep,
       AwaitResultStep, CollectSeatStep DEF Coordinator
  <1>2. CASE Background
    BY <1>2, ManagerCompletesStep, ReadResultStep, WallFiresStep, BoundaryStep DEF Background
  <1>3. CASE ParentCancels
    BY <1>3, ParentCancelsStep
  <1>4. CASE UNCHANGED vars
    BY <1>4, ReturnedStep
  <1>5. CASE \E p \in Proc : SandboxedRun(p)
    BY <1>5, SetupStep, TargetStartsStep, Endings DEF SandboxedRun
  <1> QED
    BY <1>1, <1>2, <1>3, <1>4, <1>5 DEF Next, Returned

\* The strengthening is an invariant whatever the number of participants, as long as a
\* canceled run is reported as one (Prompt).
THEOREM IInvHolds == ASSUME Prompt PROVE Spec => []IInv
  <1>1. Init => IInv
    BY InitIInv
  <1>2. IInv /\ [Next]_vars => IInv'
    BY NextIInv
  <1> QED
    BY <1>1, <1>2, PTL DEF Spec

\* No target runs before every process is ready, and one that runs can be stopped.
THEOREM StartIsTogether == ASSUME Prompt PROVE Spec => []StartedTogether
  <1>1. IInv => StartedTogether
    BY DEF IInv, StartOK, StartedTogether
  <1> QED
    BY <1>1, IInvHolds, PTL

\* A verdict of the manager's stands only if the manager ended by itself, gave a valid
\* result, every seat that failed of its own accord completed after it, and no seat's
\* sandbox failed in its place: whatever order results, deadlines and cancellation meet in.
THEOREM VerdictIsEarned == ASSUME Prompt PROVE Spec => []ManagerVerdictStands
  <1>1. IInv => ManagerVerdictStands
    BY DEF IInv, AnswerOK, Fair
  <1> QED
    BY <1>1, IInvHolds, PTL

\* A forfeit is of a seat that failed by itself or whose pipe broke, and nobody else
\* failed by itself; a pipe that the seat survived broke before a manager that was then
\* canceled ended.  A completed match has no seat's own fault in it, and a manager's own
\* fault leads to neither.
THEOREM MatchesAreFair == ASSUME Prompt PROVE Spec => []MatchIsFair
  <1>1. IInv => MatchIsFair
    BY DEF IInv, AnswerOK, Fair
  <1> QED
    BY <1>1, IInvHolds, PTL

\* No seat that the coordinator canceled is counted as the second that failed.
THEOREM CancellationIsExcused == ASSUME Prompt PROVE Spec => []CancellationIsNoFault
  <1>1. IInv => CancellationIsNoFault
    BY DEF IInv, AnswerOK, Fair
  <1> QED
    BY <1>1, IInvHolds, PTL

-----------------------------------------------------------------------------
(* Two programs that talk to each other: InteractiveRun *)

PairPhases == {"none", "setup", "ready", "passed", "running", "over"}

PairTypes ==
    /\ main \in {"contestant", "interactor", "files", "collect", "stop", "returned"}
    /\ requestDone \in BOOLEAN /\ release \in BOOLEAN /\ started \in BOOLEAN /\ stopped \in BOOLEAN
    /\ deadlineHit \in BOOLEAN /\ blamed \in BOOLEAN
    /\ startTimer \in {"none", "armed", "fired", "off"} /\ grace \in {"none", "armed", "off"}
    /\ canceled \in [Pair!Side -> BOOLEAN] /\ atGate \in [Pair!Side -> BOOLEAN]
    /\ done \in [Pair!Side -> BOOLEAN] /\ DOMAIN ended = Pair!Side
    /\ stage \in [Pair!Side -> PairPhases]
    /\ DOMAIN outcome = Pair!Side /\ DOMAIN endedBy = Pair!Side
    /\ relay \in [Pair!Side -> {"none", "io", "closed"}]
    /\ gor \in [Pair!Side -> {"run", "finish", "abort", "send", "sent", "got"}]
    /\ alarm \in [Pair!Side -> {"none", "armed", "fired", "active", "off"}]

\* The start has not been given up before it was made, and never will be made.
NoStart == ~started /\ (stopped \/ startTimer \in {"fired", "off"})
Decided == started \/ NoStart

\* Nobody is past the gate before the start, and nobody is at it before the launch.
GateOK ==
    /\ release <=> started
    /\ started => startTimer = "off"
    /\ main \in {"contestant", "interactor", "files"} => startTimer = "none"
    /\ startTimer = "none" => \A s \in Pair!Side : stage[s] = "none"
    /\ \A s \in Pair!Side :
          /\ stage[s] \in {"passed", "running"} => started
          /\ alarm[s] \in {"armed", "fired", "active"} => started
          /\ atGate[s] => stage[s] = "ready" \/ requestDone \/ Decided

\* How far the goroutine around a run can be.
GoroutineOK ==
    \A s \in Pair!Side :
       /\ gor[s] # "run" => stage[s] = "over"
       /\ done[s] <=> gor[s] # "run"
       /\ gor[s] \notin {"run", "finish"} => Decided
       /\ gor[s] = "abort" => NoStart

\* A contestant that is canceled was interrupted on the record, unless its run is over
\* or no target will ever run.
CancelCause ==
    /\ \A s \in Pair!Side : canceled[s] => requestDone \/ Decided
    /\ grace = "armed" => gor[Pair!I] = "got"
    /\ canceled[Pair!C] =>
          requestDone \/ deadlineHit \/ blamed \/ stage[Pair!C] = "over" \/ NoStart

\* What a side returned, and why it ended.
PairExplained(s) ==
    \/ endedBy[s] = "setup" /\ outcome[s] = Pair!Res("InitFail", "none", Pair!None)
    \/ /\ endedBy[s] = "canceled"
       /\ \/ outcome[s] \in {Pair!Res("InitFail", "none", Pair!None),
                            [Pair!Res("InitFail", "none", Pair!None) EXCEPT !.said = TRUE]}
          \/ outcome[s] \in Pair!InterruptedEnds
    \/ endedBy[s] = "clean" /\ outcome[s] = Pair!Res("OK", "none", 0) /\ relay[s] = "none"
    \/ endedBy[s] = "own" /\ relay[s] = "none" /\ outcome[s] \in Pair!OwnEnds \ {Pair!Res("OK", "none", 0)}
    \/ endedBy[s] = "own" /\ outcome[s] = Pair!Res("OK", "none", 1)
    \/ endedBy[s] = "io" /\ relay[s] = "io" /\ outcome[s] = [Pair!Res("RE", "stream_io", 0) EXCEPT !.copy = "io"]
    \/ /\ endedBy[s] = "clean" /\ relay[s] = "closed"
       /\ outcome[s] = [Pair!Res("RE", "stream_io", 0) EXCEPT !.copy = "closed"]

PairResults ==
    \A s \in Pair!Side :
       IF stage[s] = "over" THEN PairExplained(s) ELSE relay[s] = "none"

\* The answer is given when both runs have been collected.
PairAnswer ==
    /\ main \in {"contestant", "interactor", "files", "collect"} => answer.status # "AC"
    /\ main = "stop" \/ answer.status = "AC" => \A s \in Pair!Side : gor[s] = "got"
    /\ answer.status = "AC" => main # "collect"
    /\ Pair!AcceptedIsEarned

PairInv == PairTypes /\ GateOK /\ GoroutineOK /\ CancelCause /\ PairResults /\ PairAnswer

\* The invariant holds at the start.
LEMMA PairStart == Pair!Init => PairInv
  <1> SUFFICES ASSUME Pair!Init PROVE PairInv
    OBVIOUS
  <1> USE DEF Pair!Init, Pair!Both
  <1>1. PairTypes
    BY DEF PairTypes, PairPhases
  <1>2. GateOK
    BY DEF GateOK, Decided, NoStart
  <1>3. GoroutineOK
    BY DEF GoroutineOK, NoStart
  <1>4. CancelCause
    BY DEF CancelCause, Pair!Side, Pair!C
  <1>5. PairResults
    BY DEF PairResults
  <1>6. PairAnswer
    BY DEF PairAnswer, Pair!AcceptedIsEarned, Pair!Answer
  <1> QED
    BY <1>1, <1>2, <1>3, <1>4, <1>5, <1>6 DEF PairInv

\* The two sides are different, and each is the peer of the other.
LEMMA Sides == /\ Pair!Side = {Pair!C, Pair!I} /\ Pair!C # Pair!I
               /\ \A s \in Pair!Side : Pair!Peer(s) \in Pair!Side /\ Pair!Peer(s) # s
                                       /\ Pair!Side = {s, Pair!Peer(s)}
  BY DEF Pair!Side, Pair!C, Pair!I, Pair!Peer

\* Preparing, giving up before the launch, and the launch.
LEMMA PairPrepareStep == ASSUME PairInv, Pair!Prepare PROVE PairInv'
  <1> USE DEF PairInv
  <1>1. ASSUME NEW from \in {"contestant", "interactor", "files"}, Pair!GiveUp(from) PROVE PairInv'
    <2> USE <1>1 DEF Pair!GiveUp, Pair!Go, Pair!side, Pair!timers, Pair!flags
    <2>1. PairTypes'
      BY DEF PairTypes
    <2>2. GateOK'
      BY DEF GateOK, Decided, NoStart
    <2>3. GoroutineOK'
      BY DEF GoroutineOK, Decided, NoStart
    <2>4. CancelCause'
      BY DEF CancelCause, Decided, NoStart
    <2>5. PairResults'
      BY DEF PairResults, PairExplained
    <2>6. PairAnswer'
      BY DEF PairAnswer, Pair!AcceptedIsEarned, Pair!Answer
    <2> QED
      BY <2>1, <2>2, <2>3, <2>4, <2>5, <2>6
  <1>2. ASSUME NEW s \in Pair!Side, NEW next \in {"interactor", "files"}, Pair!Go(s, next),
               UNCHANGED <<requestDone, canceled, Pair!side, gor, done, Pair!timers, grace, Pair!flags,
                           answer>>
        PROVE  PairInv'
    <2> USE <1>2, Sides DEF Pair!Go, Pair!side, Pair!timers, Pair!flags, Pair!C, Pair!I
    <2>1. PairTypes'
      BY DEF PairTypes
    <2>2. GateOK'
      BY DEF GateOK, Decided, NoStart
    <2>3. GoroutineOK'
      BY DEF GoroutineOK, Decided, NoStart
    <2>4. CancelCause'
      BY DEF CancelCause, Decided, NoStart
    <2>5. PairResults'
      BY DEF PairResults, PairExplained
    <2>6. PairAnswer'
      BY DEF PairAnswer, Pair!AcceptedIsEarned
    <2> QED
      BY <2>1, <2>2, <2>3, <2>4, <2>5, <2>6
  <1>3. CASE Pair!Go("files", "collect") /\ stage' = Pair!Both("setup") /\ startTimer' = "armed"
             /\ UNCHANGED <<requestDone, canceled, outcome, endedBy, relay, gor, done, release, alarm,
                            atGate, ended, started, stopped, grace, Pair!flags, answer>>
    <2> USE <1>3 DEF Pair!Go, Pair!flags, Pair!Both
    <2>0. startTimer = "none" /\ \A s \in Pair!Side : stage[s] = "none" /\ stage'[s] = "setup"
      BY DEF GateOK
    <2>1. PairTypes'
      BY DEF PairTypes, PairPhases
    <2>2. GateOK'
      BY <2>0 DEF GateOK, Decided, NoStart
    <2>3. GoroutineOK'
      BY <2>0 DEF GoroutineOK, Decided, NoStart, GateOK
    <2>4. CancelCause'
      BY <2>0, Sides DEF CancelCause, Decided, NoStart, GateOK
    <2>5. PairResults'
      BY <2>0 DEF PairResults, PairExplained
    <2>6. PairAnswer'
      BY DEF PairAnswer, Pair!AcceptedIsEarned
    <2> QED
      BY <2>1, <2>2, <2>3, <2>4, <2>5, <2>6
  <1> QED
    BY <1>1, <1>2, <1>3, Sides DEF Pair!Prepare, Pair!prepareInteractiveCommand, Pair!Launch, Pair!C, Pair!I

\* A sandboxed run that ends: what it returned is explained, and if it was not running,
\* then it was canceled or it failed before it was ready.
LEMMA PairEnds ==
    ASSUME PairInv, NEW s \in Pair!Side, NEW r, NEW c, stage[s] \notin {"none", "over"},
           Pair!Returns(s, r, c), relay' \in [Pair!Side -> {"none", "io", "closed"}],
           relay'[Pair!Peer(s)] = relay[Pair!Peer(s)], PairExplained(s)',
           canceled[s] \/ stage[s] # "ready", UNCHANGED <<Pair!Quiet, Pair!timers>>
    PROVE  PairInv'
  <1> USE Sides DEF PairInv, Pair!Returns, Pair!Quiet, Pair!timers, Pair!flags
  <1>0. /\ stage[s] # "none" /\ stage[s] # "over" /\ gor[s] = "run" /\ stage'[s] = "over"
        /\ \A q \in Pair!Side \ {s} : stage'[q] = stage[q] /\ outcome'[q] = outcome[q] /\ endedBy'[q] = endedBy[q]
    BY DEF PairTypes, GoroutineOK
  <1>1. PairTypes'
    BY DEF PairTypes, PairPhases
  <1>2. GateOK'
    BY <1>0 DEF GateOK, Decided, NoStart, CancelCause
  <1>3. GoroutineOK'
    BY <1>0 DEF GoroutineOK, Decided, NoStart
  <1>4. CancelCause'
    BY <1>0 DEF CancelCause, Decided, NoStart
  <1>5. PairResults'
    <2>1. SUFFICES ASSUME NEW q \in Pair!Side, q # s, stage[q] = "over" PROVE PairExplained(q)'
      BY <1>0 DEF PairResults
    <2>2. q = Pair!Peer(s) /\ PairExplained(q) /\ relay'[q] = relay[q]
      BY <2>1 DEF PairResults
    <2> QED
      BY <1>0, <2>1, <2>2 DEF PairExplained
  <1>6. PairAnswer'
    BY <1>0 DEF PairAnswer, Pair!AcceptedIsEarned
  <1> QED
    BY <1>1, <1>2, <1>3, <1>4, <1>5, <1>6

\* One that goes on.
LEMMA PairGoesOn ==
    ASSUME PairInv, NEW s \in Pair!Side, NEW p \in {"passed", "running"},
           stage[s] \in {"ready", "passed"}, stage' = [stage EXCEPT ![s] = p], started,
           UNCHANGED <<Pair!Quiet, outcome, endedBy, relay, Pair!timers>>,
           canceled[s] => stage[s] = "passed"
    PROVE  PairInv'
  <1> USE Sides DEF PairInv, Pair!Quiet, Pair!timers, Pair!flags
  <1>0. /\ gor[s] = "run" /\ stage'[s] = p
        /\ \A q \in Pair!Side \ {s} : stage'[q] = stage[q]
    BY DEF PairTypes, GoroutineOK
  <1>1. PairTypes'
    BY DEF PairTypes, PairPhases
  <1>2. GateOK'
    BY <1>0 DEF GateOK, Decided, NoStart
  <1>3. GoroutineOK'
    BY <1>0 DEF GoroutineOK, Decided, NoStart
  <1>4. CancelCause'
    BY <1>0 DEF CancelCause, Decided, NoStart
  <1>5. PairResults'
    BY <1>0 DEF PairResults, PairExplained
  <1>6. PairAnswer'
    BY <1>0 DEF PairAnswer, Pair!AcceptedIsEarned
  <1> QED
    BY <1>1, <1>2, <1>3, <1>4, <1>5, <1>6

\* A side is ready: it waits, finds the start given up, or starts both.
LEMMA PairReadyStep == ASSUME PairInv, NEW s \in Pair!Side, Pair!targetReady(s) PROVE PairInv'
  <1> USE Sides DEF PairInv, Pair!Quiet, Pair!timers, Pair!flags
  <1>0. /\ gor[s] = "run" /\ stage[s] = "setup" /\ stage'[s] = "ready"
        /\ \A q \in Pair!Side \ {s} : stage'[q] = stage[q]
        /\ stage' \in [Pair!Side -> PairPhases]
        /\ UNCHANGED <<Pair!Quiet, outcome, endedBy, relay>>
    BY DEF PairTypes, GoroutineOK, PairPhases, Pair!targetReady
  <1>1. CASE UNCHANGED Pair!timers
    <2> USE <1>1
    <2>1. PairTypes'
      BY <1>0 DEF PairTypes
    <2>2. GateOK'
      BY <1>0 DEF GateOK, Decided, NoStart
    <2>3. GoroutineOK'
      BY <1>0 DEF GoroutineOK, Decided, NoStart
    <2>4. CancelCause'
      BY <1>0 DEF CancelCause, Decided, NoStart
    <2> QED
      BY <1>0, <2>1, <2>2, <2>3, <2>4 DEF PairResults, PairExplained, PairAnswer, Pair!AcceptedIsEarned
  <1>2. CASE /\ ~stopped /\ ~started /\ ~requestDone /\ atGate' = [atGate EXCEPT ![s] = TRUE]
             /\ UNCHANGED <<startTimer, started, release, alarm, ended>>
             /\ stopped' = stopped \/ (stopped' = TRUE /\ startTimer # "armed")
    <2> USE <1>2
    <2>0. /\ atGate'[s] = TRUE /\ \A q \in Pair!Side \ {s} : atGate'[q] = atGate[q]
          /\ atGate' \in [Pair!Side -> BOOLEAN]
      BY DEF PairTypes
    <2>1. PairTypes'
      BY <1>0, <2>0 DEF PairTypes
    <2>2. GateOK'
      BY <1>0, <2>0 DEF GateOK, Decided, NoStart
    <2>3. GoroutineOK'
      BY <1>0 DEF GoroutineOK, Decided, NoStart
    <2>4. CancelCause'
      BY <1>0 DEF CancelCause, Decided, NoStart
    <2> QED
      BY <1>0, <2>1, <2>2, <2>3, <2>4 DEF PairResults, PairExplained, PairAnswer, Pair!AcceptedIsEarned
  <1>3. CASE /\ ~stopped /\ ~started /\ ~requestDone /\ atGate' = [atGate EXCEPT ![s] = TRUE]
             /\ startTimer = "armed" /\ startTimer' = "off" /\ started' = TRUE /\ release' = TRUE
             /\ alarm' = Pair!Both("armed") /\ UNCHANGED <<stopped, ended>>
    <2> USE <1>3 DEF Pair!Both
    <2>0. /\ atGate'[s] = TRUE /\ \A q \in Pair!Side \ {s} : atGate'[q] = atGate[q]
          /\ atGate' \in [Pair!Side -> BOOLEAN]
      BY DEF PairTypes
    <2>1. PairTypes'
      BY <1>0, <2>0 DEF PairTypes
    <2>2. GateOK'
      BY <1>0, <2>0 DEF GateOK, Decided, NoStart
    <2>3. GoroutineOK'
      BY <1>0 DEF GoroutineOK, Decided, NoStart
    <2>4. CancelCause'
      BY <1>0 DEF CancelCause, Decided, NoStart
    <2> QED
      BY <1>0, <2>1, <2>2, <2>3, <2>4 DEF PairResults, PairExplained, PairAnswer, Pair!AcceptedIsEarned
  <1> QED
    BY <1>1, <1>2, <1>3 DEF Pair!targetReady

\* The sandboxed runs.
LEMMA PairRunStep == ASSUME PairInv, NEW s \in Pair!Side, Pair!SandboxedRun(s) PROVE PairInv'
  <1> USE Sides DEF PairInv
  <1>0. /\ stage \in [Pair!Side -> PairPhases] /\ relay \in [Pair!Side -> {"none", "io", "closed"}]
        /\ DOMAIN outcome = Pair!Side /\ DOMAIN endedBy = Pair!Side
        /\ stage[s] # "over" => relay[s] = "none"
    BY DEF PairTypes, PairResults
  <1>1. CASE Pair!SetupFails(s)
    <2> USE <1>1 DEF Pair!SetupFails
    <2>1. PairExplained(s)'
      BY <1>0 DEF Pair!Returns, PairExplained
    <2> QED
      BY <1>0, <2>1, PairEnds
  <1>2. CASE Pair!CanceledEarly(s)
    <2>1. PICK said \in BOOLEAN :
             Pair!Returns(s, [Pair!Res("InitFail", "none", Pair!None) EXCEPT !.said = said], "canceled")
      BY <1>2 DEF Pair!CanceledEarly
    <2>2. PairExplained(s)'
      BY <1>0, <2>1 DEF Pair!Returns, PairExplained, Pair!Res
    <2> QED
      BY <1>0, <1>2, <2>1, <2>2, PairEnds DEF Pair!CanceledEarly
  <1>3. CASE Pair!targetReady(s)
    BY <1>3, PairReadyStep
  <1>4. CASE Pair!PassGate(s)
    BY <1>4, PairGoesOn DEF Pair!PassGate, GateOK
  <1>5. CASE Pair!Exec(s)
    BY <1>5, PairGoesOn DEF Pair!Exec, GateOK
  <1>6. CASE Pair!EndsItself(s)
    <2>1. PICK r \in Pair!OwnEnds :
             Pair!Returns(s, r, IF r = Pair!Res("OK", "none", 0) THEN "clean" ELSE "own")
      BY <1>6 DEF Pair!EndsItself
    <2>2. PairExplained(s)'
      BY <1>0, <1>6, <2>1 DEF Pair!Returns, PairExplained, Pair!EndsItself
    <2> QED
      BY <1>0, <1>6, <2>1, <2>2, PairEnds DEF Pair!EndsItself
  <1>7. CASE Pair!WriteFails(s)
    <2>1. PICK e \in {"io", "closed"} :
             /\ relay' = [relay EXCEPT ![s] = e]
             /\ \E r \in {[Pair!Res("RE", "stream_io", 0) EXCEPT !.copy = e], Pair!Res("OK", "none", 1)} :
                   Pair!Returns(s, r, IF r.exit = 1 THEN "own" ELSE IF e = "io" THEN "io" ELSE "clean")
      BY <1>7, ZenonT(60) DEF Pair!WriteFails
    <2>2. PICK r \in {[Pair!Res("RE", "stream_io", 0) EXCEPT !.copy = e], Pair!Res("OK", "none", 1)} :
             Pair!Returns(s, r, IF r.exit = 1 THEN "own" ELSE IF e = "io" THEN "io" ELSE "clean")
      BY <2>1
    <2>3. r.exit = 1 <=> r = Pair!Res("OK", "none", 1)
      BY <2>2 DEF Pair!Res
    <2>4. PairExplained(s)'
      BY <1>0, <2>1, <2>2, <2>3 DEF Pair!Returns, PairExplained
    <2> QED
      BY <1>0, <1>7, <2>1, <2>2, <2>4, PairEnds DEF Pair!WriteFails
  <1>8. CASE Pair!Killed(s)
    <2>1. PICK r \in Pair!InterruptedEnds : Pair!Returns(s, r, "canceled")
      BY <1>8 DEF Pair!Killed
    <2>2. PairExplained(s)'
      BY <1>0, <2>1 DEF Pair!Returns, PairExplained
    <2> QED
      BY <1>0, <1>8, <2>1, <2>2, PairEnds DEF Pair!Killed
  <1> QED
    BY <1>1, <1>2, <1>3, <1>4, <1>5, <1>6, <1>7, <1>8 DEF Pair!SandboxedRun

\* What is left of a step that leaves the two runs alone, and what it cancels.
LEMMA PairBystands ==
    ASSUME PairInv, PairTypes', UNCHANGED <<Pair!side, answer>>,
           \A s \in Pair!Side : gor[s] = "got" => gor'[s] = "got" /\ done[s],
           (requestDone => requestDone') /\ (main \in {"stop", "returned"} => requestDone' = requestDone),
           (main # "collect" /\ main' = main) \/ (main = "collect" /\ main' = "collect")
              \/ (main = "stop" /\ main' = "returned"),
           (blamed => blamed'),
           (deadlineHit' = deadlineHit) \/ \E s \in Pair!Side : ~done[s]
    PROVE  PairResults' /\ PairAnswer'
  <1> USE Sides DEF PairInv, Pair!side
  <1>1. PairResults'
    BY DEF PairResults, PairExplained
  <1>2. CASE answer.status = "AC"
    <2>1. /\ main \in {"stop", "returned"}
          /\ \A s \in Pair!Side : gor[s] = "got" /\ gor'[s] = "got" /\ done[s]
      BY <1>2 DEF PairAnswer, PairTypes
    <2>2. requestDone' = requestDone /\ deadlineHit' = deadlineHit
      BY <2>1
    <2> QED
      BY <1>1, <1>2, <2>1, <2>2 DEF PairAnswer, Pair!AcceptedIsEarned
  <1>3. CASE answer.status # "AC"
    BY <1>1, <1>3 DEF PairAnswer, Pair!AcceptedIsEarned, PairTypes
  <1> QED
    BY <1>2, <1>3

\* The goroutine around a run.
LEMMA PairGoroutineStep == ASSUME PairInv, NEW s \in Pair!Side, Pair!Goroutine(s) PROVE PairInv'
  <1> USE Sides DEF PairInv, Pair!side, Pair!timers, Pair!flags
  <1>1. CASE Pair!StoreFinished(s)
    <2> USE <1>1 DEF Pair!StoreFinished, Pair!Around
    <2>1. PairTypes'
      BY DEF PairTypes
    <2>2. \A q \in Pair!Side \ {s} : gor'[q] = gor[q] /\ done'[q] = done[q]
      BY DEF PairTypes
    <2>3. gor'[s] = "finish" /\ done'[s] = TRUE
      BY DEF PairTypes
    <2>4. GateOK'
      BY DEF GateOK, Decided, NoStart
    <2>5. GoroutineOK'
      BY <2>2, <2>3 DEF GoroutineOK, Decided, NoStart
    <2>6. CancelCause'
      BY <2>2, <2>3 DEF CancelCause, Decided, NoStart
    <2> QED
      BY <2>1, <2>2, <2>4, <2>5, <2>6, PairBystands DEF GoroutineOK, PairTypes
  <1>2. CASE Pair!finish(s)
    <2> USE <1>2 DEF Pair!finish, Pair!Around
    <2>0. gor[s] = "finish" /\ alarm \in [Pair!Side -> {"none", "armed", "fired", "active", "off"}]
      BY DEF PairTypes
    <2>1. /\ PairTypes' /\ Decided' /\ (NoStart => NoStart') /\ (gor'[s] = "abort" => NoStart')
          /\ \A q \in Pair!Side \ {s} : gor'[q] = gor[q] /\ alarm'[q] = alarm[q]
          /\ gor'[s] \in {"send", "abort"} /\ alarm'[s] \in {alarm[s], "off"}
      <3>1. CASE started
        <4>0. startTimer' = startTimer /\ stopped' = stopped /\ started' = started
          BY <3>1
        <4>1. /\ gor' = [gor EXCEPT ![s] = "send"]
              /\ alarm' = [alarm EXCEPT ![s] = IF @ = "armed" THEN "off" ELSE @]
          BY <3>1
        <4>2. PairTypes'
          BY <4>0, <4>1 DEF PairTypes
        <4>3. /\ \A q \in Pair!Side \ {s} : gor'[q] = gor[q] /\ alarm'[q] = alarm[q]
              /\ gor'[s] = "send" /\ alarm'[s] \in {alarm[s], "off"}
          BY <4>1 DEF PairTypes
        <4>4. Decided' /\ NoStart' = NoStart
          BY <3>1, <4>0 DEF Decided, NoStart
        <4> QED
          BY <4>2, <4>3, <4>4
      <3>2. CASE ~started
        <4>0. stopped' /\ ~started' /\ startTimer' \in {startTimer, "off"} /\ alarm' = alarm
          BY <3>2
        <4>1. PICK g \in {"send", "abort"} : gor' = [gor EXCEPT ![s] = g]
          BY <3>2
        <4>2. PairTypes'
          BY <3>2, <4>0, <4>1 DEF PairTypes
        <4>3. /\ \A q \in Pair!Side \ {s} : gor'[q] = gor[q] /\ alarm'[q] = alarm[q]
              /\ gor'[s] = g /\ alarm'[s] = alarm[s]
          BY <4>0, <4>1 DEF PairTypes
        <4>4. Decided' /\ NoStart'
          BY <4>0 DEF Decided, NoStart
        <4> QED
          BY <4>2, <4>3, <4>4
      <3> QED
        BY <3>1, <3>2
    <2>2. GateOK'
      BY <2>0, <2>1 DEF GateOK
    <2>3. GoroutineOK'
      BY <2>0, <2>1 DEF GoroutineOK
    <2>4. CancelCause'
      BY <2>0, <2>1 DEF CancelCause
    <2> QED
      BY <2>0, <2>1, <2>2, <2>3, <2>4, PairBystands DEF GoroutineOK, PairTypes
  <1>3. CASE Pair!abortPeer(s)
    <2> USE <1>3 DEF Pair!abortPeer, Pair!Around, Pair!Both
    <2>1. PairTypes'
      BY DEF PairTypes
    <2>2. \A q \in Pair!Side \ {s} : gor'[q] = gor[q]
      BY DEF PairTypes
    <2>3. gor[s] = "abort" /\ gor'[s] = "send" /\ NoStart /\ NoStart' /\ Decided /\ Decided'
      BY DEF PairTypes, GoroutineOK, Decided, NoStart
    <2>4. GateOK'
      BY <2>3 DEF GateOK
    <2>5. GoroutineOK'
      BY <2>2, <2>3 DEF GoroutineOK
    <2>6. CancelCause'
      BY <2>2, <2>3 DEF CancelCause
    <2> QED
      BY <2>1, <2>2, <2>3, <2>4, <2>5, <2>6, PairBystands DEF GoroutineOK, PairTypes
  <1>4. CASE Pair!Send(s)
    <2> USE <1>4 DEF Pair!Send, Pair!Around
    <2>1. PairTypes'
      BY DEF PairTypes
    <2>2. \A q \in Pair!Side \ {s} : gor'[q] = gor[q]
      BY DEF PairTypes
    <2>3. gor[s] = "send" /\ gor'[s] = "sent" /\ Decided' = Decided /\ NoStart' = NoStart
      BY DEF PairTypes, Decided, NoStart
    <2>4. GateOK'
      BY <2>3 DEF GateOK
    <2>5. GoroutineOK'
      BY <2>2, <2>3 DEF GoroutineOK
    <2>6. CancelCause'
      BY <2>2, <2>3 DEF CancelCause
    <2> QED
      BY <2>1, <2>2, <2>3, <2>4, <2>5, <2>6, PairBystands DEF GoroutineOK, PairTypes
  <1> QED
    BY <1>1, <1>2, <1>3, <1>4 DEF Pair!Goroutine

\* The timers, and what their functions do some time later.
LEMMA PairTimerStep == ASSUME PairInv, Pair!Timer PROVE PairInv'
  <1> USE Sides DEF PairInv, Pair!side, Pair!timers, Pair!flags
  <1>1. CASE Pair!StartupFires
    <2> USE <1>1 DEF Pair!StartupFires
    <2>1. PairTypes'
      BY DEF PairTypes
    <2>2. ~started /\ NoStart' /\ Decided'
      BY DEF GateOK, NoStart, Decided
    <2>3. GateOK'
      BY <2>2 DEF GateOK
    <2>4. GoroutineOK'
      BY <2>2 DEF GoroutineOK
    <2>5. CancelCause'
      BY <2>2 DEF CancelCause
    <2> QED
      BY <2>1, <2>3, <2>4, <2>5, PairBystands DEF GoroutineOK, PairTypes
  <1>2. CASE Pair!startupExpired
    <2> USE <1>2 DEF Pair!startupExpired, Pair!Both
    <2>1. PairTypes'
      BY DEF PairTypes
    <2>2. ~started /\ NoStart' /\ Decided'
      BY DEF GateOK, NoStart, Decided
    <2>3. GateOK'
      BY <2>2 DEF GateOK
    <2>4. GoroutineOK'
      BY <2>2 DEF GoroutineOK
    <2>5. CancelCause'
      BY <2>2 DEF CancelCause
    <2> QED
      BY <2>1, <2>3, <2>4, <2>5, PairBystands DEF GoroutineOK, PairTypes
  <1>3. CASE Pair!GraceEnds
    <2> USE <1>3 DEF Pair!GraceEnds
    <2>1. PairTypes'
      BY ZenonT(60) DEF PairTypes
    <2>2. Decided /\ Decided' /\ NoStart' = NoStart
      BY DEF CancelCause, GoroutineOK, NoStart, Decided
    <2>3. /\ canceled'[Pair!I] = canceled[Pair!I]
          /\ canceled'[Pair!C] => canceled[Pair!C] \/ blamed'
      BY DEF PairTypes
    <2>4. GateOK'
      BY <2>2 DEF GateOK
    <2>5. GoroutineOK'
      BY <2>2 DEF GoroutineOK
    <2>6. CancelCause'
      BY <2>2, <2>3 DEF CancelCause, PairTypes
    <2> QED
      BY <2>1, <2>4, <2>5, <2>6, PairBystands DEF GoroutineOK, PairTypes
  <1>4. ASSUME NEW s \in Pair!Side, NEW a \in {"fired", "active", "off"},
               alarm[s] \in {"armed", "fired", "active"}, alarm' = [alarm EXCEPT ![s] = a],
               UNCHANGED <<main, dirs, requestDone, Pair!side, gor, done, release, startTimer, atGate, ended,
                           started, stopped, grace, answer>>,
               \/ UNCHANGED <<canceled, Pair!flags>>
               \/ /\ ~done[s] /\ canceled' = Pair!Both(TRUE)
                  /\ deadlineHit' = (deadlineHit \/ s = Pair!C)
                  /\ blamed' = (blamed \/ (s = Pair!I /\ ~done[Pair!C]))
        PROVE  PairInv'
    <2> USE <1>4 DEF Pair!Both
    <2>1. PairTypes'
      <3>1. /\ alarm' \in [Pair!Side -> {"none", "armed", "fired", "active", "off"}]
            /\ canceled' \in [Pair!Side -> BOOLEAN]
        BY DEF PairTypes
      <3>2. deadlineHit' \in BOOLEAN /\ blamed' \in BOOLEAN
        BY DEF PairTypes
      <3> QED
        BY <3>1, <3>2 DEF PairTypes
    <2>2. /\ started /\ Decided /\ Decided' /\ NoStart' = NoStart
          /\ \A q \in Pair!Side \ {s} : alarm'[q] = alarm[q]
      BY DEF GateOK, NoStart, Decided, PairTypes
    <2>3. canceled'[Pair!C] =>
             canceled[Pair!C] \/ deadlineHit' \/ blamed' \/ stage[Pair!C] = "over"
      BY DEF GoroutineOK
    <2>4. GateOK'
      BY <2>2 DEF GateOK
    <2>5. GoroutineOK'
      BY <2>2 DEF GoroutineOK
    <2>6. (deadlineHit => deadlineHit') /\ (blamed => blamed')
      BY DEF PairTypes
    <2>7. CancelCause'
      BY <2>2, <2>3, <2>6 DEF CancelCause, PairTypes
    <2> QED
      BY <2>1, <2>4, <2>5, <2>6, <2>7, PairBystands DEF GoroutineOK, PairTypes
  <1>5. ASSUME NEW s \in Pair!Side, Pair!AlarmFires(s) \/ Pair!AlarmLooks(s) \/ Pair!expired(s)
        PROVE  PairInv'
    BY <1>4, <1>5 DEF Pair!AlarmFires, Pair!AlarmLooks, Pair!expired
  <1> QED
    BY <1>1, <1>2, <1>3, <1>5 DEF Pair!Timer

\* The request's context is done.
LEMMA PairParentStep == ASSUME PairInv, Pair!ParentCancels PROVE PairInv'
  <1> USE Sides DEF PairInv, Pair!side, Pair!timers, Pair!flags, Pair!ParentCancels, Pair!Both
  <1>1. PairTypes'
    BY DEF PairTypes
  <1>2. GateOK'
    BY DEF GateOK, Decided, NoStart
  <1>3. GoroutineOK'
    BY DEF GoroutineOK, Decided, NoStart
  <1>4. CancelCause'
    BY DEF CancelCause, Decided, NoStart
  <1> QED
    BY <1>1, <1>2, <1>3, <1>4, PairBystands DEF GoroutineOK, PairTypes

\* What a relay's error does to a result: it keeps the exit code and every status but
\* a good one, which it may spoil, and a broken stream, which it may forgive.
LEMMA Reconciled ==
    ASSUME NEW s \in Pair!Side, PairExplained(s), relay[s] \in {"none", "io", "closed"}
    PROVE  LET r == Pair!reconcileInteractiveRelayResults(s)
           IN  /\ r.exit = outcome[s].exit /\ r.over = outcome[s].over /\ r.said = outcome[s].said
               /\ r.status \in {"OK", "TLE", "RE", "InitFail"}
               /\ r.status = "OK" => \/ endedBy[s] = "clean" /\ r.exit = 0 /\ r.over = "none"
                                     \/ endedBy[s] = "own" /\ (r.exit # 0 \/ r.over # "none")
               /\ r.status = "OK" => r.exit # Pair!None
               /\ r.over \in {"none", "cpu", "memory", "stdout"}
               /\ r.status = "TLE" /\ r.source = "wall_time" => endedBy[s] = "canceled"
               /\ r.status = "InitFail" /\ r.said => endedBy[s] = "canceled"
  <1> DEFINE r == Pair!reconcileInteractiveRelayResults(s)
  <1>1. CASE endedBy[s] = "setup"
    BY <1>1 DEF PairExplained, Pair!reconcileInteractiveRelayResults, Pair!Res, Pair!None
  <1>2. CASE endedBy[s] = "canceled"
    <2>1. CASE outcome[s] \in Pair!InterruptedEnds
      <3>1. /\ outcome[s].status \in {"TLE", "RE"} /\ outcome[s].said = FALSE /\ outcome[s].copy = "none"
            /\ outcome[s].over \in {"none", "cpu", "memory", "stdout"}
        BY <2>1 DEF Pair!InterruptedEnds, Pair!Excess, Pair!Res
      <3>2. outcome[s].status # "OK" => r = outcome[s] \/ outcome[s].copy = "closed"
        BY DEF Pair!reconcileInteractiveRelayResults
      <3> QED
        BY <1>2, <3>1, <3>2
    <2>2. CASE outcome[s] \notin Pair!InterruptedEnds
      BY <1>2, <2>2 DEF PairExplained, Pair!reconcileInteractiveRelayResults, Pair!Res, Pair!None
    <2> QED
      BY <2>1, <2>2
  <1>3. CASE endedBy[s] = "clean" /\ relay[s] = "none"
    BY <1>3 DEF PairExplained, Pair!reconcileInteractiveRelayResults, Pair!Res, Pair!None
  <1>4. CASE endedBy[s] = "clean" /\ relay[s] = "closed"
    BY <1>4 DEF PairExplained, Pair!reconcileInteractiveRelayResults, Pair!Res, Pair!None
  <1>5. CASE endedBy[s] = "own" /\ relay[s] = "none"
    BY <1>5 DEF PairExplained, Pair!reconcileInteractiveRelayResults, Pair!Res, Pair!None, Pair!OwnEnds,
       Pair!Excess
  <1>6. CASE endedBy[s] = "own" /\ relay[s] # "none"
    BY <1>6 DEF PairExplained, Pair!reconcileInteractiveRelayResults, Pair!Res, Pair!None
  <1>7. CASE endedBy[s] = "io"
    BY <1>7 DEF PairExplained, Pair!reconcileInteractiveRelayResults, Pair!Res, Pair!None
  <1> QED
    BY <1>1, <1>2, <1>3, <1>4, <1>5, <1>6, <1>7 DEF PairExplained

\* An answer that accepts is the interactor's, about a contestant that ended well or
\* that the interactor has interrupted.
LEMMA AcceptedAnswer ==
    ASSUME PairInv, \A s \in Pair!Side : gor[s] = "got",
           Pair!interactiveResponse(Pair!reconcileInteractiveRelayResults(Pair!C),
                                    Pair!reconcileInteractiveRelayResults(Pair!I)).status = "AC"
    PROVE  /\ outcome[Pair!I].exit = 0 /\ outcome[Pair!I].over \in {"none", "memory"}
           /\ endedBy[Pair!I] # "canceled" /\ endedBy[Pair!C] \in {"clean", "canceled"}
           /\ endedBy[Pair!C] = "canceled" => blamed
           /\ ~deadlineHit /\ ~requestDone
  <1> DEFINE c == Pair!reconcileInteractiveRelayResults(Pair!C)
             i == Pair!reconcileInteractiveRelayResults(Pair!I)
             v == Pair!applyStdoutLimitVerdict(Pair!classifyRunStatusWithoutOutput(c), c)
             w == Pair!classifyInteractorStatus(i)
             ignored == Pair!ignoreContestantStatus(c)
  <1>0. \A s \in Pair!Side : PairExplained(s) /\ relay[s] \in {"none", "io", "closed"}
    BY Sides DEF PairInv, PairTypes, PairResults, GoroutineOK
  <1>1. /\ c.status \in {"OK", "TLE", "RE", "InitFail"}
        /\ c.status = "OK" => \/ endedBy[Pair!C] = "clean" /\ c.exit = 0 /\ c.over = "none"
                              \/ endedBy[Pair!C] = "own" /\ (c.exit # 0 \/ c.over # "none")
        /\ c.status = "OK" => c.exit # Pair!None
        /\ c.over \in {"none", "cpu", "memory", "stdout"}
        /\ c.status = "TLE" /\ c.source = "wall_time" => endedBy[Pair!C] = "canceled"
        /\ c.status = "InitFail" /\ c.said => endedBy[Pair!C] = "canceled"
    BY ONLY <1>0, Sides, Reconciled
  <1>2. /\ i.exit = outcome[Pair!I].exit /\ i.over = outcome[Pair!I].over
        /\ i.over \in {"none", "cpu", "memory", "stdout"}
        /\ i.status \in {"OK", "TLE", "RE", "InitFail"}
        /\ i.status = "OK" => endedBy[Pair!I] \in {"clean", "own"}
    BY ONLY <1>0, Sides, Reconciled
  <1> HIDE DEF c, i
  <1>3. v.status = "OK" => c.status = "OK" /\ c.exit = 0 /\ c.over \notin {"cpu", "memory", "stdout"}
    BY <1>1 DEF Pair!applyStdoutLimitVerdict, Pair!classifyRunStatusWithoutOutput, Pair!Answer
  <1>4. w.status = "AC" => i.status = "OK" /\ i.exit = 0 /\ i.over \notin {"cpu", "stdout"}
    BY <1>2 DEF Pair!applyStdoutLimitVerdict, Pair!classifyInteractorStatus, Pair!Answer
  <1>5. v.status # "AC"
    BY <1>1 DEF Pair!applyStdoutLimitVerdict, Pair!classifyRunStatusWithoutOutput, Pair!Answer
  <1>6. /\ ~deadlineHit /\ ~requestDone /\ w.status = "AC" /\ (ignored \/ v.status = "OK")
    BY <1>5 DEF Pair!interactiveResponse, Pair!Answer, c, i
  <1>7. CASE ignored
    BY <1>1, <1>2, <1>4, <1>6, <1>7 DEF Pair!ignoreContestantStatus
  <1>8. CASE ~ignored
    BY <1>1, <1>2, <1>3, <1>4, <1>6, <1>8
  <1> QED
    BY <1>7, <1>8

\* Collecting both results, answering, and the deferred calls.
LEMMA PairCollectorStep == ASSUME PairInv, Pair!Collector PROVE PairInv'
  <1> USE Sides DEF PairInv, Pair!side, Pair!timers, Pair!flags
  <1>1. CASE Pair!CollectContestant
    <2> USE <1>1 DEF Pair!CollectContestant, Pair!Around
    <2>1. /\ gor[Pair!C] = "sent" /\ gor'[Pair!C] = "got" /\ gor'[Pair!I] = gor[Pair!I]
          /\ canceled' \in [Pair!Side -> BOOLEAN] /\ canceled'[Pair!C] = canceled[Pair!C]
      BY DEF PairTypes
    <2>2. PairTypes'
      BY <2>1 DEF PairTypes
    <2>3. Decided /\ Decided' /\ NoStart' = NoStart
      BY <2>1 DEF GoroutineOK, Decided, NoStart
    <2>4. GateOK'
      BY <2>3 DEF GateOK
    <2>5. GoroutineOK'
      BY <2>1, <2>3 DEF GoroutineOK
    <2>6. CancelCause'
      BY <2>1, <2>3 DEF CancelCause
    <2> QED
      BY <2>1, <2>2, <2>4, <2>5, <2>6, PairBystands DEF GoroutineOK, PairTypes
  <1>2. CASE Pair!CollectInteractor
    <2> USE <1>2 DEF Pair!CollectInteractor, Pair!Around
    <2>1. /\ gor[Pair!I] = "sent" /\ gor'[Pair!I] = "got" /\ gor'[Pair!C] = gor[Pair!C]
          /\ canceled' \in [Pair!Side -> BOOLEAN] /\ canceled'[Pair!I] = canceled[Pair!I]
          /\ grace' \in {grace, "armed"} /\ blamed' \in BOOLEAN /\ (blamed => blamed')
          /\ canceled'[Pair!C] => canceled[Pair!C] \/ blamed' \/ stage[Pair!C] = "over"
      <3>1. /\ gor[Pair!I] = "sent" /\ gor'[Pair!I] = "got" /\ gor'[Pair!C] = gor[Pair!C]
            /\ canceled' \in [Pair!Side -> BOOLEAN] /\ canceled'[Pair!I] = canceled[Pair!I]
            /\ grace' \in {grace, "armed"}
        <4>0. DOMAIN gor = Pair!Side /\ canceled \in [Pair!Side -> BOOLEAN]
          BY DEF PairTypes
        <4>1. gor[Pair!I] = "sent" /\ gor' = [gor EXCEPT ![Pair!I] = "got"]
          OBVIOUS
        <4>2. canceled' = canceled \/ canceled' = [canceled EXCEPT ![Pair!C] = TRUE]
          OBVIOUS
        <4>3. grace' = grace \/ grace' = "armed"
          OBVIOUS
        <4> QED
          BY ONLY <4>1, <4>2, <4>3, <4>0, Sides
      <3>2. CASE grace' = "armed" /\ UNCHANGED <<canceled, blamed>>
        BY <3>1, <3>2 DEF PairTypes
      <3>3. CASE blamed' = (blamed \/ ~done[Pair!C])
        <4>1. blamed' \in BOOLEAN /\ (blamed => blamed') /\ (~done[Pair!C] => blamed')
          BY <3>3
        <4> QED
          BY <3>1, <4>1 DEF GoroutineOK
      <3> QED
        BY <3>2, <3>3
    <2>2. PairTypes'
      BY <2>1 DEF PairTypes
    <2>3. Decided /\ Decided' /\ NoStart' = NoStart
      BY <2>1 DEF GoroutineOK, Decided, NoStart
    <2>4. GateOK'
      BY <2>3 DEF GateOK
    <2>5. GoroutineOK'
      BY <2>1, <2>3 DEF GoroutineOK
    <2>6. CancelCause'
      BY <2>1, <2>3 DEF CancelCause
    <2> QED
      BY <2>1, <2>2, <2>4, <2>5, <2>6, PairBystands DEF GoroutineOK, PairTypes
  <1>3. CASE Pair!Respond
    <2> USE <1>3 DEF Pair!Respond, Pair!Go, Pair!Got, Pair!Both
    <2>1. \A s \in Pair!Side : gor[s] = "got" /\ stage[s] = "over"
      BY DEF GoroutineOK
    <2>2. PairTypes'
      BY DEF PairTypes
    <2>3. Decided /\ Decided' /\ NoStart' = NoStart
      BY <2>1 DEF GoroutineOK, Decided, NoStart
    <2>4. GateOK'
      BY <2>3 DEF GateOK
    <2>5. GoroutineOK'
      BY <2>1, <2>3 DEF GoroutineOK
    <2>6. CancelCause'
      BY <2>1, <2>3 DEF CancelCause
    <2>7. PairResults'
      BY DEF PairResults, PairExplained
    <2>8. Pair!AcceptedIsEarned'
      BY <2>1, AcceptedAnswer DEF Pair!AcceptedIsEarned
    <2>9. PairAnswer'
      BY <2>1, <2>8 DEF PairAnswer
    <2> QED
      BY <2>2, <2>4, <2>5, <2>6, <2>7, <2>9
  <1>4. CASE Pair!Stop
    <2> USE <1>4 DEF Pair!Stop, Pair!Go
    <2>1. \A s \in Pair!Side : gor[s] = "got"
      BY DEF PairAnswer
    <2>2. /\ alarm' \in [Pair!Side -> {"none", "armed", "fired", "active", "off"}]
          /\ startTimer' \in {startTimer, "off"} /\ (startTimer = "none" => startTimer' = "none")
          /\ \A s \in Pair!Side : alarm'[s] \in {alarm[s], "off"}
      BY DEF PairTypes
    <2>3. PairTypes'
      BY <2>2 DEF PairTypes
    <2>4. Decided' /\ (NoStart => NoStart') /\ (~started => NoStart') /\ (started => started')
      BY DEF Decided, NoStart
    <2>5. GateOK'
      BY <2>2, <2>4 DEF GateOK
    <2>6. GoroutineOK'
      BY <2>1, <2>4 DEF GoroutineOK
    <2>7. CancelCause'
      BY <2>1, <2>4 DEF CancelCause
    <2> QED
      BY <2>1, <2>3, <2>5, <2>6, <2>7, PairBystands DEF GoroutineOK, PairTypes
  <1> QED
    BY <1>1, <1>2, <1>3, <1>4 DEF Pair!Collector

\* The invariant holds throughout.
LEMMA PairInvHolds == PairSpec => []PairInv
  <1>1. PairInv /\ [Pair!Next]_(Pair!vars) => PairInv'
    <2>1. ASSUME PairInv, UNCHANGED Pair!vars PROVE PairInv'
      BY <2>1 DEF PairInv, PairTypes, GateOK, GoroutineOK, CancelCause, PairResults, PairExplained,
         PairAnswer, Decided, NoStart, Pair!AcceptedIsEarned, Pair!vars, Pair!side, Pair!timers,
         Pair!flags
    <2>2. ASSUME PairInv, Pair!Next PROVE PairInv'
      BY <2>2, PairPrepareStep, PairTimerStep, PairParentStep, PairCollectorStep, PairRunStep,
         PairGoroutineStep DEF Pair!Next
    <2> QED
      BY <2>1, <2>2
  <1> QED
    BY PairStart, <1>1, PTL DEF PairSpec, Pair!Spec

\* An accepted run was accepted by an interactor that ended by itself and within its
\* limits, about a contestant that ended well, or that the interactor interrupted before
\* its time was up and before the client gave up: what else the interruption forgives
\* stays open.
THEOREM AcceptedRunsAreEarned == PairSpec => []AcceptedIsEarned
  <1>1. PairInv => AcceptedIsEarned
    BY DEF PairInv, PairAnswer, AcceptedIsEarned
  <1> QED
    BY <1>1, PairInvHolds, PTL

\* No contestant is interrupted while its target may run without a record of why.
THEOREM InterruptionsAreRecorded == PairSpec => []InterruptionIsRecorded
  <1>1. PairInv => InterruptionIsRecorded
    BY Sides DEF InterruptionIsRecorded, PairInv, CancelCause, GateOK, NoStart, Pair!InterruptionIsRecorded
  <1> QED
    BY <1>1, PairInvHolds, PTL

\* Where the sides stand at the barrier, and the barrier's gate.
PairAt == [s \in Pair!Side |-> Pair!At(s)]

\* The gate in the words of the invariant.
LEMMA GateIs ==
    ASSUME PairInv
    PROVE  /\ started => Pair!Gate = "open"
           /\ NoStart => Pair!Gate = "broken"
           /\ ~started /\ ~NoStart => Pair!Gate = "closed"
  BY DEF PairInv, GateOK, NoStart, Pair!Gate

\* The barrier's steps.
LEMMA BarrierStutters ==
    ASSUME PairAt' = PairAt, Pair!Gate' = Pair!Gate
    PROVE  UNCHANGED Pair!Barrier!bvars
  BY DEF PairAt, Pair!Barrier!bvars

LEMMA BarrierBreaks ==
    ASSUME PairAt' = PairAt, Pair!Gate = "closed", Pair!Gate' = "broken"
    PROVE  Pair!Barrier!Next
  BY DEF PairAt, Pair!Barrier!Next, Pair!Barrier!Break

LEMMA BarrierMoves ==
    ASSUME NEW s \in Pair!Side, NEW a, PairAt' = [PairAt EXCEPT ![s] = a],
           \/ PairAt[s] = "setup" /\ a = "ready" /\ Pair!Gate' = Pair!Gate
           \/ /\ PairAt[s] = "setup" /\ a = "ready" /\ Pair!Gate = "closed" /\ Pair!Gate' = "open"
              /\ \A q \in Pair!Side \ {s} : PairAt[q] = "ready"
           \/ PairAt[s] = "ready" /\ a = "running" /\ Pair!Gate = "open" /\ Pair!Gate' = Pair!Gate
           \/ PairAt[s] # "gone" /\ a = "gone" /\ Pair!Gate' = Pair!Gate
    PROVE  Pair!Barrier!Next
  BY DEF PairAt, Pair!Barrier!Next, Pair!Barrier!Ready, Pair!Barrier!Open, Pair!Barrier!Pass,
     Pair!Barrier!Leave

\* Nothing has been set up, and the gate is closed.
LEMMA BarrierStart == Pair!Init => Pair!Barrier!Init
  BY DEF Pair!Init, Pair!Barrier!Init, Pair!At, Pair!Gate, Pair!Both

\* A step that changes neither a run's place nor what decides the gate.
LEMMA BarrierRests ==
    ASSUME UNCHANGED stage, UNCHANGED <<release, startTimer, started, stopped>>
    PROVE  UNCHANGED Pair!Barrier!bvars
  <1>1. PairAt' = PairAt
    BY DEF PairAt, Pair!At
  <1>2. Pair!Gate' = Pair!Gate
    BY DEF Pair!Gate
  <1> QED
    BY <1>1, <1>2, BarrierStutters

\* One that may decide the start against it.
LEMMA BarrierMayBreak ==
    ASSUME PairInv, PairInv', UNCHANGED stage, started' = started, ~started => NoStart'
    PROVE  [Pair!Barrier!Next]_(Pair!Barrier!bvars)
  <1>1. PairAt' = PairAt
    BY DEF PairAt, Pair!At
  <1>2. CASE started
    <2>1. Pair!Gate = "open" /\ Pair!Gate' = "open"
      BY <1>2 DEF PairInv, GateOK, Pair!Gate
    <2> QED
      BY <1>1, <2>1, BarrierStutters
  <1>3. CASE ~started
    <2>1. Pair!Gate \in {"closed", "broken"} /\ Pair!Gate' = "broken"
      BY <1>3 DEF PairInv, GateOK, Pair!Gate, NoStart
    <2> QED
      BY <1>1, <2>1, BarrierStutters, BarrierBreaks
  <1> QED
    BY <1>2, <1>3

\* A run that moves takes its side to another place.
LEMMA SideMoves ==
    ASSUME NEW s \in Pair!Side, stage \in [Pair!Side -> PairPhases],
           NEW p \in {"ready", "passed", "running"}, stage' = [stage EXCEPT ![s] = p]
    PROVE  PairAt' = [PairAt EXCEPT ![s] = IF p = "ready" THEN "ready" ELSE "running"]
  <1>1. \A q \in Pair!Side : stage'[q] = IF q = s THEN p ELSE stage[q]
    OBVIOUS
  <1>2. \A q \in Pair!Side \ {s} : Pair!At(q)' = Pair!At(q)
    BY <1>1 DEF Pair!At
  <1>3. Pair!At(s)' = IF p = "ready" THEN "ready" ELSE "running"
    <2>1. stage'[s] = p
      BY <1>1
    <2>2. CASE p = "ready"
      BY <2>1, <2>2 DEF Pair!At
    <2>3. CASE p # "ready"
      BY <2>1, <2>3 DEF Pair!At
    <2> QED
      BY <2>2, <2>3
  <1> QED
    BY <1>2, <1>3 DEF PairAt

\* The runs move at the barrier, and the last one to be ready opens it.
LEMMA BarrierRunStep ==
    ASSUME PairInv, NEW s \in Pair!Side, Pair!SandboxedRun(s)
    PROVE  [Pair!Barrier!Next]_(Pair!Barrier!bvars)
  <1> USE Sides DEF PairInv, Pair!timers
  <1>0. stage \in [Pair!Side -> PairPhases]
    BY DEF PairTypes
  <1>1. ASSUME NEW r, NEW c, stage[s] \notin {"none", "over"}, Pair!Returns(s, r, c),
               UNCHANGED Pair!timers
        PROVE  Pair!Barrier!Next
    <2>1. PairAt' = [PairAt EXCEPT ![s] = "gone"] /\ PairAt[s] # "gone"
      BY <1>0, <1>1 DEF Pair!Returns, PairAt, Pair!At, PairPhases
    <2>2. Pair!Gate' = Pair!Gate
      BY <1>1 DEF Pair!Gate
    <2> QED
      BY <2>1, <2>2, BarrierMoves
  <1>2. CASE Pair!SetupFails(s) \/ Pair!CanceledEarly(s) \/ Pair!EndsItself(s) \/ Pair!Killed(s)
             \/ Pair!WriteFails(s)
    BY <1>1, <1>2 DEF Pair!SetupFails, Pair!CanceledEarly, Pair!EndsItself, Pair!Killed, Pair!WriteFails
  <1>3. CASE Pair!targetReady(s)
    <2>1. /\ PairAt' = [PairAt EXCEPT ![s] = "ready"] /\ PairAt[s] = "setup"
          /\ stage[s] = "setup" /\ startTimer # "none"
      <3>1. stage[s] = "setup" /\ stage' = [stage EXCEPT ![s] = "ready"]
        BY <1>3 DEF Pair!targetReady
      <3>2. PairAt[s] = "setup" /\ startTimer # "none"
        BY <3>1 DEF PairAt, Pair!At, GateOK
      <3> QED
        BY <1>0, <3>1, <3>2, SideMoves
    <2>2. CASE Pair!Gate' = Pair!Gate
      BY <2>1, <2>2, BarrierMoves
    <2>3. CASE UNCHANGED Pair!timers
      BY <2>2, <2>3 DEF Pair!Gate
    <2>4. CASE /\ ~stopped /\ ~started /\ ~requestDone /\ stopped' = TRUE /\ startTimer # "armed"
               /\ UNCHANGED <<startTimer, started, release, alarm>>
      <3>1. startTimer \in {"fired", "off"} /\ ~release
        BY <2>1, <2>4 DEF PairTypes, GateOK
      <3> QED
        BY <2>2, <2>4, <3>1 DEF Pair!Gate
    <2>5. CASE /\ ~stopped /\ ~started /\ ~requestDone /\ startTimer = "armed" /\ startTimer' = "off"
               /\ started' = TRUE /\ release' = TRUE /\ UNCHANGED stopped
               /\ atGate' = [atGate EXCEPT ![s] = TRUE] /\ atGate'[Pair!Peer(s)]
      <3>1. Pair!Gate = "closed" /\ Pair!Gate' = "open"
        BY <2>5 DEF Pair!Gate, GateOK
      <3>2. atGate[Pair!Peer(s)] /\ ~Decided
        BY <2>5 DEF PairTypes, Decided, NoStart
      <3>3. stage[Pair!Peer(s)] = "ready"
        BY <2>5, <3>2 DEF GateOK
      <3>4. \A q \in Pair!Side \ {s} : PairAt[q] = "ready"
        BY <3>3 DEF PairAt, Pair!At
      <3> QED
        BY <2>1, <3>1, <3>4, BarrierMoves
    <2>6. CASE ~stopped /\ ~started /\ ~requestDone
               /\ UNCHANGED <<startTimer, stopped, started, release, alarm>>
      BY <2>2, <2>6 DEF Pair!Gate
    <2> QED
      BY <1>3, <2>3, <2>4, <2>5, <2>6 DEF Pair!targetReady
  <1>4. CASE Pair!PassGate(s)
    <2>1. PairAt' = [PairAt EXCEPT ![s] = "running"] /\ PairAt[s] = "ready"
      <3>1. stage[s] = "ready" /\ stage' = [stage EXCEPT ![s] = "passed"]
        BY <1>4 DEF Pair!PassGate
      <3> QED
        BY <1>0, <3>1, SideMoves DEF PairAt, Pair!At
    <2>2. Pair!Gate = "open" /\ Pair!Gate' = Pair!Gate
      BY <1>4 DEF Pair!PassGate, Pair!Gate
    <2> QED
      BY <2>1, <2>2, BarrierMoves
  <1>5. CASE Pair!Exec(s)
    <2>1. PairAt' = PairAt
      <3>1. stage[s] = "passed" /\ stage' = [stage EXCEPT ![s] = "running"]
        BY <1>5 DEF Pair!Exec
      <3>2. PairAt' = [PairAt EXCEPT ![s] = "running"]
        BY <1>0, <3>1, SideMoves
      <3>3. PairAt[s] = "running"
        BY <3>1 DEF PairAt, Pair!At
      <3> QED
        BY <3>2, <3>3 DEF PairAt
    <2>2. Pair!Gate' = Pair!Gate
      BY <1>5 DEF Pair!Exec, Pair!Gate
    <2> QED
      BY <2>1, <2>2, BarrierStutters
  <1> QED
    BY <1>2, <1>3, <1>4, <1>5 DEF Pair!SandboxedRun

\* Every step is one of the barrier's, or one it does not see.
LEMMA BarrierStep ==
    ASSUME PairInv, PairInv', [Pair!Next]_(Pair!vars)
    PROVE  [Pair!Barrier!Next]_(Pair!Barrier!bvars)
  <1> USE DEF Pair!side, Pair!timers, Pair!flags
  <1>1. CASE UNCHANGED Pair!vars \/ Pair!ParentCancels \/ Pair!GraceEnds
    BY <1>1, BarrierRests DEF Pair!vars, Pair!ParentCancels, Pair!GraceEnds
  <1>2. CASE Pair!Prepare
    <2>1. CASE UNCHANGED <<stage, Pair!timers>>
      BY <2>1, BarrierRests
    <2>2. CASE /\ main = "files" /\ stage' = Pair!Both("setup") /\ startTimer' = "armed"
               /\ UNCHANGED <<release, started, stopped>>
      <3>1. startTimer = "none" /\ \A s \in Pair!Side : stage[s] = "none"
        BY <2>2 DEF PairInv, GateOK
      <3>2. PairAt' = PairAt
        BY <2>2, <3>1 DEF PairAt, Pair!At, Pair!Both
      <3>3. Pair!Gate' = Pair!Gate
        BY <2>2, <3>1 DEF Pair!Gate
      <3> QED
        BY <3>2, <3>3, BarrierStutters
    <2> QED
      BY <1>2, <2>1, <2>2 DEF Pair!Prepare, Pair!prepareInteractiveCommand, Pair!Launch, Pair!GiveUp,
         Pair!Go
  <1>3. CASE \E s \in Pair!Side : Pair!SandboxedRun(s)
    BY <1>3, BarrierRunStep
  <1>4. ASSUME NEW s \in Pair!Side, Pair!Goroutine(s)
        PROVE  [Pair!Barrier!Next]_(Pair!Barrier!bvars)
    <2>1. CASE Pair!StoreFinished(s) \/ Pair!abortPeer(s) \/ Pair!Send(s)
      BY <2>1, BarrierRests DEF Pair!StoreFinished, Pair!abortPeer, Pair!Send
    <2>2. CASE Pair!finish(s) /\ started
      BY <2>2, BarrierRests DEF Pair!finish
    <2>3. CASE Pair!finish(s) /\ ~started
      BY <2>3, BarrierMayBreak DEF Pair!finish, NoStart
    <2> QED
      BY <1>4, <2>1, <2>2, <2>3 DEF Pair!Goroutine
  <1>5. CASE Pair!StartupFires
    BY <1>5, BarrierMayBreak DEF Pair!StartupFires, NoStart
  <1>6. CASE Pair!startupExpired
    BY <1>6, BarrierMayBreak DEF Pair!startupExpired, NoStart
  <1>7. CASE \E s \in Pair!Side : Pair!AlarmFires(s) \/ Pair!AlarmLooks(s) \/ Pair!expired(s)
    BY <1>7, BarrierRests DEF Pair!AlarmFires, Pair!AlarmLooks, Pair!expired
  <1>8. CASE Pair!CollectContestant \/ Pair!CollectInteractor \/ Pair!Respond
    BY <1>8, BarrierRests DEF Pair!CollectContestant, Pair!CollectInteractor, Pair!Respond
  <1>9. CASE Pair!Stop
    BY <1>9, BarrierMayBreak DEF Pair!Stop, NoStart
  <1> QED
    BY <1>1, <1>2, <1>3, <1>4, <1>5, <1>6, <1>7, <1>8, <1>9 DEF Pair!Next, Pair!Timer, Pair!Collector

\* The start is a barrier: both sides run or none, and a start that has timed out is
\* never revived.
THEOREM StartIsABarrier == PairSpec => ImplementsBarrier
  <1> QED
    BY BarrierStart, BarrierStep, PairInvHolds, PTL
    DEF PairSpec, Pair!Spec, ImplementsBarrier, Pair!ImplementsBarrier, Pair!Barrier!Spec
=============================================================================
