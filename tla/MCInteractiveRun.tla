-------------------------- MODULE MCInteractiveRun --------------------------
(***************************************************************************)
(* InteractiveRun for TLC, and for the theorems: its variables have names  *)
(* that CommunicationRun does not use, so that one module can be about     *)
(* both kinds of programs that talk to each other.  There is nothing to    *)
(* bound: InteractiveRun has no constants.                                 *)
(***************************************************************************)

VARIABLES main,        \* where runInteractiveExecution stands
          dirs, requestDone, canceled,
          stage, outcome, endedBy, relay,             \* of each sandboxed run
          gor, done, release, startTimer, alarm,
          atGate, ended, started, stopped,            \* of interactiveExecutionTimers
          grace, deadlineHit, blamed, answer

Pair == INSTANCE InteractiveRun
        WITH pc <- main, parent <- requestDone, phase <- stage, result <- outcome,
             why <- endedBy, startup <- startTimer, readied <- atGate, response <- answer

PairSpec == Pair!Spec
PairFairSpec == Pair!FairSpec

\* An accepted run was accepted by an interactor that ended by itself, about a contestant
\* that ended well or that the interactor interrupted.
AcceptedIsEarned == Pair!AcceptedIsEarned

\* A contestant is interrupted for a recorded reason.
InterruptionIsRecorded == Pair!InterruptionIsRecorded

\* Both sides run or none, and a start that has timed out is never revived.
ImplementsBarrier == Pair!ImplementsBarrier

\* Whatever the targets do, the request is answered.
RunReturns == Pair!RunReturns
=============================================================================
