--------------------------- MODULE WorkLifecycle ---------------------------
(***************************************************************************)
(* Admission and draining of work: workLifecycle of internal/api and the   *)
(* shutdown sequence of cmd/server.                                        *)
(*                                                                         *)
(* A request is registered from begin to finish.  Admission, the step from *)
(* a queue permit to a running job and the drain share one mutex, so each  *)
(* is one action; context cancellation may strike between any two of them. *)
(* A request identity that has finished may be used by a later request.    *)
(***************************************************************************)
EXTENDS DrainPromise, Naturals, FiniteSets

CONSTANTS Requests     \* identities of concurrently registered requests

Phases == {"serving", "grace", "graceOver", "waiting", "exited"}

Init ==
    /\ draining = FALSE
    /\ requests = {} /\ running = {} /\ cancelled = {} /\ gone = {}
    /\ finished = FALSE
    /\ phase = "serving"

-----------------------------------------------------------------------------
(* The lock-protected operations of workLifecycle. *)

\* signalFinished, with the requests that remain after the caller's change.
signalFinished(isDraining, remaining) ==
    finished' = (finished \/ (isDraining /\ remaining = {}))

begin(r) ==
    /\ r \notin requests
    /\ ~draining
    /\ requests' = requests \cup {r}
    /\ running' = running \ {r}
    /\ cancelled' = cancelled \ {r}
    /\ gone' = gone \ {r}
    /\ UNCHANGED <<draining, finished, phase>>

\* start succeeds: the request becomes a running job.
start(r) ==
    /\ ~draining /\ r \notin cancelled /\ r \in requests
    /\ running' = running \cup {r}
    /\ UNCHANGED <<draining, requests, cancelled, gone, finished, phase>>

\* Mutant: the last handler to return does not signal.
finish_Silent(r) ==
    /\ r \in requests
    /\ cancelled' = cancelled \cup {r}
    /\ requests' = requests \ {r}
    /\ UNCHANGED <<draining, running, gone, finished, phase>>

\* The handler has returned.  finish cancels the context before it takes the
\* lock; that a context may be cancelled earlier is ClientGone.
finish(r) ==
    /\ r \in requests
    /\ cancelled' = cancelled \cup {r}
    /\ requests' = requests \ {r}
    /\ signalFinished(draining, requests \ {r})
    /\ UNCHANGED <<draining, running, gone, phase>>

\* The connection closes, or a write to it fails.
ClientGone(r) ==
    /\ r \in requests \ gone
    /\ gone' = gone \cup {r}
    /\ cancelled' = cancelled \cup {r}
    /\ UNCHANGED <<draining, requests, running, finished, phase>>

-----------------------------------------------------------------------------
(* shutdownServer *)

\* Mutant: draining cancels running jobs as well.
BeginDrain_CancelsAll ==
    /\ phase = "serving" /\ phase' = "grace"
    /\ draining' = TRUE
    /\ cancelled' = cancelled \cup requests
    /\ signalFinished(TRUE, requests)
    /\ UNCHANGED <<requests, running, gone>>

BeginDrain ==
    /\ phase = "serving" /\ phase' = "grace"
    /\ draining' = TRUE
    /\ cancelled' = cancelled \cup (requests \ running)
    /\ signalFinished(TRUE, requests)
    /\ UNCHANGED <<requests, running, gone>>

\* http.Server.Shutdown returns: every handler has returned, or the grace
\* period is over.
ShutdownReturns ==
    /\ phase = "grace" /\ phase' = "graceOver"
    /\ UNCHANGED <<draining, requests, running, cancelled, gone, finished>>

CancelWork ==
    /\ phase = "graceOver" /\ phase' = "waiting"
    /\ cancelled' = cancelled \cup requests
    /\ UNCHANGED <<draining, requests, running, gone, finished>>

WaitForWork ==
    /\ phase = "waiting" /\ finished /\ phase' = "exited"
    /\ UNCHANGED <<draining, requests, running, cancelled, gone, finished>>

Shutdown == BeginDrain \/ ShutdownReturns \/ CancelWork \/ WaitForWork

-----------------------------------------------------------------------------
Next ==
    \/ \E r \in Requests : begin(r) \/ start(r) \/ finish(r) \/ ClientGone(r)
    \/ Shutdown

Spec == Init /\ [][Next]_lifecycleVars

-----------------------------------------------------------------------------
(* Properties *)

\* Every variable stays in its range.
TypeOK ==
    /\ draining \in BOOLEAN /\ finished \in BOOLEAN
    /\ requests \subseteq Requests /\ running \subseteq Requests
    /\ cancelled \subseteq Requests /\ gone \subseteq Requests
    /\ phase \in Phases

\* After draining begins no request is admitted and none starts to run.
NoStartAfterDrain ==
    [][draining => requests' \subseteq requests /\ running' \subseteq running]_lifecycleVars
=============================================================================
