---------------------------- MODULE DrainPromise ----------------------------
(***************************************************************************)
(* What the drain of a server promises to those it has admitted.  The      *)
(* state is that of workLifecycle of internal/api and of shutdownServer of *)
(* cmd/server; WorkLifecycle has their operations, and RequestPath the     *)
(* handlers that call them.                                                *)
(***************************************************************************)

VARIABLES draining,    \* workLifecycle.draining
          requests,    \* workLifecycle.requests
          running,     \* requests whose running flag is set
          cancelled,   \* requests whose work context is cancelled
          gone,        \* requests whose own client or stream gave up
          finished,    \* done has been closed
          phase        \* where shutdownServer stands

lifecycleVars == <<draining, requests, running, cancelled, gone, finished, phase>>

\* Once the drain has begun, every registered request either runs already or
\* has been told to stop: none slips through between admission and start.
DrainDecides == draining => requests \subseteq running \cup cancelled

\* During the HTTP grace period a running job loses its context only because
\* its own client went away.
GraceKept == phase = "grace" => requests \cap running \cap cancelled \subseteq gone

\* done is closed exactly when the server drains and no handler is left, so
\* WaitForWork neither returns early nor misses the last handler.
DoneIffDrained == finished <=> draining /\ requests = {}

\* The three together: what a shutdown promises requests, running jobs and itself.
DrainIsOrderly == DrainDecides /\ GraceKept /\ DoneIffDrained
=============================================================================
