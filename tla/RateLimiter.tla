---------------------------- MODULE RateLimiter ----------------------------
(***************************************************************************)
(* allowPrincipalRequest: a counter per principal and fixed window, and a  *)
(* cleanup of old windows at most once a minute, made by whichever request *)
(* comes along.                                                            *)
(*                                                                         *)
(* The handler reads the clock before it takes the lock, so the windows    *)
(* are compared with clock values that may be up to MaxDelay old and out   *)
(* of order.                                                               *)
(***************************************************************************)
EXTENDS Integers, FiniteSets, Functions

CONSTANTS Principals,
          MaxRate,    \* MaxPrincipalRequestsPerMinute, positive
          Minute,     \* ticks of a window
          MaxDelay,   \* bound: from time.Now() to the lock
          MaxTime     \* bound: the clock stops here

\* What a configuration with the limit switched on satisfies.
RateAssumption ==
    MaxRate \in Nat \ {0} /\ Minute \in Nat \ {0} /\ MaxDelay \in 0 .. Minute - 1

VARIABLES clock,
          rates,         \* principalRates: principal -> window
          lastCleanup,   \* rateLastCleanup, or the empty tuple when zero
          allowed        \* ghost: the requests of each principal let in during the last Span

vars == <<clock, rates, lastCleanup, allowed>>

Init ==
    /\ clock = MaxDelay
    /\ rates = [p \in {} |-> 0] /\ lastCleanup = <<>>
    /\ allowed = [p \in Principals |-> {}]

Tick ==
    /\ clock < MaxTime /\ clock' = clock + 1
    /\ UNCHANGED <<rates, lastCleanup, allowed>>

Fresh(now, start) == now - start < Minute

\* Mutant: every request cleans up all other windows.
Cleaned_Everything(now) == [p \in {} |-> 0]

Due(now) == lastCleanup = <<>> \/ ~Fresh(now, lastCleanup[1])

\* Windows that survive the cleanup, if one is due.
Cleaned(now) ==
    IF Due(now) THEN Restrict(rates, {p \in DOMAIN rates : Fresh(now, rates[p].start)})
                ELSE rates

SetWindow(windows, p, w) ==
    [q \in DOMAIN windows \cup {p} |-> IF q = p THEN w ELSE windows[q]]

Refuses(w) == w.count >= MaxRate

Span == Minute - MaxDelay

\* The i-th request of a principal at the same time t is remembered as <<t, i>>.
Allow(p) ==
    LET sameTime == {a \in allowed[p] : a[1] = clock} IN
    allowed' = [allowed EXCEPT ![p] = {a \in @ : a[1] > clock - Span}
                                          \cup {<<clock, 1 + Cardinality(sameTime)>>}]

allowPrincipalRequest(p, now) ==
    LET windows == Cleaned(now) IN
    /\ \/ \* no window, or one that is over
          /\ p \in DOMAIN windows => ~Fresh(now, windows[p].start)
          /\ rates' = SetWindow(windows, p, [start |-> now, count |-> 1])
          /\ Allow(p)
       \/ /\ p \in DOMAIN windows /\ Fresh(now, windows[p].start)
          /\ Refuses(windows[p])
          /\ rates' = windows /\ UNCHANGED allowed
       \/ /\ p \in DOMAIN windows /\ Fresh(now, windows[p].start)
          /\ ~Refuses(windows[p])
          /\ rates' = SetWindow(windows, p, [windows[p] EXCEPT !.count = @ + 1])
          /\ Allow(p)
    /\ lastCleanup' = IF Due(now) THEN <<now>> ELSE lastCleanup
    /\ UNCHANGED clock

Next == Tick \/ \E p \in Principals, now \in clock - MaxDelay .. clock :
                    allowPrincipalRequest(p, now)

Spec == Init /\ [][Next]_vars

-----------------------------------------------------------------------------
(* Properties *)

\* Fixed windows let through at most twice the rate in any span of a minute less
\* the delay, even when another principal's request cleans the window away and a
\* late clock value opens the next one early.
BurstBound == \A p \in Principals : Cardinality(allowed[p]) <= 2 * MaxRate
=============================================================================
