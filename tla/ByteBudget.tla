----------------------------- MODULE ByteBudget -----------------------------
(***************************************************************************)
(* The retained-request byte budget of internal/api: requestByteBudget and *)
(* requestByteReservation.  Each operator is one critical section of the   *)
(* budget's mutex; a caller finds out from Fits... whether it succeeds.    *)
(***************************************************************************)
EXTENDS Integers, FiniteSets

CONSTANTS Holders,   \* the requests that may hold a reservation
          Limit      \* requestByteBudget.limit

VARIABLES used,      \* requestByteBudget.used
          held       \* requestByteReservation.held, of each request

Init == used = 0 /\ held = [r \in Holders |-> 0]

FitsResize(r, n) == n >= 0 /\ n - held[r] <= Limit - used

\* resize(n) when it succeeds; when it does not, nothing changes.
resize(r, n) ==
    /\ FitsResize(r, n)
    /\ used' = used + (n - held[r])
    /\ held' = [held EXCEPT ![r] = n]

FitsReserve(maximum) == maximum >= 0 /\ maximum <= Limit - used

\* reservePayloadBytes when it succeeds.
reserve(r, maximum) ==
    /\ FitsReserve(maximum)
    /\ used' = used + maximum
    /\ held' = [held EXCEPT ![r] = @ + maximum]

\* Mutant: the whole reservation is taken off, though some of it is retained.
settle_DropsActual(r, maximum, actual) ==
    /\ used' = used - maximum
    /\ held' = [held EXCEPT ![r] = @ - (maximum - actual)]

\* The function reservePayloadBytes returns: the download retained `actual`.
settle(r, maximum, actual) ==
    /\ used' = used - (maximum - actual)
    /\ held' = [held EXCEPT ![r] = @ - (maximum - actual)]

\* The bytes that are held, each as a pair of its holder and a number.
Reserved == UNION {{r} \X (1 .. held[r]) : r \in Holders}

\* The budget accounts for exactly what the requests hold, within its limit.
BudgetBalanced == used = Cardinality(Reserved) /\ used <= Limit
=============================================================================
