----------------------------- MODULE MCIngress -----------------------------
(***************************************************************************)
(* What a request meets before its body is decoded: the replay cache, the  *)
(* rate limit and the admission limits.  They share no state, so a         *)
(* behaviour of all three is an interleaving of one of each, and it is     *)
(* enough to look at behaviours in which one of them, the focus, moves.    *)
(***************************************************************************)
EXTENDS AdmissionLimit, TLC

CONSTANTS a1, a2, a3, b1, b2, pa, pb,
          AuthCallers, AuthPrincipals, Nonces, Skew, MaxHashing, MaxPrincipals,
          MaxEntries, MaxPrincipalEntries, AuthTime,
          RatePrincipals, MaxRate, Minute, MaxDelay, RateTime

VARIABLES focus,
          authClock, entries, total, hashing, authStep, signed, verifiedAt, admitted,
          rateClock, rates, lastCleanup, allowed

authVars == <<authClock, entries, total, hashing, authStep, signed, verifiedAt, admitted>>
rateVars == <<rateClock, rates, lastCleanup, allowed>>

MCCallers     == {a1, a2, a3, b1, b2}
MCPrincipals  == {pa, pb}
MCPrincipalOf == (a1 :> pa) @@ (a2 :> pa) @@ (a3 :> pa) @@ (b1 :> pb) @@ (b2 :> pb)

Auth == INSTANCE PlatformAuth WITH
            Callers <- AuthCallers, Principals <- AuthPrincipals, MaxTime <- AuthTime,
            clock <- authClock, pc <- authStep

Rate == INSTANCE RateLimiter WITH
            Principals <- RatePrincipals, MaxTime <- RateTime, clock <- rateClock

ASSUME AuthAssumption == Auth!AuthAssumption
ASSUME RateAssumption == Rate!RateAssumption

\* Callers, principals and nonces of the replay cache are each interchangeable.
Symmetric ==
    Permutations(AuthCallers) \cup Permutations(AuthPrincipals) \cup Permutations(Nonces)

MCInit ==
    /\ focus \in {"auth", "rate", "admission"}
    /\ Auth!Init /\ Rate!Init /\ Init

MCNext ==
    \/ focus = "auth" /\ Auth!Next /\ UNCHANGED <<focus, rateVars, vars>>
    \/ focus = "rate" /\ Rate!Next /\ UNCHANGED <<focus, authVars, vars>>
    \/ focus = "admission" /\ Next /\ UNCHANGED <<focus, authVars, rateVars>>

MCSpec == MCInit /\ [][MCNext]_<<focus, vars, authVars, rateVars>>

\* The properties of the two instances: a nonce of a signed request is accepted
\* once while it is live, the replay cache refuses only for live entries, and a
\* principal's requests in a window are bounded.
NoReuseBeforeExpiry == Auth!NoReuseBeforeExpiry
RefusedOnlyWhenLive == Auth!RefusedOnlyWhenLive
BurstBound == Rate!BurstBound
=============================================================================
