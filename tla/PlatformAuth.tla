---------------------------- MODULE PlatformAuth ----------------------------
(***************************************************************************)
(* Signed platform requests: requireAuth with a signing secret, the slots  *)
(* for hashing bodies, and platformReplayCache.                            *)
(*                                                                         *)
(* A caller's signature names a principal, a nonce and a timestamp.  The   *)
(* timestamp is compared with the clock twice, before and after the body   *)
(* is read; the clock value of the second comparison is handed to admit,   *)
(* which takes the cache's lock some time later.  So admit may run with    *)
(* values of `now' that are out of order.                                  *)
(***************************************************************************)
EXTENDS Integers, FiniteSets, Functions

CONSTANTS Callers,               \* requests under way at the same time
          Principals, Nonces,
          Skew,                  \* platformPrincipalSignatureSkew
          MaxHashing,            \* cap of platformBodyHashSlots
          MaxPrincipals,         \* maxPlatformReplayPrincipals
          MaxEntries,            \* maxPlatformReplayEntries
          MaxPrincipalEntries,   \* maxPlatformReplayEntriesPrincipal
          MaxTime                \* bound: the clock stops here

\* What the constants of platform_replay.go satisfy.
AuthAssumption ==
    /\ Skew \in Nat /\ MaxTime \in Nat
    /\ MaxEntries \in Nat /\ MaxPrincipals \in Nat /\ MaxPrincipalEntries \in Nat \ {0}

VARIABLES clock,
          entries,   \* principal -> nonce -> expiry
          total,     \* the cache's own count of its entries
          hashing,   \* callers with a body hash slot
          pc,        \* where each caller stands
          signed,    \* what each caller's signature says
          verifiedAt,
          admitted   \* ghost: the latest expiry a nonce was admitted with, or 0

vars == <<clock, entries, total, hashing, pc, signed, verifiedAt, admitted>>

Signatures == [principal : Principals, nonce : Nonces, timestamp : 0 .. MaxTime]
Unsigned == [principal |-> "none", nonce |-> "none", timestamp |-> 0]

Init ==
    /\ clock = 0 /\ entries = [p \in {} |-> {}] /\ total = 0
    /\ hashing = {} /\ admitted = [g \in Principals \X Nonces |-> 0]
    /\ pc = [c \in Callers |-> "idle"]
    /\ signed = [c \in Callers |-> Unsigned]
    /\ verifiedAt = [c \in Callers |-> 0]

Tick ==
    /\ clock < MaxTime /\ clock' = clock + 1
    /\ UNCHANGED <<entries, total, hashing, pc, signed, verifiedAt, admitted>>

Go(c, from, to) == pc[c] = from /\ pc' = [pc EXCEPT ![c] = to]

\* A request that has been answered leaves nothing of its own behind.
Forget(c) == signed' = [signed EXCEPT ![c] = Unsigned]

InWindow(t) == clock - t <= Skew /\ t - clock <= Skew

\* A well-formed signature in its window gets a slot for hashing the body, or
\* is refused if all are taken.  One that is malformed or out of its window is
\* refused without a trace.
AcquireHashSlot(c) ==
    /\ Go(c, "idle", "hash")
    /\ \E s \in Signatures : InWindow(s.timestamp) /\ signed' = [signed EXCEPT ![c] = s]
    /\ Cardinality(hashing) < MaxHashing /\ hashing' = hashing \cup {c}
    /\ UNCHANGED <<clock, entries, total, verifiedAt, admitted>>

\* The body was read, or could not be.
HashBody(c) ==
    /\ \/ Go(c, "hash", "verify") /\ UNCHANGED signed
       \/ Go(c, "hash", "idle") /\ Forget(c)
    /\ hashing' = hashing \ {c}
    /\ UNCHANGED <<clock, entries, total, verifiedAt, admitted>>

\* verifyPlatformPrincipalSignature, with a clock value of its own.
Verify(c) ==
    /\ \/ /\ Go(c, "verify", "admit") /\ InWindow(signed[c].timestamp)
          /\ verifiedAt' = [verifiedAt EXCEPT ![c] = clock]
          /\ UNCHANGED signed
       \/ Go(c, "verify", "idle") /\ Forget(c) /\ UNCHANGED verifiedAt
    /\ UNCHANGED <<clock, entries, total, hashing, admitted>>

-----------------------------------------------------------------------------
(* platformReplayCache.admit *)

EntriesOf(cache) == UNION {{<<p, n>> : n \in DOMAIN cache[p]} : p \in DOMAIN cache}

\* Mutant: an entry goes one tick before its expiry.
Live_Early(bucket, now) == Restrict(bucket, {n \in DOMAIN bucket : bucket[n] > now + 1})

Live(bucket, now) == Restrict(bucket, {n \in DOMAIN bucket : bucket[n] > now})

\* Drop what has expired from the buckets of ps, and the buckets that are then
\* empty.
Prune(cache, ps, now) ==
    [p \in {q \in DOMAIN cache : q \in ps => DOMAIN Live(cache[q], now) # {}} |->
        IF p \in ps THEN Live(cache[p], now) ELSE cache[p]]

\* Is the cache full for a principal, which may not have a bucket yet?
Crowded(cache, count, p) ==
    count >= MaxEntries \/ (p \notin DOMAIN cache /\ Cardinality(DOMAIN cache) >= MaxPrincipals)

\* Mutant: the sweep is forgotten, so entries of idle principals are in the way.
Swept_OwnOnly(p, now) == Prune(entries, {p}, now)

\* The cache when the limits are compared: the principal's own bucket is pruned
\* always, everybody's only if the cache seems full.
Swept(p, now) ==
    LET own   == Prune(entries, {p}, now)
        count == total - (Cardinality(EntriesOf(entries)) - Cardinality(EntriesOf(own)))
    IN  IF Crowded(own, count, p) THEN Prune(own, DOMAIN own, now) ELSE own

Count(p, now) == total - Cardinality(EntriesOf(entries)) + Cardinality(EntriesOf(Swept(p, now)))

Known(p, n, now) == p \in DOMAIN entries /\ n \in DOMAIN Live(entries[p], now)

Full(p, now) ==
    LET cache == Swept(p, now) IN
    \/ Crowded(cache, Count(p, now), p)
    \/ p \in DOMAIN cache /\ Cardinality(DOMAIN cache[p]) >= MaxPrincipalEntries

Put(cache, p, n, expiry) ==
    LET bucket == IF p \in DOMAIN cache THEN cache[p] ELSE [x \in {} |-> 0]
        grown  == [m \in DOMAIN bucket \cup {n} |-> IF m = n THEN expiry ELSE bucket[m]]
    IN  [q \in DOMAIN cache \cup {p} |-> IF q = p THEN grown ELSE cache[q]]

\* A duplicate is found right after the principal's own bucket is pruned.
AdmitDuplicate(c, p, n, now) ==
    /\ Known(p, n, now)
    /\ entries' = Prune(entries, {p}, now)
    /\ total' = total - Cardinality(EntriesOf(entries)) + Cardinality(EntriesOf(entries'))
    /\ UNCHANGED admitted

AdmitCapacity(c, p, n, now) ==
    /\ ~Known(p, n, now) /\ Full(p, now)
    /\ entries' = Swept(p, now) /\ total' = Count(p, now)
    /\ UNCHANGED admitted

AdmitAccepted(c, p, n, now) ==
    LET expiry == signed[c].timestamp + Skew IN
    /\ ~Known(p, n, now) /\ ~Full(p, now)
    /\ entries' = Put(Swept(p, now), p, n, expiry)
    /\ total' = Count(p, now) + 1
    /\ admitted' = [admitted EXCEPT ![<<p, n>>] = IF expiry > @ THEN expiry ELSE @]

admit(c) ==
    LET p == signed[c].principal
        n == signed[c].nonce
    IN  /\ Go(c, "admit", "idle")
        /\ \/ AdmitDuplicate(c, p, n, verifiedAt[c])
           \/ AdmitCapacity(c, p, n, verifiedAt[c])
           \/ AdmitAccepted(c, p, n, verifiedAt[c])
        /\ Forget(c) /\ verifiedAt' = [verifiedAt EXCEPT ![c] = 0]
        /\ UNCHANGED <<clock, hashing>>

Next == Tick \/ \E c \in Callers : \/ AcquireHashSlot(c) \/ HashBody(c)
                                   \/ Verify(c) \/ admit(c)

Spec == Init /\ [][Next]_vars

-----------------------------------------------------------------------------
(* Properties *)

\* The cache's own count, which is kept by increments and decrements in three
\* places, is the number of entries; every limit holds; and no principal whose
\* entries are gone keeps a bucket.
CacheConsistent ==
    /\ total = Cardinality(EntriesOf(entries))
    /\ total <= MaxEntries
    /\ Cardinality(DOMAIN entries) <= MaxPrincipals
    /\ \A p \in DOMAIN entries : Cardinality(DOMAIN entries[p]) \in 1 .. MaxPrincipalEntries

\* A nonce that was admitted is not admitted again while the clock is before its
\* expiry, although callers with older and newer clock values prune and sweep.
AdmitsOnce ==
    \A c \in Callers :
       LET p == signed[c].principal
           n == signed[c].nonce
       IN  pc[c] = "admit" /\ pc'[c] = "idle" /\ AdmitAccepted(c, p, n, verifiedAt[c])
               => clock >= admitted[<<p, n>>]

NoReuseBeforeExpiry == [][AdmitsOnce]_vars

\* A refusal for lack of capacity means that the limit is reached by entries that
\* are live at the time the caller was verified; expired ones are never in the way.
RefusesForLive ==
    \A c \in Callers :
       LET p    == signed[c].principal
           now  == verifiedAt[c]
           live == Prune(entries, DOMAIN entries, now)
       IN  pc[c] = "admit" /\ pc'[c] = "idle" /\ AdmitCapacity(c, p, signed[c].nonce, now)
               => \/ Cardinality(EntriesOf(live)) >= MaxEntries
                  \/ p \notin DOMAIN live /\ Cardinality(DOMAIN live) >= MaxPrincipals
                  \/ p \in DOMAIN live /\ Cardinality(DOMAIN live[p]) >= MaxPrincipalEntries

RefusedOnlyWhenLive == [][RefusesForLive]_vars
=============================================================================
