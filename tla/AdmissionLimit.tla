--------------------------- MODULE AdmissionLimit ---------------------------
(***************************************************************************)
(* acquireUpload and acquireStream of internal/api: a global atomic        *)
(* counter that is incremented before it is compared, then a count per     *)
(* principal under principalMu.  Each atomic operation and each critical   *)
(* section is one action, so a caller that is about to be refused is seen  *)
(* by the others in between.                                               *)
(***************************************************************************)
EXTENDS Integers, FiniteSets, Functions

CONSTANTS Callers, Principals, PrincipalOf,
          MaxActive,      \* the global limit, off when <= 0
          MaxPrincipal    \* the limit per principal, off when <= 0

ASSUME LimitAssumption == MaxActive \in Int /\ MaxPrincipal \in Int
ASSUME PrincipalAssumption == PrincipalOf \in [Callers -> Principals]

VARIABLES active,         \* Server.uploads or Server.streams
          perPrincipal,   \* the map; a principal without entry counts 0
          pc              \* where each caller stands

vars == <<active, perPrincipal, pc>>

Steps == {"outside", "counted", "refused", "inside", "leaving"}

Init ==
    /\ active = 0
    /\ perPrincipal = [p \in {} |-> 0]
    /\ pc = [c \in Callers |-> "outside"]

Count(p) == IF p \in DOMAIN perPrincipal THEN perPrincipal[p] ELSE 0

SetCount(p, n) ==
    [q \in DOMAIN perPrincipal \cup {p} |-> IF q = p THEN n ELSE perPrincipal[q]]

Go(c, from, to) == pc[c] = from /\ pc' = [pc EXCEPT ![c] = to]

AfterGlobal == IF MaxPrincipal > 0 THEN "counted" ELSE "inside"

\* Mutant: the counter is compared before it is incremented.
AcquireGlobal_LateCompare(c) ==
    /\ Go(c, "outside", IF MaxActive > 0 /\ active > MaxActive
                        THEN "refused" ELSE AfterGlobal)
    /\ active' = IF MaxActive > 0 THEN active + 1 ELSE active
    /\ UNCHANGED perPrincipal

AcquireGlobal(c) ==
    /\ Go(c, "outside", IF MaxActive > 0 /\ active + 1 > MaxActive
                        THEN "refused" ELSE AfterGlobal)
    /\ active' = IF MaxActive > 0 THEN active + 1 ELSE active
    /\ UNCHANGED perPrincipal

AcquirePrincipal(c) ==
    LET p == PrincipalOf[c] IN
    /\ Go(c, "counted", IF Count(p) >= MaxPrincipal THEN "refused" ELSE "inside")
    /\ perPrincipal' = IF Count(p) >= MaxPrincipal THEN perPrincipal
                       ELSE SetCount(p, Count(p) + 1)
    /\ UNCHANGED active

\* The refused caller takes its increment back.
UndoGlobal(c) ==
    /\ Go(c, "refused", "outside")
    /\ active' = IF MaxActive > 0 THEN active - 1 ELSE active
    /\ UNCHANGED perPrincipal

ReleaseGlobal(c) ==
    /\ Go(c, "inside", IF MaxPrincipal > 0 THEN "leaving" ELSE "outside")
    /\ active' = IF MaxActive > 0 THEN active - 1 ELSE active
    /\ UNCHANGED perPrincipal

ReleasePrincipal(c) ==
    LET p == PrincipalOf[c] IN
    /\ Go(c, "leaving", "outside")
    /\ perPrincipal' = IF Count(p) <= 1
                       THEN Restrict(perPrincipal, DOMAIN perPrincipal \ {p})
                       ELSE SetCount(p, Count(p) - 1)
    /\ UNCHANGED active

Next == \E c \in Callers :
            \/ AcquireGlobal(c) \/ AcquirePrincipal(c) \/ UndoGlobal(c)
            \/ ReleaseGlobal(c) \/ ReleasePrincipal(c)

Spec == Init /\ [][Next]_vars

-----------------------------------------------------------------------------
(* Properties *)

At(steps) == {c \in Callers : pc[c] \in steps}

\* The global counter counts the callers that hold or tried to take a place, so
\* whichever way an attempt ends its increment is taken back exactly once; and the
\* map has an entry exactly for the principals that hold places, with their
\* number, so it does not grow with every principal ever seen.
CountsExact ==
    /\ active = IF MaxActive > 0
                THEN Cardinality(At({"counted", "refused", "inside"})) ELSE 0
    /\ \A p \in Principals :
          LET mine == {c \in At({"inside", "leaving"}) : PrincipalOf[c] = p}
          IN  IF MaxPrincipal > 0 /\ mine # {}
              THEN p \in DOMAIN perPrincipal /\ perPrincipal[p] = Cardinality(mine)
              ELSE p \notin DOMAIN perPrincipal

\* Whatever is refused or undone meanwhile, the callers inside respect both
\* limits, and nothing they or the refused ones counted is left behind: the
\* limiter implements the abstract admission pool with exact counters.
Pool == INSTANCE AdmissionPool WITH
            Capacity <- MaxActive, Share <- MaxPrincipal, holders <- At({"inside"})

ImplementsAdmissionPool == Pool!Spec /\ []CountsExact
=============================================================================
