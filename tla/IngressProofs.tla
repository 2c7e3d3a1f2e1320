--------------------------- MODULE IngressProofs ---------------------------
(***************************************************************************)
(* Proofs about what a request meets before its body is decoded, for any   *)
(* number of callers, principals and nonces and for all limits.            *)
(***************************************************************************)
EXTENDS MCIngress, FiniteSetTheorems, TLAPS

-----------------------------------------------------------------------------
(* The admission limits *)

Mine(p) == {c \in At({"inside", "leaving"}) : PrincipalOf[c] = p}

GlobalExact ==
    active = IF MaxActive > 0 THEN Cardinality(At({"counted", "refused", "inside"})) ELSE 0

MapExact ==
    \A p \in Principals :
       IF MaxPrincipal > 0 /\ Mine(p) # {}
       THEN p \in DOMAIN perPrincipal /\ perPrincipal[p] = Cardinality(Mine(p))
       ELSE p \notin DOMAIN perPrincipal

\* Finitely many callers are under way.
PcOK == pc \in [Callers -> Steps] /\ IsFiniteSet({c \in Callers : pc[c] # "outside"})

\* Nobody counts for a principal while that limit is off, and callers that passed
\* the global limit, inside or not, respect it.
Passed ==
    /\ MaxPrincipal <= 0 => At({"counted", "leaving"}) = {}
    /\ MaxActive > 0 => Cardinality(At({"counted", "inside"})) <= MaxActive

PoolInv == PcOK /\ Passed /\ GlobalExact /\ MapExact

\* The instances count as this module does.
LEMMA PoolCounts == \A S : Pool!Cardinality(S) = Cardinality(S)
  BY DEF Pool!Cardinality, Cardinality

LEMMA AuthCounts == \A S : Auth!Cardinality(S) = Cardinality(S)
  BY DEF Auth!Cardinality, Cardinality

LEMMA RateCounts == \A S : Rate!Cardinality(S) = Cardinality(S)
  BY DEF Rate!Cardinality, Cardinality

\* The two halves of CountsExact.
LEMMA Exact == CountsExact <=> GlobalExact /\ MapExact
  BY DEF CountsExact, GlobalExact, MapExact, Mine

\* A caller that moves is the only one that enters or leaves a set of steps.
LEMMA Movement ==
    ASSUME NEW c \in Callers, NEW from \in Steps, NEW to \in Steps, PcOK, Go(c, from, to)
    PROVE  PcOK'
  <1> DEFINE Busy == {k \in Callers : pc[k] # "outside"}
  <1>1. pc' = [pc EXCEPT ![c] = to] /\ pc' \in [Callers -> Steps] /\ pc[c] = from
    BY DEF Go, PcOK
  <1>2. Busy' \in SUBSET (Busy \cup {c})
    BY <1>1 DEF PcOK
  <1>3. IsFiniteSet(Busy \cup {c})
    BY FS_AddElement DEF PcOK
  <1>4. IsFiniteSet(Busy')
    BY <1>2, <1>3, FS_Subset
  <1> QED
    BY <1>1, <1>4 DEF PcOK

LEMMA AtMoves ==
    ASSUME NEW c \in Callers, NEW from \in Steps, NEW to \in Steps, PcOK, Go(c, from, to),
           NEW S \in SUBSET Steps
    PROVE  /\ At(S)' = IF to \in S THEN At(S) \cup {c} ELSE At(S) \ {c}
           /\ c \in At(S) <=> from \in S
  BY DEF At, PcOK, Go

\* The callers at steps under way are finitely many.
LEMMA AtFinite ==
    ASSUME PcOK, NEW S \in SUBSET (Steps \ {"outside"})
    PROVE  IsFiniteSet(At(S)) /\ Cardinality(At(S)) \in Nat
  <1>1. At(S) \in SUBSET {k \in Callers : pc[k] # "outside"}
    BY DEF At
  <1> QED
    BY <1>1, FS_Subset, FS_CardinalityType DEF PcOK

\* The holders of a principal's places change with its own moves only.
LEMMA MineMoves ==
    ASSUME NEW c \in Callers, NEW from \in Steps, NEW to \in Steps, PcOK, Go(c, from, to),
           NEW p \in Principals
    PROVE  /\ IsFiniteSet(Mine(p)) /\ Cardinality(Mine(p)) \in Nat
           /\ Mine(p)' = IF to \in {"inside", "leaving"} /\ PrincipalOf[c] = p
                         THEN Mine(p) \cup {c} ELSE Mine(p) \ {c}
           /\ c \in Mine(p) <=> from \in {"inside", "leaving"} /\ PrincipalOf[c] = p
  <1> DEFINE S == {"inside", "leaving"}
  <1>1. S \in SUBSET Steps /\ S \in SUBSET (Steps \ {"outside"})
    BY DEF Steps
  <1>2. /\ At(S)' = IF to \in S THEN At(S) \cup {c} ELSE At(S) \ {c}
        /\ c \in At(S) <=> from \in S
        /\ IsFiniteSet(At(S))
    BY <1>1, AtFinite DEF At, Go, PcOK
  <1>3. Mine(p) \in SUBSET At(S)
    BY DEF Mine
  <1>4. IsFiniteSet(Mine(p)) /\ Cardinality(Mine(p)) \in Nat
    BY <1>2, <1>3, FS_Subset, FS_CardinalityType
  <1> QED
    BY <1>2, <1>4 DEF Mine

\* The step of a caller as the pool sees it.
PoolStep(c) == Pool!Enter(c) \/ Pool!Leave(c) \/ At({"inside"})' = At({"inside"})

\* A caller passes the global limit, or is about to be refused.
LEMMA AcquireGlobalKeeps ==
    ASSUME NEW c \in Callers, PoolInv, AcquireGlobal(c)
    PROVE  PoolInv' /\ PoolStep(c)
  <1> DEFINE Counted == At({"counted", "refused", "inside"})
             Through == At({"counted", "inside"})
  <1> PICK to \in Steps :
           to = IF MaxActive > 0 /\ active + 1 > MaxActive THEN "refused" ELSE AfterGlobal
    BY DEF AfterGlobal, Steps
  <1>1. /\ Go(c, "outside", to) /\ UNCHANGED perPrincipal
        /\ active' = IF MaxActive > 0 THEN active + 1 ELSE active
    BY DEF AcquireGlobal
  <1>2. /\ to \in Steps /\ "outside" \in Steps
        /\ to \in {"counted", "refused", "inside"}
        /\ to = "counted" => MaxPrincipal > 0
        /\ to = "inside" => ~(MaxPrincipal > 0)
        /\ MaxActive > 0 /\ to # "refused" => active + 1 <= MaxActive
    <2>1. active \in Int
      <3>1. {"counted", "refused", "inside"} \in SUBSET (Steps \ {"outside"})
        BY DEF Steps
      <3> QED
        BY <3>1, AtFinite DEF PoolInv, GlobalExact
    <2> QED
      BY <2>1, LimitAssumption DEF AfterGlobal, Steps
  <1>3. PcOK'
    BY <1>1, <1>2, Movement DEF PoolInv
  <1>4. /\ Counted' = Counted \cup {c} /\ c \notin Counted
        /\ IsFiniteSet(Counted) /\ Cardinality(Counted) \in Nat
    <2>1. {"counted", "refused", "inside"} \in SUBSET (Steps \ {"outside"})
      BY DEF Steps
    <2> QED
      BY <1>1, <1>2, <2>1, AtMoves, AtFinite DEF PoolInv
  <1>5. GlobalExact'
    <2>1. Cardinality(Counted') = Cardinality(Counted) + 1
      BY <1>4, FS_AddElement
    <2> QED
      BY <1>1, <2>1 DEF PoolInv, GlobalExact
  <1>6. MapExact'
    <2> SUFFICES ASSUME NEW p \in Principals
                 PROVE  (IF MaxPrincipal > 0 /\ Mine(p) # {}
                         THEN p \in DOMAIN perPrincipal /\ perPrincipal[p] = Cardinality(Mine(p))
                         ELSE p \notin DOMAIN perPrincipal)'
      BY DEF MapExact
    <2>1. MaxPrincipal > 0 => Mine(p)' = Mine(p)
      BY <1>1, <1>2, MineMoves DEF PoolInv
    <2> QED
      BY <1>1, <2>1 DEF PoolInv, MapExact
  <1>7. Passed'
    <2>1. {"counted", "leaving"} \in SUBSET Steps /\ {"counted", "inside"} \in SUBSET Steps
      BY DEF Steps
    <2>2. MaxPrincipal <= 0 => At({"counted", "leaving"})' = {}
      <3>1. MaxPrincipal <= 0 => to \notin {"counted", "leaving"}
        BY <1>2, LimitAssumption
      <3> QED
        BY <1>1, <1>2, <2>1, <3>1, AtMoves DEF PoolInv, Passed
    <2>3. /\ Through' = IF to \in {"counted", "inside"} THEN Through \cup {c} ELSE Through \ {c}
          /\ c \notin Through
      BY <1>1, <1>2 DEF PoolInv, At, Go, PcOK
    <2>4. Through \in SUBSET Counted
      BY DEF At
    <2>5. /\ IsFiniteSet(Through) /\ Cardinality(Through) \in Nat
          /\ Cardinality(Through) <= Cardinality(Counted)
      BY <1>4, <2>4, FS_Subset, FS_CardinalityType
    <2>6. MaxActive > 0 => Cardinality(Through') <= MaxActive
      <3>1. CASE to = "refused"
        <4>1. Through' = Through
          BY <2>3, <3>1
        <4> QED
          BY <4>1 DEF PoolInv, Passed
      <3>2. CASE to # "refused"
        <4>1. Through' = Through \cup {c}
          BY <1>2, <2>3, <3>2
        <4>2. Cardinality(Through') = Cardinality(Through) + 1
          BY <2>3, <2>5, <4>1, FS_AddElement
        <4>3. MaxActive > 0 => active = Cardinality(Counted)
          BY DEF PoolInv, GlobalExact
        <4> QED
          BY <1>2, <1>4, <2>5, <3>2, <4>2, <4>3, LimitAssumption
      <3> QED
        BY <3>1, <3>2
    <2> QED
      BY <2>2, <2>6 DEF Passed
  <1>8. PoolStep(c)
    <2>1. {"inside"} \in SUBSET Steps
      BY DEF Steps
    <2>2. /\ At({"inside"})' = IF to = "inside" THEN At({"inside"}) \cup {c}
                              ELSE At({"inside"}) \ {c}
          /\ c \notin At({"inside"})
      BY <1>1, <1>2 DEF PoolInv, At, Go, PcOK
    <2>3. CASE to = "inside"
      <3>1. At({"inside"}) \in SUBSET Counted
        BY DEF At
      <3>2. Cardinality(At({"inside"})) \in Nat /\ Cardinality(At({"inside"})) <= Cardinality(Counted)
        BY <1>4, <3>1, FS_Subset, FS_CardinalityType
      <3>3. MaxActive > 0 => active = Cardinality(Counted)
        BY DEF PoolInv, GlobalExact
      <3>4. MaxActive > 0 => Cardinality(At({"inside"})) < MaxActive
        BY <1>2, <1>4, <2>3, <3>2, <3>3, LimitAssumption
      <3>5. /\ c \notin At({"inside"}) /\ At({"inside"})' = At({"inside"}) \cup {c}
            /\ ~(MaxPrincipal > 0)
        BY <1>2, <2>2, <2>3
      <3>6. Pool!CanEnter(c)
        BY <3>4, <3>5, PoolCounts DEF Pool!CanEnter
      <3>7. Pool!Enter(c)
        BY <3>5, <3>6 DEF Pool!Enter
      <3> QED
        BY <3>7 DEF PoolStep
    <2>4. CASE to # "inside"
      BY <2>2, <2>4 DEF PoolStep
    <2> QED
      BY <2>3, <2>4
  <1> QED
    BY <1>3, <1>5, <1>6, <1>7, <1>8 DEF PoolInv

\* A caller takes a place of its principal, or is about to be refused.
LEMMA AcquirePrincipalKeeps ==
    ASSUME NEW c \in Callers, PoolInv, AcquirePrincipal(c)
    PROVE  PoolInv' /\ PoolStep(c)
  <1> DEFINE Counted == At({"counted", "refused", "inside"})
             Through == At({"counted", "inside"})
             own == PrincipalOf[c]
  <1> PICK to \in Steps : to = IF Count(own) >= MaxPrincipal THEN "refused" ELSE "inside"
    BY DEF Steps
  <1>1. /\ Go(c, "counted", to) /\ UNCHANGED active
        /\ perPrincipal' = IF Count(own) >= MaxPrincipal THEN perPrincipal
                           ELSE SetCount(own, Count(own) + 1)
    BY DEF AcquirePrincipal
  <1>2. /\ "counted" \in Steps /\ to \in {"refused", "inside"} /\ own \in Principals
        /\ pc[c] = "counted" /\ MaxPrincipal > 0
    <2>1. pc[c] = "counted" /\ c \in At({"counted", "leaving"})
      BY <1>1 DEF Go, At
    <2> QED
      BY <2>1, LimitAssumption, PrincipalAssumption DEF PoolInv, Passed, Steps
  <1>3. PcOK'
    BY <1>1, <1>2, Movement DEF PoolInv
  <1>4. GlobalExact'
    <2>1. Counted' = Counted
      BY <1>1, <1>2 DEF PoolInv, At, Go, PcOK
    <2> QED
      BY <1>1, <2>1 DEF PoolInv, GlobalExact
  <1>5. Count(own) = Cardinality(Mine(own)) /\ Count(own) \in Nat /\ IsFiniteSet(Mine(own))
    <2>1. IsFiniteSet(Mine(own)) /\ Cardinality(Mine(own)) \in Nat
      BY <1>1, <1>2, MineMoves DEF PoolInv
    <2>2. Mine(own) = {} => Cardinality(Mine(own)) = 0
      BY FS_EmptySet
    <2> QED
      BY <1>2, <2>1, <2>2 DEF PoolInv, MapExact, Count
  <1>6. MapExact'
    <2> SUFFICES ASSUME NEW p \in Principals
                 PROVE  (IF MaxPrincipal > 0 /\ Mine(p) # {}
                         THEN p \in DOMAIN perPrincipal /\ perPrincipal[p] = Cardinality(Mine(p))
                         ELSE p \notin DOMAIN perPrincipal)'
      BY DEF MapExact
    <2>1. /\ Mine(p)' = IF to \in {"inside", "leaving"} /\ own = p
                        THEN Mine(p) \cup {c} ELSE Mine(p) \ {c}
          /\ c \notin Mine(p)
      BY <1>1, <1>2, MineMoves DEF PoolInv
    <2>2. CASE p = own /\ to = "inside"
      <3>1. Mine(p)' = Mine(p) \cup {c}
        BY <2>1, <2>2
      <3>2. Cardinality(Mine(p)') = Cardinality(Mine(p)) + 1
        BY <1>5, <2>1, <2>2, <3>1, FS_AddElement
      <3>3. perPrincipal' = SetCount(own, Count(own) + 1)
        BY <1>1, <2>2
      <3> QED
        BY <1>2, <1>5, <2>2, <3>1, <3>2, <3>3 DEF SetCount
    <2>3. CASE ~(p = own /\ to = "inside")
      <3>1. Mine(p)' = Mine(p)
        BY <1>2, <2>1, <2>3
      <3>2. /\ p \in DOMAIN perPrincipal' <=> p \in DOMAIN perPrincipal
            /\ p \in DOMAIN perPrincipal => perPrincipal'[p] = perPrincipal[p]
        BY <1>1, <2>3 DEF SetCount
      <3> QED
        BY <3>1, <3>2 DEF PoolInv, MapExact
    <2> QED
      BY <2>2, <2>3
  <1>7. /\ Through' \in SUBSET Through /\ At({"inside"}) \in SUBSET (Through \ {c})
        /\ c \in Through /\ At({"counted", "leaving"})' \in SUBSET At({"counted", "leaving"})
        /\ At({"inside"})' = IF to = "inside" THEN At({"inside"}) \cup {c} ELSE At({"inside"})
        /\ c \notin At({"inside"})
    BY <1>1, <1>2 DEF PoolInv, At, Go, PcOK
  <1>8. IsFiniteSet(Through) /\ Cardinality(Through) \in Nat
    <2>1. {"counted", "inside"} \in SUBSET (Steps \ {"outside"})
      BY DEF Steps
    <2> QED
      BY <2>1, AtFinite DEF PoolInv
  <1>9. Passed'
    <2>1. Cardinality(Through') <= Cardinality(Through) /\ Cardinality(Through') \in Nat
      BY <1>7, <1>8, FS_Subset, FS_CardinalityType
    <2> QED
      BY <1>2, <1>7, <1>8, <2>1, LimitAssumption DEF PoolInv, Passed
  <1>10. PoolStep(c)
    <2>1. CASE to = "inside"
      <3>1. /\ Cardinality(At({"inside"})) <= Cardinality(Through) - 1
            /\ Cardinality(At({"inside"})) \in Nat
        BY <1>7, <1>8, FS_RemoveElement, FS_Subset, FS_CardinalityType
      <3>2. MaxActive > 0 => Cardinality(At({"inside"})) < MaxActive
        BY <1>8, <3>1, LimitAssumption DEF PoolInv, Passed
      <3>3. Pool!SamePrincipal(c) \in SUBSET Mine(own)
        BY DEF Pool!SamePrincipal, Mine, At
      <3>4. /\ Cardinality(Pool!SamePrincipal(c)) <= Cardinality(Mine(own))
            /\ Cardinality(Pool!SamePrincipal(c)) \in Nat
        BY <1>5, <3>3, FS_Subset, FS_CardinalityType
      <3>5. Cardinality(Pool!SamePrincipal(c)) < MaxPrincipal
        BY <1>5, <2>1, <3>4, LimitAssumption
      <3>6. Pool!CanEnter(c)
        BY <1>7, <3>2, <3>5, PoolCounts DEF Pool!CanEnter
      <3>7. At({"inside"})' = At({"inside"}) \cup {c}
        BY <1>7, <2>1
      <3>8. Pool!Enter(c)
        BY <3>6, <3>7 DEF Pool!Enter
      <3> QED
        BY <3>8 DEF PoolStep
    <2>2. CASE to # "inside"
      BY <1>7, <2>2 DEF PoolStep
    <2> QED
      BY <2>1, <2>2
  <1> QED
    BY <1>3, <1>4, <1>6, <1>9, <1>10 DEF PoolInv

\* A refused caller takes its increment back.
LEMMA UndoGlobalKeeps ==
    ASSUME NEW c \in Callers, PoolInv, UndoGlobal(c)
    PROVE  PoolInv' /\ PoolStep(c)
  <1> DEFINE Counted == At({"counted", "refused", "inside"})
  <1>1. /\ Go(c, "refused", "outside") /\ UNCHANGED perPrincipal
        /\ active' = IF MaxActive > 0 THEN active - 1 ELSE active
    BY DEF UndoGlobal
  <1>2. "refused" \in Steps /\ "outside" \in Steps
    BY DEF Steps
  <1>3. PcOK'
    BY <1>1, <1>2, Movement DEF PoolInv
  <1>4. /\ Counted' = Counted \ {c} /\ c \in Counted
        /\ At({"counted", "leaving"})' = At({"counted", "leaving"})
        /\ At({"counted", "inside"})' = At({"counted", "inside"})
        /\ At({"inside"})' = At({"inside"})
        /\ At({"inside", "leaving"})' = At({"inside", "leaving"})
    BY <1>1, <1>2 DEF PoolInv, At, Go, PcOK
  <1>5. IsFiniteSet(Counted) /\ Cardinality(Counted) \in Nat
    <2>1. {"counted", "refused", "inside"} \in SUBSET (Steps \ {"outside"})
      BY DEF Steps
    <2> QED
      BY <2>1, AtFinite DEF PoolInv
  <1>6. GlobalExact'
    <2>1. Cardinality(Counted') = Cardinality(Counted) - 1
      BY <1>4, <1>5, FS_RemoveElement
    <2> QED
      BY <1>1, <2>1 DEF PoolInv, GlobalExact
  <1>7. MapExact'
    <2>1. \A p \in Principals : Mine(p)' = Mine(p)
      BY <1>4 DEF Mine
    <2> QED
      BY <1>1, <2>1 DEF PoolInv, MapExact
  <1> QED
    BY <1>3, <1>4, <1>6, <1>7 DEF PoolInv, Passed, PoolStep

\* A caller that is done gives its place back, first to the global counter.
LEMMA ReleaseGlobalKeeps ==
    ASSUME NEW c \in Callers, PoolInv, ReleaseGlobal(c)
    PROVE  PoolInv' /\ PoolStep(c)
  <1> DEFINE Counted == At({"counted", "refused", "inside"})
             Through == At({"counted", "inside"})
  <1> PICK to \in Steps : to = IF MaxPrincipal > 0 THEN "leaving" ELSE "outside"
    BY DEF Steps
  <1>1. /\ Go(c, "inside", to) /\ UNCHANGED perPrincipal
        /\ active' = IF MaxActive > 0 THEN active - 1 ELSE active
    BY DEF ReleaseGlobal
  <1>2. "inside" \in Steps /\ to \in {"leaving", "outside"}
    BY DEF Steps
  <1>3. PcOK'
    BY <1>1, <1>2, Movement DEF PoolInv
  <1>4. /\ Counted' = Counted \ {c} /\ c \in Counted
        /\ Through' \in SUBSET Through
        /\ At({"inside"})' = At({"inside"}) \ {c} /\ c \in At({"inside"})
    BY <1>1, <1>2 DEF PoolInv, At, Go, PcOK
  <1>5. /\ IsFiniteSet(Counted) /\ Cardinality(Counted) \in Nat
        /\ IsFiniteSet(Through) /\ Cardinality(Through) \in Nat
    <2>1. /\ {"counted", "refused", "inside"} \in SUBSET (Steps \ {"outside"})
          /\ {"counted", "inside"} \in SUBSET (Steps \ {"outside"})
      BY DEF Steps
    <2> QED
      BY <2>1, AtFinite DEF PoolInv
  <1>6. GlobalExact'
    <2>1. Cardinality(Counted') = Cardinality(Counted) - 1
      BY <1>4, <1>5, FS_RemoveElement
    <2> QED
      BY <1>1, <2>1 DEF PoolInv, GlobalExact
  <1>7. MapExact'
    <2>1. MaxPrincipal > 0 => \A p \in Principals : Mine(p)' = Mine(p)
      BY <1>1, <1>2 DEF PoolInv, Mine, At, Go, PcOK
    <2> QED
      BY <1>1, <2>1 DEF PoolInv, MapExact
  <1>8. Passed'
    <2>1. Cardinality(Through') <= Cardinality(Through) /\ Cardinality(Through') \in Nat
      BY <1>4, <1>5, FS_Subset, FS_CardinalityType
    <2>2. MaxPrincipal <= 0 => At({"counted", "leaving"})' \in SUBSET At({"counted", "leaving"})
      BY <1>1, <1>2, LimitAssumption DEF PoolInv, At, Go, PcOK
    <2> QED
      BY <1>5, <2>1, <2>2, LimitAssumption DEF PoolInv, Passed
  <1>9. PoolStep(c)
    BY <1>4 DEF PoolStep, Pool!Leave
  <1> QED
    BY <1>3, <1>6, <1>7, <1>8, <1>9 DEF PoolInv

\* Then to the count of its principal, whose entry goes with the last place.
LEMMA ReleasePrincipalKeeps ==
    ASSUME NEW c \in Callers, PoolInv, ReleasePrincipal(c)
    PROVE  PoolInv' /\ PoolStep(c)
  <1> DEFINE own == PrincipalOf[c]
             Left == Restrict(perPrincipal, DOMAIN perPrincipal \ {own})
  <1>1. /\ Go(c, "leaving", "outside") /\ UNCHANGED active
        /\ perPrincipal' = IF Count(own) <= 1 THEN Left ELSE SetCount(own, Count(own) - 1)
    BY DEF ReleasePrincipal
  <1>2. /\ "leaving" \in Steps /\ "outside" \in Steps /\ own \in Principals
        /\ pc[c] = "leaving" /\ MaxPrincipal > 0
    <2>1. pc[c] = "leaving" /\ c \in At({"counted", "leaving"})
      BY <1>1 DEF Go, At
    <2> QED
      BY <2>1, LimitAssumption, PrincipalAssumption DEF PoolInv, Passed, Steps
  <1>3. PcOK'
    BY <1>1, <1>2, Movement DEF PoolInv
  <1>4. /\ At({"counted", "refused", "inside"})' = At({"counted", "refused", "inside"})
        /\ At({"counted", "inside"})' = At({"counted", "inside"})
        /\ At({"inside"})' = At({"inside"})
    BY <1>1, <1>2 DEF PoolInv, At, Go, PcOK
  <1>5. /\ c \in Mine(own) /\ own \in DOMAIN perPrincipal
        /\ Count(own) = Cardinality(Mine(own)) /\ Count(own) \in Nat /\ IsFiniteSet(Mine(own))
    <2>1. IsFiniteSet(Mine(own)) /\ Cardinality(Mine(own)) \in Nat /\ c \in Mine(own)
      BY <1>1, <1>2, MineMoves DEF PoolInv
    <2> QED
      BY <1>2, <2>1 DEF PoolInv, MapExact, Count
  <1>6. /\ DOMAIN Left = DOMAIN perPrincipal \ {own}
        /\ \A p \in DOMAIN Left : Left[p] = perPrincipal[p]
    BY DEF Restrict
  <1>7. MapExact'
    <2> SUFFICES ASSUME NEW p \in Principals
                 PROVE  (IF MaxPrincipal > 0 /\ Mine(p) # {}
                         THEN p \in DOMAIN perPrincipal /\ perPrincipal[p] = Cardinality(Mine(p))
                         ELSE p \notin DOMAIN perPrincipal)'
      BY DEF MapExact
    <2>1. /\ Mine(p)' = Mine(p) \ {c}
          /\ c \in Mine(p) <=> own = p
      BY <1>1, <1>2, MineMoves DEF PoolInv
    <2>2. CASE p # own
      <3>1. Mine(p)' = Mine(p)
        BY <2>1, <2>2
      <3>2. /\ p \in DOMAIN perPrincipal' <=> p \in DOMAIN perPrincipal
            /\ p \in DOMAIN perPrincipal => perPrincipal'[p] = perPrincipal[p]
        BY <1>1, <1>6, <2>2 DEF SetCount
      <3> QED
        BY <3>1, <3>2 DEF PoolInv, MapExact
    <2>3. CASE p = own
      <3>1. Mine(p)' = Mine(p) \ {c}
        BY <2>1
      <3>2. /\ Cardinality(Mine(p)') = Count(own) - 1
            /\ IsFiniteSet(Mine(p)') /\ Cardinality(Mine(p)') \in Nat
        BY <1>5, <2>3, <3>1, FS_RemoveElement, FS_CardinalityType
      <3>3. Mine(p)' = {} <=> Cardinality(Mine(p)') = 0
        BY <3>2, FS_EmptySet
      <3>4. CASE Count(own) <= 1
        BY <1>1, <1>5, <1>6, <2>3, <3>2, <3>3, <3>4
      <3>5. CASE ~(Count(own) <= 1)
        BY <1>1, <1>2, <1>5, <2>3, <3>2, <3>3, <3>5 DEF SetCount
      <3> QED
        BY <3>4, <3>5
    <2> QED
      BY <2>2, <2>3
  <1>8. Passed'
    BY <1>2, <1>4, LimitAssumption DEF PoolInv, Passed
  <1> QED
    BY <1>1, <1>3, <1>4, <1>7, <1>8 DEF PoolInv, GlobalExact, PoolStep

LEMMA PoolInvInit == Init => PoolInv /\ Pool!Init
  <1> SUFFICES ASSUME Init PROVE PoolInv /\ Pool!Init
    OBVIOUS
  <1>2. /\ At({"counted", "refused", "inside"}) = {} /\ At({"counted", "leaving"}) = {}
        /\ At({"counted", "inside"}) = {} /\ At({"inside"}) = {}
        /\ At({"inside", "leaving"}) = {}
    BY DEF Init, At
  <1>3. PcOK
    <2>1. {c \in Callers : pc[c] # "outside"} = {} /\ pc \in [Callers -> Steps]
      BY DEF Init, Steps
    <2> QED
      BY <2>1, FS_EmptySet DEF PcOK
  <1>4. Passed /\ GlobalExact
    <2>1. /\ Cardinality(At({"counted", "refused", "inside"})) = 0
          /\ Cardinality(At({"counted", "inside"})) = 0
      BY <1>2, FS_EmptySet
    <2> QED
      BY <1>2, <2>1, LimitAssumption DEF Passed, GlobalExact, Init
  <1>5. MapExact
    BY <1>2 DEF MapExact, Mine, Init
  <1> QED
    BY <1>2, <1>3, <1>4, <1>5 DEF PoolInv, Pool!Init

LEMMA PoolInvNext == PoolInv /\ [Next]_vars => PoolInv' /\ [Pool!Next]_(At({"inside"}))
  <1> SUFFICES ASSUME PoolInv, [Next]_vars
               PROVE  PoolInv' /\ [Pool!Next]_(At({"inside"}))
    OBVIOUS
  <1>1. ASSUME NEW c \in Callers,
               \/ AcquireGlobal(c) \/ AcquirePrincipal(c) \/ UndoGlobal(c)
               \/ ReleaseGlobal(c) \/ ReleasePrincipal(c)
        PROVE  PoolInv' /\ [Pool!Next]_(At({"inside"}))
    <2>1. PoolInv' /\ PoolStep(c)
      BY <1>1, AcquireGlobalKeeps, AcquirePrincipalKeeps, UndoGlobalKeeps,
         ReleaseGlobalKeeps, ReleasePrincipalKeeps
    <2> QED
      BY <2>1 DEF PoolStep, Pool!Next
  <1>2. CASE UNCHANGED vars
    <2>1. PoolInv'
      BY <1>2 DEF vars, PoolInv, PcOK, Passed, GlobalExact, MapExact, Mine, At
    <2>2. UNCHANGED At({"inside"})
      BY <1>2 DEF vars, At
    <2> QED
      BY <2>1, <2>2
  <1> QED
    BY <1>1, <1>2 DEF Next

\* acquireUpload and acquireStream with their releases implement the admission
\* pool, with exact counters: the limits hold for the callers inside whatever is
\* refused and undone at the same time, and nothing stays counted.
THEOREM LimiterImplementsPool == Spec => ImplementsAdmissionPool
  <1>1. PoolInv => CountsExact
    BY Exact DEF PoolInv
  <1> QED
    BY <1>1, PoolInvInit, PoolInvNext, PTL DEF Spec, ImplementsAdmissionPool, Pool!Spec

\* The run's specification moves one component at a time.
LEMMA FocusedAdmission == MCSpec => Spec
  <1>1. [MCNext]_<<focus, vars, authVars, rateVars>> => [Next]_vars
    BY DEF MCNext, vars
  <1> QED
    BY <1>1, PTL DEF MCSpec, MCInit, Spec

THEOREM AdmissionIsPooled == MCSpec => ImplementsAdmissionPool
  BY FocusedAdmission, LimiterImplementsPool, PTL

-----------------------------------------------------------------------------
(* The rate limit *)

\* The requests A of a principal q at time t, split in two: those before its window
\* and those in it, or if it has none, those that no span reaches back to any more
\* and the others.
Within(A, before, windows, q, t) ==
    /\ before \in SUBSET A /\ IsFiniteSet(A)
    /\ \A a \in A : a[1] \in Int /\ a[1] <= t
    /\ Cardinality(before) <= MaxRate
    /\ IF q \in DOMAIN windows
       THEN /\ Cardinality(A \ before) <= windows[q].count
            /\ \A a \in before : a[1] <= windows[q].start + MaxDelay
       ELSE /\ Cardinality(A \ before) <= MaxRate
            /\ \A a \in before : a[1] <= t - Rate!Span

Windows == [start : Int, count : 1 .. MaxRate]

RateInv ==
    /\ rateClock \in Int
    /\ \A q \in DOMAIN rates : rates[q] \in Windows
    /\ allowed = [p \in RatePrincipals |-> allowed[p]]
    /\ \A p \in RatePrincipals : \E before : Within(allowed[p], before, rates, p, rateClock)

LEMMA Limits == /\ MaxRate \in Nat \ {0} /\ Minute \in Nat \ {0}
                /\ MaxDelay \in 0 .. Minute - 1 /\ Rate!Span \in Int
                /\ Rate!Span = Minute - MaxDelay
  BY RateAssumption DEF Rate!RateAssumption, Rate!Span

\* The cleanup keeps windows as they are, and drops only those that are over.
LEMMA CleanedKeeps ==
    ASSUME NEW now \in Int
    PROVE  /\ DOMAIN Rate!Cleaned(now) \in SUBSET DOMAIN rates
           /\ \A q \in DOMAIN Rate!Cleaned(now) : Rate!Cleaned(now)[q] = rates[q]
           /\ \A q \in DOMAIN rates \ DOMAIN Rate!Cleaned(now) :
                 ~Rate!Fresh(now, rates[q].start)
  BY DEF Rate!Cleaned, Rate!Restrict

\* What was let in before a window that is over is out of reach.
LEMMA WindowOver ==
    ASSUME NEW now \in Int, NEW t \in Int, now <= t, NEW q, rates[q] \in Windows,
           NEW A, NEW before, q \in DOMAIN rates, Within(A, before, rates, q, t),
           ~Rate!Fresh(now, rates[q].start)
    PROVE  /\ \A a \in before : a[1] <= t - Rate!Span
           /\ Cardinality(A \ before) <= MaxRate
  <1>1. /\ Cardinality(A \ before) <= rates[q].count
        /\ \A a \in before : a[1] <= rates[q].start + MaxDelay /\ a[1] \in Int
    BY DEF Within
  <1>2. now - rates[q].start >= Minute /\ rates[q].start \in Int /\ rates[q].count \in 1 .. MaxRate
    BY Limits DEF Rate!Fresh, Windows
  <1>3. Cardinality(A \ before) \in Nat
    BY FS_Difference, FS_CardinalityType DEF Within
  <1>4. \A a \in before : a[1] <= t - Rate!Span
    BY <1>1, <1>2, Limits
  <1> QED
    BY <1>1, <1>2, <1>3, <1>4, Limits

\* A cleanup leaves the split as it is.
LEMMA CleanedWithin ==
    ASSUME RateInv, NEW now \in Int, now <= rateClock, NEW q \in RatePrincipals
    PROVE  \E before : Within(allowed[q], before, Rate!Cleaned(now), q, rateClock)
  <1>1. PICK before : Within(allowed[q], before, rates, q, rateClock)
    BY DEF RateInv
  <1>2. CASE q \in DOMAIN rates \ DOMAIN Rate!Cleaned(now)
    <2>1. rates[q] \in Windows /\ rateClock \in Int
      BY <1>2 DEF RateInv
    <2>2. /\ \A a \in before : a[1] <= rateClock - Rate!Span
          /\ Cardinality(allowed[q] \ before) <= MaxRate
      BY <1>1, <1>2, <2>1, WindowOver, CleanedKeeps
    <2> QED
      BY <1>1, <1>2, <2>2 DEF Within
  <1>3. CASE q \notin DOMAIN rates \ DOMAIN Rate!Cleaned(now)
    BY <1>1, <1>3, CleanedKeeps DEF Within
  <1> QED
    BY <1>2, <1>3

\* What a principal's next request leaves of the earlier ones.
Reach(q) == {a \in allowed[q] : a[1] > rateClock - Rate!Span}
Request(q) == <<rateClock, 1 + Cardinality({a \in allowed[q] : a[1] = rateClock})>>

LEMMA AllowAdds ==
    ASSUME RateInv, NEW p \in RatePrincipals, Rate!Allow(p)
    PROVE  /\ allowed' = [q \in RatePrincipals |->
                             IF q = p THEN Reach(p) \cup {Request(p)} ELSE allowed[q]]
  BY RateCounts DEF RateInv, Rate!Allow, Reach, Request

\* A request that opens a window is counted in it, and the earlier ones in reach are
\* at most as many as the window before let in.
LEMMA OpeningKeeps ==
    ASSUME RateInv, NEW p \in RatePrincipals, NEW now \in Int,
           now <= rateClock, rateClock <= now + MaxDelay,
           p \in DOMAIN Rate!Cleaned(now) => ~Rate!Fresh(now, Rate!Cleaned(now)[p].start)
    PROVE  Within(Reach(p) \cup {Request(p)}, Reach(p),
                  [q \in DOMAIN Rate!Cleaned(now) \cup {p} |->
                      IF q = p THEN [start |-> now, count |-> 1] ELSE Rate!Cleaned(now)[q]],
                  p, rateClock)
  <1> DEFINE A == allowed[p]
             New == Reach(p) \cup {Request(p)}
  <1>1. PICK before : Within(A, before, rates, p, rateClock)
    BY DEF RateInv
  <1>2. /\ \A a \in before : a[1] <= rateClock - Rate!Span
        /\ Cardinality(A \ before) <= MaxRate
    <2>1. CASE p \in DOMAIN rates
      <3>1. ~Rate!Fresh(now, rates[p].start)
        BY <2>1, CleanedKeeps
      <3>2. rates[p] \in Windows /\ rateClock \in Int
        BY <2>1 DEF RateInv
      <3> QED
        BY <1>1, <2>1, <3>1, <3>2, WindowOver
    <2>2. CASE p \notin DOMAIN rates
      BY <1>1, <2>2 DEF Within
    <2> QED
      BY <2>1, <2>2
  <1>3. /\ IsFiniteSet(A) /\ \A a \in A : a[1] \in Int /\ a[1] <= rateClock
        /\ rateClock \in Int
    BY <1>1 DEF Within, RateInv
  <1>4. Reach(p) \in SUBSET (A \ before)
    BY <1>2, <1>3, Limits DEF Reach
  <1>5. IsFiniteSet(A \ before) /\ Cardinality(A \ before) \in Nat
    BY <1>3, FS_Difference, FS_CardinalityType
  <1>6. IsFiniteSet(Reach(p)) /\ Cardinality(Reach(p)) \in Nat /\ Cardinality(Reach(p)) <= MaxRate
    BY <1>2, <1>4, <1>5, FS_Subset, FS_CardinalityType, Limits
  <1>7. IsFiniteSet(New) /\ Reach(p) \in SUBSET New
    BY <1>6, FS_AddElement
  <1>8. Cardinality(New \ Reach(p)) <= 1
    <2>1. New \ Reach(p) \in SUBSET {Request(p)}
      OBVIOUS
    <2>2. IsFiniteSet({Request(p)}) /\ Cardinality({Request(p)}) = 1
      BY FS_Singleton
    <2> QED
      BY <2>1, <2>2, FS_Subset
  <1>9. \A a \in Reach(p) : a[1] \in Int /\ a[1] <= rateClock
    BY <1>3 DEF Reach
  <1>10. \A a \in New : a[1] \in Int /\ a[1] <= rateClock
    BY <1>3, <1>9 DEF Request
  <1>11. \A a \in Reach(p) : a[1] <= now + MaxDelay
    BY <1>3, <1>9, Limits
  <1> HIDE DEF New
  <1> QED
    BY <1>6, <1>7, <1>8, <1>10, <1>11 DEF Within, New

\* A request in a window that is not used up adds one to it.
LEMMA CountingKeeps ==
    ASSUME RateInv, NEW p \in RatePrincipals, NEW now \in Int, now <= rateClock,
           p \in DOMAIN Rate!Cleaned(now), ~Rate!Refuses(Rate!Cleaned(now)[p])
    PROVE  \E before :
              Within(Reach(p) \cup {Request(p)}, before,
                     [q \in DOMAIN Rate!Cleaned(now) \cup {p} |->
                         IF q = p
                         THEN [Rate!Cleaned(now)[p] EXCEPT !.count = @ + 1]
                         ELSE Rate!Cleaned(now)[q]],
                     p, rateClock)
  <1> DEFINE A == allowed[p]
             w == rates[p]
             New == Reach(p) \cup {Request(p)}
  <1>1. PICK before : Within(A, before, rates, p, rateClock)
    BY DEF RateInv
  <1>2. p \in DOMAIN rates /\ Rate!Cleaned(now)[p] = w /\ w \in Windows
    BY CleanedKeeps DEF RateInv
  <1>3. /\ before \in SUBSET A /\ IsFiniteSet(A) /\ \A a \in A : a[1] \in Int /\ a[1] <= rateClock
        /\ Cardinality(before) <= MaxRate /\ Cardinality(A \ before) <= w.count
        /\ \A a \in before : a[1] <= w.start + MaxDelay
        /\ rateClock \in Int /\ w.start \in Int /\ w.count \in Int
    BY <1>1, <1>2, Limits DEF Within, RateInv, Windows
  <1> DEFINE Old == before \cap Reach(p)
  <1>4. IsFiniteSet(Reach(p)) /\ IsFiniteSet(New) /\ Old \in SUBSET New
    <2>1. Reach(p) \in SUBSET A
      BY DEF Reach
    <2> QED
      BY <1>3, <2>1, FS_Subset, FS_AddElement
  <1>5. Cardinality(Old) <= MaxRate
    <2>1. IsFiniteSet(before) /\ Old \in SUBSET before /\ Cardinality(before) \in Nat
      BY <1>3, FS_Subset, FS_CardinalityType
    <2>2. Cardinality(Old) <= Cardinality(before) /\ Cardinality(Old) \in Nat
      BY <2>1, FS_Subset, FS_CardinalityType
    <2> QED
      BY <1>3, <2>1, <2>2, Limits
  <1>6. Cardinality(New \ Old) <= w.count + 1
    <2>1. New \ Old \in SUBSET ((A \ before) \cup {Request(p)})
      BY DEF Reach
    <2>2. IsFiniteSet(A \ before) /\ Cardinality(A \ before) \in Nat
      BY <1>3, FS_Difference, FS_CardinalityType
    <2>3. /\ IsFiniteSet((A \ before) \cup {Request(p)})
          /\ Cardinality((A \ before) \cup {Request(p)}) \in Nat
          /\ Cardinality((A \ before) \cup {Request(p)}) <= Cardinality(A \ before) + 1
      BY <2>2, FS_AddElement, FS_CardinalityType
    <2>4. /\ Cardinality(New \ Old) \in Nat
          /\ Cardinality(New \ Old) <= Cardinality((A \ before) \cup {Request(p)})
      BY <2>1, <2>3, FS_Subset, FS_CardinalityType
    <2> QED
      BY <1>3, <2>2, <2>3, <2>4
  <1>7. \A a \in New : a[1] \in Int /\ a[1] <= rateClock
    <2>1. \A a \in Reach(p) : a[1] \in Int /\ a[1] <= rateClock
      BY <1>3 DEF Reach
    <2> QED
      BY <1>3, <2>1 DEF Request
  <1>8. \A a \in Old : a[1] <= w.start + MaxDelay
    BY <1>3
  <1>9. /\ [w EXCEPT !.count = @ + 1].count = w.count + 1
        /\ [w EXCEPT !.count = @ + 1].start = w.start
    BY <1>2 DEF Windows
  <1> HIDE DEF New, Old, w
  <1>10. Within(New, Old,
                [q \in DOMAIN Rate!Cleaned(now) \cup {p} |->
                    IF q = p THEN [Rate!Cleaned(now)[p] EXCEPT !.count = @ + 1]
                             ELSE Rate!Cleaned(now)[q]], p, rateClock)
    BY <1>2, <1>4, <1>5, <1>6, <1>7, <1>8, <1>9 DEF Within
  <1> QED
    BY <1>10 DEF New

LEMMA RequestKeeps ==
    ASSUME RateInv, NEW p \in RatePrincipals, NEW now \in rateClock - MaxDelay .. rateClock,
           Rate!allowPrincipalRequest(p, now)
    PROVE  RateInv'
  <1> DEFINE windows == Rate!Cleaned(now)
             opened == [start |-> now, count |-> 1]
             counted == [windows[p] EXCEPT !.count = @ + 1]
  <1>1. /\ now \in Int /\ now <= rateClock /\ rateClock <= now + MaxDelay
        /\ rateClock \in Int /\ rateClock' = rateClock
    BY Limits DEF RateInv, Rate!allowPrincipalRequest
  <1>2. \A q \in DOMAIN windows : windows[q] \in Windows
    BY <1>1, CleanedKeeps DEF RateInv
  <1>3. \A q \in RatePrincipals : \E before : Within(allowed[q], before, windows, q, rateClock)
    BY <1>1, CleanedWithin
  <1>4. CASE rates' = windows /\ UNCHANGED allowed
    BY <1>1, <1>2, <1>3, <1>4 DEF RateInv
  <1>5. ASSUME NEW w \in Windows, Rate!Allow(p),
               rates' = [q \in DOMAIN windows \cup {p} |-> IF q = p THEN w ELSE windows[q]],
               \E before : Within(Reach(p) \cup {Request(p)}, before, rates', p, rateClock)
        PROVE  RateInv'
    <2>1. allowed' = [q \in RatePrincipals |->
                        IF q = p THEN Reach(p) \cup {Request(p)} ELSE allowed[q]]
      BY <1>5, AllowAdds
    <2>2. ASSUME NEW q \in RatePrincipals
          PROVE  \E before : Within(allowed'[q], before, rates', q, rateClock')
      <3>1. CASE q = p
        BY <1>1, <1>5, <2>1, <3>1
      <3>2. CASE q # p
        <4>1. PICK before : Within(allowed[q], before, windows, q, rateClock)
          BY <1>3
        <4>2. /\ q \in DOMAIN rates' <=> q \in DOMAIN windows
              /\ q \in DOMAIN rates' => rates'[q] = windows[q]
              /\ allowed'[q] = allowed[q]
          BY <1>5, <2>1, <3>2
        <4>3. Within(allowed'[q], before, rates', q, rateClock')
          BY <1>1, <4>1, <4>2 DEF Within
        <4> QED
          BY <4>3
      <3> QED
        BY <3>1, <3>2
    <2>3. \A q \in DOMAIN rates' : rates'[q] \in Windows
      BY <1>2, <1>5
    <2>4. allowed' = [q \in RatePrincipals |-> allowed'[q]]
      BY <2>1
    <2> HIDE DEF windows
    <2> QED
      BY <1>1, <2>2, <2>3, <2>4 DEF RateInv
  <1>6. CASE /\ p \in DOMAIN windows => ~Rate!Fresh(now, windows[p].start)
             /\ rates' = Rate!SetWindow(windows, p, opened) /\ Rate!Allow(p)
    <2>1. opened \in Windows
      BY <1>1, Limits DEF Windows
    <2>2. rates' = [q \in DOMAIN windows \cup {p} |-> IF q = p THEN opened ELSE windows[q]]
      BY <1>6 DEF Rate!SetWindow
    <2>3. Within(Reach(p) \cup {Request(p)}, Reach(p), rates', p, rateClock)
      BY <1>1, <1>6, <2>2, OpeningKeeps
    <2> QED
      BY <1>5, <1>6, <2>1, <2>2, <2>3
  <1>7. CASE /\ p \in DOMAIN windows /\ ~Rate!Refuses(windows[p])
             /\ rates' = Rate!SetWindow(windows, p, counted) /\ Rate!Allow(p)
    <2>1. counted \in Windows
      <3>1. windows[p] \in Windows /\ windows[p].count < MaxRate
        BY <1>2, <1>7, Limits DEF Rate!Refuses, Windows
      <3> QED
        BY <3>1, Limits DEF Windows
    <2>2. rates' = [q \in DOMAIN windows \cup {p} |-> IF q = p THEN counted ELSE windows[q]]
      BY <1>7 DEF Rate!SetWindow
    <2>3. \E before : Within(Reach(p) \cup {Request(p)}, before, rates', p, rateClock)
      BY <1>1, <1>7, <2>2, CountingKeeps
    <2> QED
      BY <1>5, <1>7, <2>1, <2>2, <2>3
  <1> QED
    BY <1>4, <1>6, <1>7 DEF Rate!allowPrincipalRequest

LEMMA RateInvInit == Rate!Init => RateInv
  <1> SUFFICES ASSUME Rate!Init PROVE RateInv
    OBVIOUS
  <1>1. ASSUME NEW p \in RatePrincipals
        PROVE  Within(allowed[p], {}, rates, p, rateClock)
    BY FS_EmptySet, Limits DEF Rate!Init, Within
  <1> QED
    BY <1>1, Limits DEF Rate!Init, RateInv

LEMMA TickKeeps == RateInv /\ Rate!Tick => RateInv'
  <1> SUFFICES ASSUME RateInv, Rate!Tick PROVE RateInv'
    OBVIOUS
  <1>1. rateClock' = rateClock + 1 /\ UNCHANGED <<rates, allowed>> /\ rateClock \in Int
    BY DEF Rate!Tick, RateInv
  <1>2. ASSUME NEW p \in RatePrincipals
        PROVE  \E before : Within(allowed'[p], before, rates', p, rateClock')
    <2>1. PICK before : Within(allowed[p], before, rates, p, rateClock)
      BY DEF RateInv
    <2>2. Within(allowed'[p], before, rates', p, rateClock')
      BY <1>1, <2>1, Limits DEF Within
    <2> QED
      BY <2>2
  <1> QED
    BY <1>1, <1>2 DEF RateInv

LEMMA RateInvNext == RateInv /\ [Rate!Next]_(Rate!vars) => RateInv'
  <1> SUFFICES ASSUME RateInv, [Rate!Next]_(Rate!vars) PROVE RateInv'
    OBVIOUS
  <1>1. CASE Rate!Tick
    BY <1>1, TickKeeps
  <1>2. ASSUME NEW p \in RatePrincipals, NEW now \in rateClock - MaxDelay .. rateClock,
               Rate!allowPrincipalRequest(p, now)
        PROVE  RateInv'
    BY <1>2, RequestKeeps
  <1>3. CASE UNCHANGED Rate!vars
    BY <1>3 DEF Rate!vars, RateInv
  <1> QED
    BY <1>1, <1>2, <1>3 DEF Rate!Next

\* The two halves are each at most the rate.
LEMMA HalvesAdd == RateInv => BurstBound
  <1> SUFFICES ASSUME RateInv, NEW p \in RatePrincipals
               PROVE  Cardinality(allowed[p]) <= 2 * MaxRate
    BY RateCounts DEF BurstBound, Rate!BurstBound
  <1>1. PICK before : Within(allowed[p], before, rates, p, rateClock)
    BY DEF RateInv
  <1> DEFINE inside == allowed[p] \ before
  <1>2. /\ IsFiniteSet(before) /\ IsFiniteSet(inside) /\ IsFiniteSet(allowed[p])
        /\ Cardinality(before) \in Nat /\ Cardinality(inside) \in Nat
    BY <1>1, FS_Subset, FS_Difference, FS_CardinalityType DEF Within
  <1>3. Cardinality(before) <= MaxRate /\ Cardinality(inside) <= MaxRate
    <2>1. p \in DOMAIN rates => rates[p].count \in 1 .. MaxRate
      BY DEF RateInv, Windows
    <2> QED
      BY <1>1, <1>2, <2>1, Limits DEF Within
  <1>4. allowed[p] = before \cup inside /\ before \cap inside = {}
    BY <1>1 DEF Within
  <1>5. /\ Cardinality(allowed[p]) =
              Cardinality(before) + Cardinality(inside) - Cardinality(before \cap inside)
        /\ Cardinality(before \cap inside) = 0
    BY <1>2, <1>4, FS_Union, FS_EmptySet
  <1> QED
    BY <1>2, <1>3, <1>5, Limits

\* allowPrincipalRequest lets through at most twice the rate in a minute less the
\* delay, for any rate, delay and number of principals.
THEOREM BurstsAreBounded == MCSpec => []BurstBound
  <1>1. MCInit => RateInv
    BY RateInvInit DEF MCInit
  <1>2. RateInv /\ [MCNext]_<<focus, vars, authVars, rateVars>> => RateInv'
    <2>1. [MCNext]_<<focus, vars, authVars, rateVars>> => [Rate!Next]_(Rate!vars)
      BY DEF MCNext, rateVars, Rate!vars
    <2> QED
      BY <2>1, RateInvNext
  <1> QED
    BY <1>1, <1>2, HalvesAdd, PTL DEF MCSpec

-----------------------------------------------------------------------------
(* The replay cache *)

AuthSteps == {"idle", "hash", "verify", "admit"}

\* No caller was verified later than now.
CallersOK ==
    /\ authClock \in Nat
    /\ authStep \in [AuthCallers -> AuthSteps]
    /\ signed = [c \in AuthCallers |-> signed[c]]
    /\ \A c \in AuthCallers : authStep[c] # "idle" => signed[c] \in Auth!Signatures
    /\ verifiedAt \in [AuthCallers -> Int]
    /\ \A c \in AuthCallers : verifiedAt[c] <= authClock

\* As long as an admission is live, its entry is in the cache.
Remembered ==
    /\ admitted \in [AuthPrincipals \X Nonces -> Int]
    /\ \A p \in DOMAIN entries : \A n \in DOMAIN entries[p] : entries[p][n] \in Int
    /\ \A p \in AuthPrincipals, n \in Nonces :
          admitted[<<p, n>>] > authClock =>
             /\ p \in DOMAIN entries /\ n \in DOMAIN entries[p]
             /\ entries[p][n] >= admitted[<<p, n>>]

Bucketed ==
    /\ IsFiniteSet(Auth!EntriesOf(entries))
    /\ total = Cardinality(Auth!EntriesOf(entries)) /\ total <= MaxEntries
    /\ IsFiniteSet(DOMAIN entries) /\ Cardinality(DOMAIN entries) <= MaxPrincipals
    /\ \A p \in DOMAIN entries :
          /\ DOMAIN entries[p] # {} /\ IsFiniteSet(DOMAIN entries[p])
          /\ Cardinality(DOMAIN entries[p]) <= MaxPrincipalEntries

AuthInv == CallersOK /\ Remembered /\ Bucketed

LEMMA ReplayLimits ==
    /\ Skew \in Nat /\ AuthTime \in Nat
    /\ MaxEntries \in Nat /\ MaxPrincipals \in Nat /\ MaxPrincipalEntries \in Nat \ {0}
  BY AuthAssumption DEF Auth!AuthAssumption

\* A cache that is the present one without some entries that are over at `now', and
\* without empty buckets.
Shrunk(cache, now) ==
    /\ DOMAIN cache \in SUBSET DOMAIN entries
    /\ \A q \in DOMAIN cache :
          /\ DOMAIN cache[q] \in SUBSET DOMAIN entries[q] /\ DOMAIN cache[q] # {}
          /\ \A n \in DOMAIN cache[q] : cache[q][n] = entries[q][n]
    /\ \A q \in DOMAIN entries : \A n \in DOMAIN entries[q] :
          entries[q][n] > now => q \in DOMAIN cache /\ n \in DOMAIN cache[q]

LEMMA EntriesFacts ==
    ASSUME NEW cache, NEW e
    PROVE  e \in Auth!EntriesOf(cache) <=>
              \E q \in DOMAIN cache : \E n \in DOMAIN cache[q] : e = <<q, n>>
  BY DEF Auth!EntriesOf

\* Pruning drops what is not live, and nothing else.
LEMMA LiveFacts ==
    ASSUME NEW bucket, NEW now
    PROVE  /\ \A n : n \in DOMAIN Auth!Live(bucket, now) <=>
                      n \in DOMAIN bucket /\ bucket[n] > now
           /\ \A n \in DOMAIN Auth!Live(bucket, now) : Auth!Live(bucket, now)[n] = bucket[n]
  BY DEF Auth!Live, Auth!Restrict

LEMMA PruneFacts ==
    ASSUME NEW cache, NEW ps, NEW now
    PROVE  /\ \A q : q \in DOMAIN Auth!Prune(cache, ps, now) <=>
                      q \in DOMAIN cache /\ (q \in ps => DOMAIN Auth!Live(cache[q], now) # {})
           /\ \A q \in DOMAIN Auth!Prune(cache, ps, now) :
                 Auth!Prune(cache, ps, now)[q] =
                    IF q \in ps THEN Auth!Live(cache[q], now) ELSE cache[q]
  BY DEF Auth!Prune

LEMMA PruneShrinks ==
    ASSUME NEW cache, NEW ps, NEW now, Shrunk(cache, now)
    PROVE  Shrunk(Auth!Prune(cache, ps, now), now)
  <1> DEFINE less == Auth!Prune(cache, ps, now)
  <1>0. /\ \A q : q \in DOMAIN less <=>
                   q \in DOMAIN cache /\ (q \in ps => DOMAIN Auth!Live(cache[q], now) # {})
        /\ \A q \in DOMAIN less :
              less[q] = IF q \in ps THEN Auth!Live(cache[q], now) ELSE cache[q]
    BY PruneFacts
  <1> HIDE DEF less
  <1>1. /\ DOMAIN less \in SUBSET DOMAIN cache
        /\ \A q \in DOMAIN cache : q \notin DOMAIN less =>
              \A n \in DOMAIN cache[q] : ~(cache[q][n] > now)
    BY <1>0, LiveFacts
  <1>2. ASSUME NEW q \in DOMAIN less
        PROVE  /\ DOMAIN less[q] \in SUBSET DOMAIN cache[q] /\ DOMAIN less[q] # {}
               /\ \A n \in DOMAIN less[q] : less[q][n] = cache[q][n]
               /\ \A n \in DOMAIN cache[q] : cache[q][n] > now => n \in DOMAIN less[q]
    <2>1. CASE q \in ps
      <3>1. less[q] = Auth!Live(cache[q], now) /\ DOMAIN less[q] # {}
        BY <1>0, <2>1
      <3> QED
        BY <3>1, LiveFacts
    <2>2. CASE q \notin ps
      <3>1. less[q] = cache[q]
        BY <1>0, <2>2
      <3> QED
        BY <1>1, <3>1 DEF Shrunk
    <2> QED
      BY <2>1, <2>2
  <1>3. \A q \in DOMAIN less :
           /\ DOMAIN less[q] \in SUBSET DOMAIN entries[q] /\ DOMAIN less[q] # {}
           /\ \A n \in DOMAIN less[q] : less[q][n] = entries[q][n]
    BY <1>1, <1>2 DEF Shrunk
  <1>4. ASSUME NEW q \in DOMAIN entries, NEW n \in DOMAIN entries[q], entries[q][n] > now
        PROVE  q \in DOMAIN less /\ n \in DOMAIN less[q]
    <2>1. q \in DOMAIN cache /\ n \in DOMAIN cache[q] /\ cache[q][n] > now
      BY <1>4 DEF Shrunk
    <2> QED
      BY <1>1, <1>2, <2>1
  <1> QED
    BY <1>1, <1>3, <1>4 DEF Shrunk, less

LEMMA SweptShrinks ==
    ASSUME AuthInv, NEW p, NEW now
    PROVE  Shrunk(Auth!Prune(entries, {p}, now), now) /\ Shrunk(Auth!Swept(p, now), now)
  <1>1. Shrunk(entries, now)
    BY DEF Shrunk, AuthInv, Bucketed
  <1>2. Shrunk(Auth!Prune(entries, {p}, now), now)
    BY <1>1, PruneShrinks
  <1>3. Auth!Swept(p, now) \in
           {Auth!Prune(entries, {p}, now),
            Auth!Prune(Auth!Prune(entries, {p}, now),
                       DOMAIN Auth!Prune(entries, {p}, now), now)}
    BY DEF Auth!Swept
  <1> QED
    BY <1>2, <1>3, PruneShrinks

\* A cache that has shrunk stays within the limits.
LEMMA ShrunkCounts ==
    ASSUME AuthInv, NEW cache, NEW now, Shrunk(cache, now)
    PROVE  /\ IsFiniteSet(Auth!EntriesOf(cache))
           /\ Cardinality(Auth!EntriesOf(cache)) \in Nat
           /\ Cardinality(Auth!EntriesOf(cache)) <= MaxEntries
           /\ IsFiniteSet(DOMAIN cache) /\ Cardinality(DOMAIN cache) <= MaxPrincipals
           /\ Cardinality(DOMAIN cache) \in Nat
           /\ \A p \in DOMAIN cache :
                 /\ IsFiniteSet(DOMAIN cache[p]) /\ Cardinality(DOMAIN cache[p]) \in Nat
                 /\ Cardinality(DOMAIN cache[p]) <= MaxPrincipalEntries
  <1>1. Auth!EntriesOf(cache) \in SUBSET Auth!EntriesOf(entries)
    <2> SUFFICES ASSUME NEW e \in Auth!EntriesOf(cache) PROVE e \in Auth!EntriesOf(entries)
      OBVIOUS
    <2>1. PICK q \in DOMAIN cache : \E n \in DOMAIN cache[q] : e = <<q, n>>
      BY EntriesFacts
    <2> PICK n \in DOMAIN cache[q] : e = <<q, n>>
      BY <2>1
    <2>2. q \in DOMAIN entries /\ n \in DOMAIN entries[q]
      BY DEF Shrunk
    <2> QED
      BY <2>2, EntriesFacts
  <1>2. /\ IsFiniteSet(Auth!EntriesOf(cache)) /\ Cardinality(Auth!EntriesOf(cache)) \in Nat
        /\ Cardinality(Auth!EntriesOf(cache)) <= Cardinality(Auth!EntriesOf(entries))
        /\ Cardinality(Auth!EntriesOf(entries)) \in Nat
    BY <1>1, FS_Subset, FS_CardinalityType DEF AuthInv, Bucketed
  <1>3. /\ IsFiniteSet(DOMAIN cache) /\ Cardinality(DOMAIN cache) \in Nat
        /\ Cardinality(DOMAIN cache) <= Cardinality(DOMAIN entries)
        /\ Cardinality(DOMAIN entries) \in Nat
    BY FS_Subset, FS_CardinalityType DEF AuthInv, Bucketed, Shrunk
  <1>4. ASSUME NEW p \in DOMAIN cache
        PROVE  /\ IsFiniteSet(DOMAIN cache[p]) /\ Cardinality(DOMAIN cache[p]) \in Nat
               /\ Cardinality(DOMAIN cache[p]) <= MaxPrincipalEntries
    <2>1. p \in DOMAIN entries /\ DOMAIN cache[p] \in SUBSET DOMAIN entries[p]
      BY DEF Shrunk
    <2>2. /\ IsFiniteSet(DOMAIN entries[p]) /\ Cardinality(DOMAIN entries[p]) \in Nat
          /\ Cardinality(DOMAIN entries[p]) <= MaxPrincipalEntries
      BY <2>1, FS_CardinalityType DEF AuthInv, Bucketed
    <2>3. /\ IsFiniteSet(DOMAIN cache[p]) /\ Cardinality(DOMAIN cache[p]) \in Nat
          /\ Cardinality(DOMAIN cache[p]) <= Cardinality(DOMAIN entries[p])
      BY <2>1, <2>2, FS_Subset, FS_CardinalityType
    <2> QED
      BY <2>2, <2>3, ReplayLimits
  <1> QED
    BY <1>2, <1>3, <1>4, ReplayLimits DEF AuthInv, Bucketed

\* The entries that are counted after the sweep are the entries after the sweep.
LEMMA CountIsExact ==
    ASSUME AuthInv, NEW p, NEW now
    PROVE  Auth!Count(p, now) = Cardinality(Auth!EntriesOf(Auth!Swept(p, now)))
  <1>1. Cardinality(Auth!EntriesOf(Auth!Swept(p, now))) \in Nat
    BY SweptShrinks, ShrunkCounts
  <1>2. total = Cardinality(Auth!EntriesOf(entries)) /\ total \in Nat
    BY FS_CardinalityType DEF AuthInv, Bucketed
  <1> QED
    BY <1>1, <1>2, AuthCounts DEF Auth!Count

\* After a refusal the cache is the present one without entries that are over.
LEMMA ShrinkingKeeps ==
    ASSUME AuthInv, NEW now \in Int, now <= authClock, Shrunk(entries', now),
           total' = Cardinality(Auth!EntriesOf(entries')), UNCHANGED <<authClock, admitted>>
    PROVE  Remembered' /\ Bucketed'
  <1> PICK cache : cache = entries'
    OBVIOUS
  <1>1. Shrunk(cache, now)
    OBVIOUS
  <1>2. Bucketed'
    <2>1. \A q \in DOMAIN cache : DOMAIN cache[q] # {}
      BY <1>1 DEF Shrunk
    <2>2. /\ IsFiniteSet(Auth!EntriesOf(cache))
          /\ Cardinality(Auth!EntriesOf(cache)) <= MaxEntries
          /\ IsFiniteSet(DOMAIN cache) /\ Cardinality(DOMAIN cache) <= MaxPrincipals
          /\ \A p \in DOMAIN cache :
                /\ IsFiniteSet(DOMAIN cache[p])
                /\ Cardinality(DOMAIN cache[p]) <= MaxPrincipalEntries
      BY <1>1, ShrunkCounts
    <2> QED
      BY <2>1, <2>2 DEF Bucketed, Auth!EntriesOf
  <1>3. ASSUME NEW p \in DOMAIN cache, NEW n \in DOMAIN cache[p]
        PROVE  cache[p][n] \in Int
    <2>1. /\ p \in DOMAIN entries /\ n \in DOMAIN entries[p]
          /\ cache[p][n] = entries[p][n]
      BY <1>1 DEF Shrunk
    <2> QED
      BY <2>1 DEF AuthInv, Remembered
  <1>4. ASSUME NEW p \in AuthPrincipals, NEW n \in Nonces, admitted[<<p, n>>] > authClock
        PROVE  /\ p \in DOMAIN cache /\ n \in DOMAIN cache[p]
               /\ cache[p][n] >= admitted[<<p, n>>]
    <2>1. /\ p \in DOMAIN entries /\ n \in DOMAIN entries[p]
          /\ entries[p][n] >= admitted[<<p, n>>] /\ entries[p][n] \in Int
          /\ admitted[<<p, n>>] \in Int /\ authClock \in Int
      BY <1>4 DEF AuthInv, Remembered, CallersOK
    <2>2. entries[p][n] > now
      BY <1>4, <2>1
    <2> QED
      BY <1>1, <2>1, <2>2 DEF Shrunk
  <1>5. Remembered'
    BY <1>3, <1>4 DEF AuthInv, Remembered
  <1> QED
    BY <1>2, <1>5

\* After the sweep a principal's own bucket holds what is live in it.
LEMMA OwnBucket ==
    ASSUME NEW p, NEW now
    PROVE  p \in DOMAIN Auth!Swept(p, now) =>
              /\ p \in DOMAIN entries
              /\ \A m : m \in DOMAIN Auth!Swept(p, now)[p] <=>
                           m \in DOMAIN entries[p] /\ entries[p][m] > now
  <1> DEFINE own == Auth!Prune(entries, {p}, now)
             all == Auth!Prune(own, DOMAIN own, now)
  <1>1. p \in DOMAIN own => p \in DOMAIN entries /\ own[p] = Auth!Live(entries[p], now)
    BY PruneFacts
  <1>2. p \in DOMAIN all => p \in DOMAIN own /\ all[p] = Auth!Live(own[p], now)
    <2> HIDE DEF own
    <2> QED
      BY PruneFacts
  <1>3. Auth!Swept(p, now) = own \/ Auth!Swept(p, now) = all
    BY DEF Auth!Swept
  <1> HIDE DEF own, all
  <1> QED
    BY <1>1, <1>2, <1>3, LiveFacts

\* A nonce that the cache does not know is not in it after the sweep, and if it was
\* admitted before, that admission is over.
LEMMA UnknownIsOver ==
    ASSUME AuthInv, NEW p \in AuthPrincipals, NEW n \in Nonces, NEW now \in Int,
           now <= authClock, ~Auth!Known(p, n, now)
    PROVE  /\ admitted[<<p, n>>] <= authClock
           /\ p \in DOMAIN Auth!Swept(p, now) => n \notin DOMAIN Auth!Swept(p, now)[p]
  <1>1. p \in DOMAIN entries => ~(n \in DOMAIN entries[p] /\ entries[p][n] > now)
    BY LiveFacts DEF Auth!Known
  <1>2. admitted[<<p, n>>] \in Int /\ authClock \in Int
    BY DEF AuthInv, Remembered, CallersOK
  <1>3. admitted[<<p, n>>] <= authClock
    <2>1. SUFFICES ASSUME admitted[<<p, n>>] > authClock PROVE FALSE
      BY <1>2
    <2>2. /\ p \in DOMAIN entries /\ n \in DOMAIN entries[p]
          /\ entries[p][n] >= admitted[<<p, n>>] /\ entries[p][n] \in Int
      BY <2>1 DEF AuthInv, Remembered
    <2> QED
      BY <1>1, <1>2, <2>1, <2>2
  <1> QED
    BY <1>1, <1>3, OwnBucket

\* An admission is added to what the sweep left.
LEMMA AcceptedKeeps ==
    ASSUME AuthInv, NEW p \in AuthPrincipals, NEW n \in Nonces, NEW now \in Int,
           now <= authClock, NEW expiry \in Int, ~Auth!Known(p, n, now), ~Auth!Full(p, now),
           entries' = Auth!Put(Auth!Swept(p, now), p, n, expiry),
           total' = Auth!Count(p, now) + 1,
           admitted' = [admitted EXCEPT ![<<p, n>>] = IF expiry > @ THEN expiry ELSE @],
           UNCHANGED authClock
    PROVE  Remembered' /\ Bucketed'
  <1> PICK cache : cache = Auth!Swept(p, now)
    OBVIOUS
  <1> PICK grown : grown = entries'
    OBVIOUS
  <1>1. Shrunk(cache, now)
    BY SweptShrinks
  <1>2. /\ IsFiniteSet(Auth!EntriesOf(cache)) /\ Cardinality(Auth!EntriesOf(cache)) \in Nat
        /\ IsFiniteSet(DOMAIN cache) /\ Cardinality(DOMAIN cache) \in Nat
        /\ Cardinality(DOMAIN cache) <= MaxPrincipals
        /\ \A q \in DOMAIN cache :
              /\ IsFiniteSet(DOMAIN cache[q]) /\ Cardinality(DOMAIN cache[q]) \in Nat
              /\ Cardinality(DOMAIN cache[q]) <= MaxPrincipalEntries
    BY <1>1, ShrunkCounts
  <1>3. /\ p \in DOMAIN cache => n \notin DOMAIN cache[p]
        /\ admitted[<<p, n>>] <= authClock
    BY UnknownIsOver
  <1>4. /\ Cardinality(Auth!EntriesOf(cache)) < MaxEntries
        /\ p \notin DOMAIN cache => Cardinality(DOMAIN cache) < MaxPrincipals
        /\ p \in DOMAIN cache => Cardinality(DOMAIN cache[p]) < MaxPrincipalEntries
    BY <1>2, CountIsExact, AuthCounts, ReplayLimits DEF Auth!Full, Auth!Crowded
  <1>5. /\ DOMAIN grown = DOMAIN cache \cup {p}
        /\ \A q \in DOMAIN cache \ {p} : grown[q] = cache[q]
        /\ p \in DOMAIN cache => DOMAIN grown[p] = DOMAIN cache[p] \cup {n}
        /\ p \notin DOMAIN cache => DOMAIN grown[p] = {n}
        /\ grown[p][n] = expiry
        /\ p \in DOMAIN cache => \A m \in DOMAIN cache[p] \ {n} : grown[p][m] = cache[p][m]
    <2>1. grown = Auth!Put(cache, p, n, expiry)
      OBVIOUS
    <2> QED
      BY <2>1 DEF Auth!Put
  <1>6. Auth!EntriesOf(grown) = Auth!EntriesOf(cache) \cup {<<p, n>>}
    <2>1. ASSUME NEW q, NEW m
          PROVE  q \in DOMAIN grown /\ m \in DOMAIN grown[q] <=>
                    (q \in DOMAIN cache /\ m \in DOMAIN cache[q]) \/ (q = p /\ m = n)
      BY <1>5
    <2> QED
      BY <2>1, EntriesFacts
  <1>7. <<p, n>> \notin Auth!EntriesOf(cache)
    BY <1>3, EntriesFacts
  <1>8. Bucketed'
    <2>1. /\ IsFiniteSet(Auth!EntriesOf(grown))
          /\ Cardinality(Auth!EntriesOf(grown)) = Cardinality(Auth!EntriesOf(cache)) + 1
      <3> PICK S : S = Auth!EntriesOf(cache)
        OBVIOUS
      <3> PICK e : e = <<p, n>>
        OBVIOUS
      <3>1. IsFiniteSet(S) /\ e \notin S
        BY <1>2, <1>7
      <3>2. IsFiniteSet(S \cup {e}) /\ Cardinality(S \cup {e}) = Cardinality(S) + 1
        BY ONLY <3>1, FS_AddElement
      <3>3. Auth!EntriesOf(grown) = S \cup {e}
        BY <1>6
      <3> QED
        BY <3>2, <3>3
    <2>2. /\ total' = Cardinality(Auth!EntriesOf(grown)) /\ total' <= MaxEntries
      BY <1>2, <1>4, <2>1, CountIsExact, ReplayLimits
    <2>3. IsFiniteSet(DOMAIN grown) /\ Cardinality(DOMAIN grown) <= MaxPrincipals
      <3>1. /\ IsFiniteSet(DOMAIN grown)
            /\ Cardinality(DOMAIN grown) = IF p \in DOMAIN cache THEN Cardinality(DOMAIN cache)
                                           ELSE Cardinality(DOMAIN cache) + 1
        BY <1>2, <1>5, FS_AddElement
      <3> QED
        BY <1>2, <1>4, <3>1, ReplayLimits
    <2>4. ASSUME NEW q \in DOMAIN grown
          PROVE  /\ DOMAIN grown[q] # {} /\ IsFiniteSet(DOMAIN grown[q])
                 /\ Cardinality(DOMAIN grown[q]) <= MaxPrincipalEntries
      <3>1. CASE q # p
        BY <1>1, <1>2, <1>5, <3>1 DEF Shrunk
      <3>2. CASE q = p /\ p \in DOMAIN cache
        <4>1. DOMAIN grown[q] = DOMAIN cache[p] \cup {n}
          BY <1>5, <3>2
        <4>2. /\ IsFiniteSet(DOMAIN grown[q])
              /\ Cardinality(DOMAIN grown[q]) = Cardinality(DOMAIN cache[p]) + 1
          BY <1>2, <1>3, <3>2, <4>1, FS_AddElement
        <4> QED
          BY <1>2, <1>4, <3>2, <4>1, <4>2, ReplayLimits
      <3>3. CASE q = p /\ p \notin DOMAIN cache
        <4>1. DOMAIN grown[q] = {n}
          BY <1>5, <3>3
        <4>2. IsFiniteSet(DOMAIN grown[q]) /\ Cardinality(DOMAIN grown[q]) = 1
          BY <4>1, FS_Singleton
        <4> QED
          BY <4>1, <4>2, ReplayLimits
      <3> QED
        BY <3>1, <3>2, <3>3
    <2> QED
      BY <2>1, <2>2, <2>3, <2>4 DEF Bucketed, Auth!EntriesOf
  <1>9. Remembered'
    <2>1. admitted' \in [AuthPrincipals \X Nonces -> Int]
      BY DEF AuthInv, Remembered
    <2>2. ASSUME NEW q \in DOMAIN grown, NEW m \in DOMAIN grown[q]
          PROVE  grown[q][m] \in Int
      <3>1. CASE q = p /\ m = n
        BY <1>5, <3>1
      <3>2. CASE ~(q = p /\ m = n)
        <4>1. /\ q \in DOMAIN cache /\ m \in DOMAIN cache[q]
              /\ grown[q][m] = cache[q][m]
          BY <1>5, <3>2
        <4>2. /\ q \in DOMAIN entries /\ m \in DOMAIN entries[q]
              /\ cache[q][m] = entries[q][m]
          BY <1>1, <4>1 DEF Shrunk
        <4> QED
          BY <4>1, <4>2 DEF AuthInv, Remembered
      <3> QED
        BY <3>1, <3>2
    <2>3. ASSUME NEW q \in AuthPrincipals, NEW m \in Nonces, admitted'[<<q, m>>] > authClock
          PROVE  /\ q \in DOMAIN grown /\ m \in DOMAIN grown[q]
                 /\ grown[q][m] >= admitted'[<<q, m>>]
      <3>1. CASE q = p /\ m = n
        <4>1. admitted[<<p, n>>] \in Int /\ authClock \in Int
          BY DEF AuthInv, Remembered, CallersOK
        <4>2. admitted'[<<q, m>>] = IF expiry > admitted[<<p, n>>] THEN expiry
                                    ELSE admitted[<<p, n>>]
          BY <3>1 DEF AuthInv, Remembered
        <4>3. admitted'[<<q, m>>] = expiry
          BY <1>3, <2>3, <4>1, <4>2
        <4> QED
          BY <1>5, <3>1, <4>3
      <3>2. CASE ~(q = p /\ m = n)
        <4>1. admitted'[<<q, m>>] = admitted[<<q, m>>]
          BY <3>2 DEF AuthInv, Remembered
        <4>2. /\ q \in DOMAIN entries /\ m \in DOMAIN entries[q]
              /\ entries[q][m] >= admitted[<<q, m>>] /\ entries[q][m] \in Int
              /\ admitted[<<q, m>>] \in Int /\ authClock \in Int
          BY <2>3, <4>1 DEF AuthInv, Remembered, CallersOK
        <4>3. entries[q][m] > now
          BY <2>3, <4>1, <4>2
        <4>4. /\ q \in DOMAIN cache /\ m \in DOMAIN cache[q]
              /\ cache[q][m] = entries[q][m]
          BY <1>1, <4>2, <4>3 DEF Shrunk
        <4>5. q \in DOMAIN grown /\ m \in DOMAIN grown[q] /\ grown[q][m] = cache[q][m]
          BY <1>5, <3>2, <4>4
        <4> QED
          BY <4>1, <4>2, <4>4, <4>5
      <3> QED
        BY <3>1, <3>2
    <2> QED
      BY <2>1, <2>2, <2>3 DEF Remembered
  <1> QED
    BY <1>8, <1>9

LEMMA AdmitKeeps ==
    ASSUME AuthInv, NEW c \in AuthCallers, Auth!admit(c)
    PROVE  AuthInv'
  <1> DEFINE s == signed[c]
  <1>1. /\ authStep[c] = "admit" /\ authStep' = [authStep EXCEPT ![c] = "idle"]
        /\ signed' = [signed EXCEPT ![c] = Auth!Unsigned]
        /\ verifiedAt' = [verifiedAt EXCEPT ![c] = 0]
        /\ UNCHANGED <<authClock, hashing>>
    BY DEF Auth!admit, Auth!Go, Auth!Forget
  <1>2. /\ s.principal \in AuthPrincipals /\ s.nonce \in Nonces /\ s.timestamp \in Int
        /\ s.timestamp + Skew \in Int
        /\ verifiedAt[c] \in Int /\ verifiedAt[c] <= authClock
    BY <1>1, ReplayLimits DEF AuthInv, CallersOK, Auth!Signatures
  <1>3. CallersOK'
    <2>1. 0 <= authClock
      BY DEF AuthInv, CallersOK
    <2> QED
      BY <1>1, <2>1 DEF AuthInv, CallersOK, AuthSteps
  <1>4. CASE Auth!AdmitDuplicate(c, s.principal, s.nonce, verifiedAt[c])
    <2>1. /\ entries' = Auth!Prune(entries, {s.principal}, verifiedAt[c])
          /\ total' = total - Cardinality(Auth!EntriesOf(entries))
                         + Cardinality(Auth!EntriesOf(entries'))
          /\ UNCHANGED admitted
      BY <1>4, AuthCounts DEF Auth!AdmitDuplicate
    <2>2. Shrunk(entries', verifiedAt[c])
      BY <2>1, SweptShrinks
    <2>3. /\ total = Cardinality(Auth!EntriesOf(entries)) /\ total \in Nat
          /\ Cardinality(Auth!EntriesOf(entries')) \in Nat
      BY <2>2, ShrunkCounts, FS_CardinalityType DEF AuthInv, Bucketed
    <2>4. total' = Cardinality(Auth!EntriesOf(entries'))
      BY <2>1, <2>3
    <2> QED
      BY <1>1, <1>2, <1>3, <2>1, <2>2, <2>4, ShrinkingKeeps DEF AuthInv
  <1>5. CASE Auth!AdmitCapacity(c, s.principal, s.nonce, verifiedAt[c])
    <2>1. /\ entries' = Auth!Swept(s.principal, verifiedAt[c])
          /\ total' = Auth!Count(s.principal, verifiedAt[c]) /\ UNCHANGED admitted
      BY <1>5 DEF Auth!AdmitCapacity
    <2>2. Shrunk(entries', verifiedAt[c])
      BY <2>1, SweptShrinks
    <2>3. total' = Cardinality(Auth!EntriesOf(entries'))
      BY <2>1, CountIsExact
    <2> QED
      BY <1>1, <1>2, <1>3, <2>1, <2>2, <2>3, ShrinkingKeeps DEF AuthInv
  <1>6. CASE Auth!AdmitAccepted(c, s.principal, s.nonce, verifiedAt[c])
    <2> PICK p \in AuthPrincipals, n \in Nonces, now \in Int, expiry \in Int :
           /\ p = s.principal /\ n = s.nonce /\ now = verifiedAt[c]
           /\ expiry = s.timestamp + Skew
      BY <1>2
    <2>1. /\ ~Auth!Known(p, n, now) /\ ~Auth!Full(p, now)
          /\ entries' = Auth!Put(Auth!Swept(p, now), p, n, expiry)
          /\ total' = Auth!Count(p, now) + 1
          /\ admitted' = [admitted EXCEPT ![<<p, n>>] = IF expiry > @ THEN expiry ELSE @]
      BY <1>6 DEF Auth!AdmitAccepted
    <2> QED
      BY <1>1, <1>2, <1>3, <2>1, AcceptedKeeps DEF AuthInv
  <1> QED
    BY <1>4, <1>5, <1>6 DEF Auth!admit

\* Until it is admitted, a request leaves the cache alone.
LEMMA WayToAdmitKeeps ==
    ASSUME AuthInv, NEW c \in AuthCallers,
           Auth!AcquireHashSlot(c) \/ Auth!HashBody(c) \/ Auth!Verify(c)
    PROVE  AuthInv'
  <1>1. UNCHANGED <<authClock, entries, total, admitted>>
    BY DEF Auth!AcquireHashSlot, Auth!HashBody, Auth!Verify
  <1>2. Remembered' /\ Bucketed'
    BY <1>1 DEF AuthInv, Remembered, Bucketed, Auth!EntriesOf
  <1>3. CallersOK'
    <2>1. CASE Auth!AcquireHashSlot(c)
      BY <1>1, <2>1 DEF AuthInv, CallersOK, AuthSteps, Auth!AcquireHashSlot, Auth!Go
    <2>2. CASE Auth!HashBody(c)
      BY <1>1, <2>2 DEF AuthInv, CallersOK, AuthSteps, Auth!HashBody, Auth!Go, Auth!Forget
    <2>3. CASE Auth!Verify(c)
      BY <1>1, <2>3 DEF AuthInv, CallersOK, AuthSteps, Auth!Verify, Auth!Go, Auth!Forget
    <2> QED
      BY <2>1, <2>2, <2>3
  <1> QED
    BY <1>2, <1>3 DEF AuthInv

LEMMA AuthInvInit == Auth!Init => AuthInv
  <1> SUFFICES ASSUME Auth!Init PROVE AuthInv
    OBVIOUS
  <1>1. CallersOK /\ Remembered
    BY DEF Auth!Init, CallersOK, Remembered, AuthSteps
  <1>2. DOMAIN entries = {} /\ total = 0 /\ Auth!EntriesOf(entries) = {}
    BY DEF Auth!Init, Auth!EntriesOf
  <1>3. Bucketed
    BY <1>2, FS_EmptySet, ReplayLimits DEF Bucketed
  <1> QED
    BY <1>1, <1>3 DEF AuthInv

LEMMA AuthInvNext == AuthInv /\ [Auth!Next]_(Auth!vars) => AuthInv'
  <1> SUFFICES ASSUME AuthInv, [Auth!Next]_(Auth!vars) PROVE AuthInv'
    OBVIOUS
  <1>1. CASE Auth!Tick
    <2>1. /\ authClock' = authClock + 1 /\ authClock \in Int
          /\ UNCHANGED <<entries, total, authStep, signed, verifiedAt, admitted>>
      BY <1>1 DEF Auth!Tick, AuthInv, CallersOK
    <2>2. CallersOK' /\ Remembered'
      BY <2>1 DEF AuthInv, CallersOK, Remembered
    <2>3. Bucketed'
      BY <2>1 DEF AuthInv, Bucketed, Auth!EntriesOf
    <2> QED
      BY <2>2, <2>3 DEF AuthInv
  <1>2. CASE UNCHANGED Auth!vars
    BY <1>2 DEF Auth!vars, AuthInv, CallersOK, Remembered, Bucketed, Auth!EntriesOf
  <1> QED
    BY <1>1, <1>2, AdmitKeeps, WayToAdmitKeeps DEF Auth!Next

\* The pool, the count and the cache of the replay cache agree with one another and
\* with their limits.
LEMMA Consistent == AuthInv => Auth!CacheConsistent
  <1> SUFFICES ASSUME AuthInv PROVE Auth!CacheConsistent
    OBVIOUS
  <1>1. ASSUME NEW p \in DOMAIN entries
        PROVE  Cardinality(DOMAIN entries[p]) \in 1 .. MaxPrincipalEntries
    <2>1. /\ DOMAIN entries[p] # {} /\ IsFiniteSet(DOMAIN entries[p])
          /\ Cardinality(DOMAIN entries[p]) <= MaxPrincipalEntries
      BY DEF AuthInv, Bucketed
    <2>2. /\ Cardinality(DOMAIN entries[p]) \in Nat
          /\ Cardinality(DOMAIN entries[p]) # 0
      BY <2>1, FS_CardinalityType, FS_EmptySet
    <2> QED
      BY <2>1, <2>2, ReplayLimits
  <1> QED
    BY <1>1, AuthCounts DEF AuthInv, Bucketed, Auth!CacheConsistent

\* Pruned for good, the cache has the buckets that the sweep leaves, and if the
\* sweep made do with the principal's own bucket, that one is the same.
LEMMA SweepsAgree ==
    ASSUME NEW p, NEW now
    PROVE  LET own  == Auth!Prune(entries, {p}, now)
               live == Auth!Prune(entries, DOMAIN entries, now)
           IN  /\ Auth!Prune(own, DOMAIN own, now) = live
               /\ p \in DOMAIN own <=> p \in DOMAIN live
               /\ p \in DOMAIN own => own[p] = live[p]
  <1> DEFINE own  == Auth!Prune(entries, {p}, now)
             live == Auth!Prune(entries, DOMAIN entries, now)
             all  == Auth!Prune(own, DOMAIN own, now)
  <1>1. ASSUME NEW bucket PROVE Auth!Live(Auth!Live(bucket, now), now) = Auth!Live(bucket, now)
    BY DEF Auth!Live, Auth!Restrict
  <1>2. /\ \A q : q \in DOMAIN own <=>
                   q \in DOMAIN entries /\ (q \in {p} => DOMAIN Auth!Live(entries[q], now) # {})
        /\ \A q \in DOMAIN own :
              own[q] = IF q \in {p} THEN Auth!Live(entries[q], now) ELSE entries[q]
    <2> HIDE DEF own
    <2>1. own = Auth!Prune(entries, {p}, now)
      BY DEF own
    <2> QED
      BY <2>1, PruneFacts
  <1>3. /\ \A q : q \in DOMAIN live <=>
                   q \in DOMAIN entries /\ DOMAIN Auth!Live(entries[q], now) # {}
        /\ \A q \in DOMAIN live : live[q] = Auth!Live(entries[q], now)
    <2> HIDE DEF live
    <2>1. live = Auth!Prune(entries, DOMAIN entries, now)
      BY DEF live
    <2> QED
      BY <2>1, PruneFacts
  <1>4. /\ \A q : q \in DOMAIN all <=> q \in DOMAIN own /\ DOMAIN Auth!Live(own[q], now) # {}
        /\ \A q \in DOMAIN all : all[q] = Auth!Live(own[q], now)
    <2> HIDE DEF own, all
    <2>1. all = Auth!Prune(own, DOMAIN own, now)
      BY DEF all
    <2> QED
      BY <2>1, PruneFacts
  <1>5. all = [q \in DOMAIN all |-> all[q]] /\ live = [q \in DOMAIN live |-> live[q]]
    BY DEF Auth!Prune
  <1> HIDE DEF own, live, all
  <1>6. ASSUME NEW q \in DOMAIN own
        PROVE  Auth!Live(own[q], now) = Auth!Live(entries[q], now)
    BY <1>1, <1>2
  <1>7. \A q : q \in DOMAIN all <=> q \in DOMAIN live
    BY <1>2, <1>3, <1>4, <1>6
  <1>8. \A q \in DOMAIN all : all[q] = live[q]
    BY <1>3, <1>4, <1>6, <1>7
  <1>9. all = live
    BY <1>5, <1>7, <1>8
  <1>10. /\ p \in DOMAIN own <=> p \in DOMAIN live
         /\ p \in DOMAIN own => own[p] = live[p]
    BY <1>2, <1>3
  <1> QED
    BY <1>9, <1>10 DEF own, live, all

LEMMA FullMeansLive ==
    ASSUME AuthInv, NEW p, NEW now, Auth!Full(p, now)
    PROVE  LET live == Auth!Prune(entries, DOMAIN entries, now)
           IN  \/ Cardinality(Auth!EntriesOf(live)) >= MaxEntries
               \/ p \notin DOMAIN live /\ Cardinality(DOMAIN live) >= MaxPrincipals
               \/ p \in DOMAIN live /\ Cardinality(DOMAIN live[p]) >= MaxPrincipalEntries
  <1> DEFINE own  == Auth!Prune(entries, {p}, now)
             live == Auth!Prune(entries, DOMAIN entries, now)
             seen == total - (Cardinality(Auth!EntriesOf(entries))
                                 - Cardinality(Auth!EntriesOf(own)))
  <1>1. /\ Auth!Prune(own, DOMAIN own, now) = live
        /\ p \in DOMAIN own <=> p \in DOMAIN live
        /\ p \in DOMAIN own => own[p] = live[p]
    BY SweepsAgree
  <1>2. Auth!Swept(p, now) = IF Auth!Crowded(own, seen, p) THEN live ELSE own
    BY <1>1, AuthCounts DEF Auth!Swept
  <1>3. seen = Cardinality(Auth!EntriesOf(own))
    <2>1. Cardinality(Auth!EntriesOf(own)) \in Nat
      BY SweptShrinks, ShrunkCounts
    <2>2. total = Cardinality(Auth!EntriesOf(entries)) /\ total \in Nat
      BY FS_CardinalityType DEF AuthInv, Bucketed
    <2> QED
      BY <2>1, <2>2
  <1>4. Auth!Count(p, now) = Cardinality(Auth!EntriesOf(Auth!Swept(p, now)))
    BY CountIsExact
  <1> HIDE DEF own, live, seen
  <1>5. CASE Auth!Crowded(own, seen, p)
    BY <1>2, <1>4, <1>5, AuthCounts DEF Auth!Full, Auth!Crowded, live
  <1>6. CASE ~Auth!Crowded(own, seen, p)
    <2>1. Auth!Swept(p, now) = own /\ Auth!Count(p, now) = seen
      BY <1>2, <1>3, <1>4, <1>6
    <2>2. p \in DOMAIN own /\ Cardinality(DOMAIN own[p]) >= MaxPrincipalEntries
      BY <1>6, <2>1, AuthCounts DEF Auth!Full
    <2> QED
      BY <1>1, <2>2 DEF live
  <1> QED
    BY <1>5, <1>6

LEMMA FocusedAuth == [MCNext]_<<focus, vars, authVars, rateVars>> => [Auth!Next]_(Auth!vars)
  BY DEF MCNext, authVars, Auth!vars

LEMMA AuthInductive == MCSpec => []AuthInv
  <1>1. MCInit => AuthInv
    BY AuthInvInit DEF MCInit
  <1>2. AuthInv /\ [MCNext]_<<focus, vars, authVars, rateVars>> => AuthInv'
    BY FocusedAuth, AuthInvNext
  <1> QED
    BY <1>1, <1>2, PTL DEF MCSpec

\* The cache's own count is the number of its entries, its limits hold, and nobody
\* keeps an empty bucket (platformReplayCache.admit).
THEOREM CacheStaysConsistent == MCSpec => []Auth!CacheConsistent
  BY AuthInductive, Consistent, PTL

\* A nonce that was admitted is refused until its expiry, in whatever order the
\* callers get from verifyPlatformPrincipalSignature to platformReplayCache.admit.
THEOREM NoReplay == MCSpec => NoReuseBeforeExpiry
  <1>1. ASSUME AuthInv, NEW c \in AuthCallers, authStep[c] = "admit",
               Auth!AdmitAccepted(c, signed[c].principal, signed[c].nonce, verifiedAt[c])
        PROVE  authClock >= admitted[<<signed[c].principal, signed[c].nonce>>]
    <2>1. /\ signed[c].principal \in AuthPrincipals /\ signed[c].nonce \in Nonces
          /\ verifiedAt[c] \in Int /\ verifiedAt[c] <= authClock /\ authClock \in Int
      BY <1>1 DEF AuthInv, CallersOK, Auth!Signatures
    <2>2. admitted[<<signed[c].principal, signed[c].nonce>>] \in Int
      BY <1>1, <2>1 DEF AuthInv, Remembered
    <2>3. ~Auth!Known(signed[c].principal, signed[c].nonce, verifiedAt[c])
      BY <1>1 DEF Auth!AdmitAccepted
    <2>4. admitted[<<signed[c].principal, signed[c].nonce>>] <= authClock
      BY <1>1, <2>1, <2>3, UnknownIsOver
    <2> QED
      BY <2>1, <2>2, <2>4
  <1>2. AuthInv => Auth!AdmitsOnce
    BY <1>1 DEF Auth!AdmitsOnce
  <1> QED
    BY <1>2, AuthInductive, FocusedAuth, PTL
    DEF MCSpec, NoReuseBeforeExpiry, Auth!NoReuseBeforeExpiry

\* Whoever is refused for lack of room is refused because of entries that are live
\* (platformReplayCache.admit sweeps before it compares).
THEOREM RoomForTheLiving == MCSpec => RefusedOnlyWhenLive
  <1>1. AuthInv => Auth!RefusesForLive
    BY FullMeansLive, AuthCounts DEF Auth!RefusesForLive, Auth!AdmitCapacity
  <1> QED
    BY <1>1, AuthInductive, FocusedAuth, PTL
    DEF MCSpec, RefusedOnlyWhenLive, Auth!RefusedOnlyWhenLive
=============================================================================
