---------------------------- MODULE StreamsProofs ----------------------------
(***************************************************************************)
(* The way of a result to the caller of another server, for every size of  *)
(* frames, texts and limits and for all clocks.                            *)
(*                                                                         *)
(* CPU time: both verdicts amount to raw * reference > limit * observed *  *)
(* NsPerMs; CeilWithin and FloorWithin remove the roundings, ScaledWithin  *)
(* the two-part conversion of the limit, and the constants keep every      *)
(* result clear of the saturation.                                         *)
(*                                                                         *)
(* Writers: the counters are the bytes on the wire (CountsOK), which needs *)
(* the frame between its last line and its counting (Uncounted) and what   *)
(* the budget had let through (Admitted).                                  *)
(*                                                                         *)
(* Cut: the search keeps a share that fits below and one that does not     *)
(* above (ClipInv); sums are compared by the sets they count.              *)
(*                                                                         *)
(* Client: the lines not yet read begin where the reader is and end where  *)
(* the peer is (ReaderOK), and a cancelled context has a cause (CauseOK).  *)
(***************************************************************************)
EXTENDS MCStreams, FiniteSetTheorems, SequenceTheorems, WellFoundedInduction, TLAPS

-----------------------------------------------------------------------------
(* Two clocks *)

\* Integer division as the code uses it.
LEMMA DivMod ==
    ASSUME NEW a \in Nat, NEW b \in Nat, b > 0
    PROVE  /\ a \div b \in Nat /\ a % b \in Nat /\ a % b < b
           /\ a = b * (a \div b) + (a % b)
OBVIOUS

\* Multiplying by a natural number keeps the order.
LEMMA MulMono == ASSUME NEW x \in Int, NEW y \in Int, NEW z \in Nat, x <= y
                 PROVE  x * z <= y * z
OBVIOUS

\* A smaller product has the smaller factor.
LEMMA MulCancel == ASSUME NEW x \in Int, NEW y \in Int, NEW z \in Nat, x * z < y * z
                   PROVE  x < y
OBVIOUS

\* Products of natural numbers are natural numbers.
LEMMA MulClosed == ASSUME NEW x \in Nat, NEW y \in Nat PROVE x * y \in Nat
OBVIOUS

\* Rounded down: an integer is within the quotient iff its product is within the dividend.
LEMMA FloorWithin ==
    ASSUME NEW a \in Nat, NEW b \in Nat, b > 0, NEW x \in Int
    PROVE  x <= a \div b <=> x * b <= a
<1> DEFINE q == a \div b
           r == a % b
<1>1. q \in Nat /\ r \in Nat /\ r < b /\ a = q * b + r
  BY DivMod
<1> HIDE DEF q, r
<1>2. ASSUME x <= q PROVE x * b <= a
  <2>1. x * b <= q * b
    BY <1>1, <1>2, MulMono
  <2>2. x * b \in Int /\ q * b \in Int
    BY <1>1
  <2> QED
    BY <2>1, <2>2, <1>1
<1>3. ASSUME x * b <= a PROVE x <= q
  <2>1. x * b < q * b + b
    BY <1>1, <1>3
  <2>2. q * b + b = (q + 1) * b
    BY <1>1
  <2>3. x < q + 1
    BY <2>1, <2>2, <1>1, MulCancel
  <2> QED
    BY <2>3, <1>1
<1> QED
  BY <1>2, <1>3 DEF q

\* Rounded up: the quotient is within an integer iff the dividend is within its product.
LEMMA CeilWithin ==
    ASSUME NEW a \in Nat, NEW b \in Nat, b > 0, NEW c \in Nat
    PROVE  CeilDiv(a, b) \in Nat /\ (CeilDiv(a, b) <= c <=> a <= c * b)
<1> DEFINE q == a \div b
           r == a % b
<1>1. q \in Nat /\ r \in Nat /\ r < b /\ a = q * b + r
  BY DivMod
<1>2. CeilDiv(a, b) = IF r = 0 THEN q ELSE q + 1
  BY DEF CeilDiv
<1> HIDE DEF q, r
<1>3. q * b \in Nat /\ c * b \in Nat
  BY <1>1, MulClosed
<1>4. q <= c => q * b <= c * b
  BY <1>1, MulMono
<1>5. q + 1 <= c => (q + 1) * b <= c * b
  BY <1>1, MulMono
<1>6. (q + 1) * b = q * b + b
  BY <1>1
<1>7. c < q => c + 1 <= q /\ (c + 1) * b <= q * b
  BY <1>1, MulMono
<1>8. (c + 1) * b = c * b + b
  OBVIOUS
<1>9. c <= q => c * b <= q * b
  BY <1>1, MulMono
<1> QED
  BY <1>1, <1>2, <1>3, <1>4, <1>5, <1>6, <1>7, <1>8, <1>9

-----------------------------------------------------------------------------
(* The conversions *)

\* The converted limit, before saturation, is the exact quotient rounded down: its two
\* parts lose nothing.
LEMMA ScaledWithin ==
    ASSUME ConstantsFit,
           NEW allowed \in 1 .. MaxTimeMs, NEW ref \in Nat, NEW obs \in Nat,
           ref > 0, obs <= ref * MaxRatio
    PROVE  /\ Scaled(allowed, ref, obs) \in Nat
           /\ \A raw \in Nat : raw <= Scaled(allowed, ref, obs)
                                   <=> raw * ref <= (allowed * NsPerMs) * obs
<1> DEFINE P == allowed * obs
           w == P \div ref
           r == P % ref
           S == w * NsPerMs + (r * NsPerMs) \div ref
<1>0. /\ allowed \in Nat /\ MaxTimeMs \in Nat /\ NsPerMs \in Nat /\ NsPerMs > 0
      /\ MaxRatio \in Nat /\ MaxWord \in Nat /\ allowed <= MaxTimeMs
  BY DEF ConstantsFit
<1>1. P \in Nat
  BY <1>0, MulClosed
<1>2. w \in Nat /\ r \in Nat /\ P = w * ref + r
  BY <1>1, DivMod
<1> HIDE DEF P, w, r
<1>3. w * NsPerMs \in Nat /\ r * NsPerMs \in Nat /\ (r * NsPerMs) \div ref \in Nat
  BY <1>0, <1>2, MulClosed, DivMod
<1>4. S \in Nat
  BY <1>3
<1>5. P * NsPerMs = (w * NsPerMs) * ref + r * NsPerMs
  BY <1>0, <1>2
<1>6. P * NsPerMs = (allowed * NsPerMs) * obs
  BY <1>0 DEF P
<1>7. ASSUME NEW raw \in Nat
      PROVE  raw <= S <=> raw * ref <= P * NsPerMs
  <2>1. raw - w * NsPerMs <= (r * NsPerMs) \div ref
            <=> (raw - w * NsPerMs) * ref <= r * NsPerMs
    BY <1>3, FloorWithin
  <2>2. (raw - w * NsPerMs) * ref = raw * ref - (w * NsPerMs) * ref
    BY <1>3
  <2>3. raw * ref \in Int /\ (w * NsPerMs) * ref \in Int
    BY <1>3
  <2> QED
    BY <2>1, <2>2, <2>3, <1>3, <1>5
<1>8. S <= MaxWord
  <2> DEFINE M == (MaxTimeMs * MaxRatio) * NsPerMs
  <2>1. S * ref <= P * NsPerMs
    BY <1>4, <1>7
  <2>2. P * NsPerMs <= M * ref
    <3>1. allowed * NsPerMs \in Nat /\ MaxTimeMs * NsPerMs \in Nat /\ ref * MaxRatio \in Nat
      BY <1>0, MulClosed
    <3>2. (allowed * NsPerMs) * obs <= (allowed * NsPerMs) * (ref * MaxRatio)
      BY <3>1, MulMono
    <3>3. allowed * NsPerMs <= MaxTimeMs * NsPerMs
      BY <1>0, MulMono
    <3>4. (allowed * NsPerMs) * (ref * MaxRatio) <= (MaxTimeMs * NsPerMs) * (ref * MaxRatio)
      BY <3>1, <3>3, MulMono
    <3>5. (MaxTimeMs * NsPerMs) * (ref * MaxRatio) = M * ref
      BY <1>0
    <3> QED
      BY <3>1, <3>2, <3>4, <3>5, <1>6, MulClosed
  <2>3. M \in Nat /\ M < MaxWord
    BY <1>0, MulClosed DEF ConstantsFit
  <2>4. CASE M < S
    <3>1. (M + 1) * ref <= S * ref
      BY <2>3, <2>4, <1>4, MulMono
    <3>2. (M + 1) * ref = M * ref + ref
      BY <2>3
    <3>3. M * ref \in Nat /\ S * ref \in Nat
      BY <2>3, <1>4, MulClosed
    <3> HIDE DEF M, S
    <3> QED
      BY <3>1, <3>2, <3>3, <2>1, <2>2, <1>1, <1>0, MulClosed
  <2> HIDE DEF M
  <2> QED
    BY <2>3, <2>4, <1>4, <1>0
<1>9. Scaled(allowed, ref, obs) = Least(MaxWord, S)
  BY DEF Scaled, P, w, r
<1>10. Least(MaxWord, S) = S
  BY <1>0, <1>4, <1>8 DEF Least
<1> HIDE DEF S
<1> QED
  BY <1>4, <1>6, <1>7, <1>9, <1>10

\* The time of the reference host, in milliseconds, is within a limit iff the exact
\* quotient is: saturation is far above every limit.
LEMMA ReportWithin ==
    ASSUME ConstantsFit,
           NEW allowed \in 1 .. MaxTimeMs, NEW ref \in Nat, NEW obs \in Nat, NEW raw \in Nat, obs > 0
    PROVE  ceilCPUMilliseconds(mulDivCeilUint64(raw, ref, obs)) <= allowed
               <=> raw * ref <= (allowed * NsPerMs) * obs
<1> DEFINE C == CeilDiv(raw * ref, obs)
           N == mulDivCeilUint64(raw, ref, obs)
<1>0. /\ allowed \in Nat /\ NsPerMs \in Nat /\ NsPerMs > 0 /\ MaxWord \in Nat
      /\ raw * ref \in Nat /\ allowed * NsPerMs \in Nat
  BY MulClosed DEF ConstantsFit
<1>1. C \in Nat /\ (C <= allowed * NsPerMs <=> raw * ref <= (allowed * NsPerMs) * obs)
  BY <1>0, CeilWithin
<1>2. N = Least(MaxWord, C)
  BY DEF mulDivCeilUint64
<1> HIDE DEF C, N
<1>3. allowed * NsPerMs < MaxWord
  <2>1. MaxTimeMs \in Nat /\ MaxRatio \in Nat /\ MaxRatio >= 1
    BY DEF ConstantsFit
  <2>2. allowed <= MaxTimeMs * MaxRatio
    <3>1. 1 * MaxTimeMs <= MaxRatio * MaxTimeMs
      BY <2>1, MulMono
    <3> QED
      BY <2>1, <3>1, MulClosed
  <2>3. allowed * NsPerMs <= (MaxTimeMs * MaxRatio) * NsPerMs
    BY <2>1, <2>2, <1>0, MulMono, MulClosed
  <2> QED
    BY <2>1, <2>3, <1>0, MulClosed DEF ConstantsFit
<1>4. N \in Nat /\ (N <= allowed * NsPerMs <=> C <= allowed * NsPerMs)
  BY <1>0, <1>1, <1>2, <1>3 DEF Least
<1>5. CeilDiv(N, NsPerMs) <= allowed <=> N <= allowed * NsPerMs
  BY <1>0, <1>4, CeilWithin
<1> QED
  BY <1>1, <1>4, <1>5 DEF ceilCPUMilliseconds, N

-----------------------------------------------------------------------------
(* What every supported host does with a allowed *)

Host(ref, obs) == \/ ref = 0 /\ obs = 0
                  \/ ref > 0 /\ obs > 0 /\ ref <= obs * MaxRatio /\ obs <= ref * MaxRatio

\* The raw comparison of the sandbox is the one of the judge.
LEMMA Verdicts ==
    ASSUME ConstantsFit, NEW ref \in Nat, NEW obs \in Nat, Host(ref, obs),
           NEW allowed \in 1 .. MaxTimeMs, NEW raw \in Nat
    PROVE  raw > RawLimitNanoseconds(ref, obs, allowed)
               <=> ceilCPUMilliseconds(NormalizeNanoseconds(ref, obs, raw)) > allowed
<1>0. allowed \in Nat /\ NsPerMs \in Nat /\ NsPerMs > 0 /\ MaxRatio \in Nat /\ MaxRatio >= 1
  BY DEF ConstantsFit
<1>1. CASE ref > 0 /\ obs > 0 /\ obs <= ref * MaxRatio
  <2>1. /\ Scaled(allowed, ref, obs) \in Nat
        /\ raw <= Scaled(allowed, ref, obs) <=> raw * ref <= (allowed * NsPerMs) * obs
    BY <1>1, ScaledWithin
  <2>2. ceilCPUMilliseconds(mulDivCeilUint64(raw, ref, obs)) <= allowed
            <=> raw * ref <= (allowed * NsPerMs) * obs
    BY <1>1, ReportWithin
  <2>3. mulDivCeilUint64(raw, ref, obs) \in Nat
    <3>1. CeilDiv(raw * ref, obs) \in Nat
      BY <1>1, MulClosed, CeilWithin
    <3> QED
      BY <3>1 DEF mulDivCeilUint64, Least, ConstantsFit
  <2>4. ceilCPUMilliseconds(mulDivCeilUint64(raw, ref, obs)) \in Nat
    BY <2>3, <1>0, CeilWithin DEF ceilCPUMilliseconds
  <2>5. /\ RawLimitNanoseconds(ref, obs, allowed) = Scaled(allowed, ref, obs)
        /\ NormalizeNanoseconds(ref, obs, raw) = mulDivCeilUint64(raw, ref, obs)
    BY <1>1 DEF RawLimitNanoseconds, NormalizeNanoseconds, Enabled
  <2> QED
    BY <2>1, <2>2, <2>4, <2>5, <1>0
<1>2. CASE ref = 0 /\ obs = 0
  <2>1. /\ Scaled(allowed, 1, 1) \in Nat
        /\ raw <= Scaled(allowed, 1, 1) <=> raw * 1 <= (allowed * NsPerMs) * 1
    BY <1>0, ScaledWithin
  <2>2. CeilDiv(raw, NsPerMs) \in Nat /\ (CeilDiv(raw, NsPerMs) <= allowed <=> raw <= allowed * NsPerMs)
    BY <1>0, CeilWithin
  <2>3. /\ RawLimitNanoseconds(ref, obs, allowed) = Scaled(allowed, 1, 1)
        /\ NormalizeNanoseconds(ref, obs, raw) = raw
    BY <1>2 DEF RawLimitNanoseconds, NormalizeNanoseconds, Enabled
  <2>4. allowed * NsPerMs \in Nat
    BY <1>0, MulClosed
  <2> QED
    BY <2>1, <2>2, <2>3, <2>4, <1>0 DEF ceilCPUMilliseconds
<1> QED
  BY <1>1, <1>2 DEF Host

\* Rounding up keeps the order.
LEMMA CeilMono ==
    ASSUME NEW a \in Nat, NEW b \in Nat, NEW d \in Nat, d > 0, a <= b
    PROVE  CeilDiv(a, d) \in Nat /\ CeilDiv(b, d) \in Nat /\ CeilDiv(a, d) <= CeilDiv(b, d)
<1>1. CeilDiv(b, d) \in Nat
  BY CeilWithin
<1>2. b <= CeilDiv(b, d) * d
  BY <1>1, CeilWithin
<1>3. CeilDiv(b, d) * d \in Nat
  BY <1>1, MulClosed
<1> QED
  BY <1>1, <1>2, <1>3, CeilWithin

\* The slack grows with the base.
LEMMA Slack ==
    ASSUME ConstantsFit, NEW x \in Nat, NEW y \in Nat, x <= y
    PROVE  /\ mulDivCeilUint64(x, SlackPct, 100) \in Nat
           /\ mulDivCeilUint64(x, SlackPct, 100) <= mulDivCeilUint64(y, SlackPct, 100)
<1>1. SlackPct \in Nat /\ MaxWord \in Nat
  BY DEF ConstantsFit
<1>2. x * SlackPct \in Nat /\ y * SlackPct \in Nat /\ x * SlackPct <= y * SlackPct
  BY <1>1, MulClosed, MulMono
<1>3. /\ CeilDiv(x * SlackPct, 100) \in Nat /\ CeilDiv(y * SlackPct, 100) \in Nat
      /\ CeilDiv(x * SlackPct, 100) <= CeilDiv(y * SlackPct, 100)
  BY <1>2, CeilMono
<1> QED
  BY <1>1, <1>3 DEF mulDivCeilUint64, Least

Base(ref, obs, allowed) == Greatest(allowed, RawLimitMillis(ref, obs, allowed))

\* The whole milliseconds of any host are those of the slowest at most.
LEMMA Millis ==
    ASSUME ConstantsFit, NEW ref \in Nat, NEW obs \in Nat, Host(ref, obs),
           NEW allowed \in 1 .. MaxTimeMs
    PROVE  /\ Base(ref, obs, allowed) \in Nat
           /\ allowed <= Base(ref, obs, allowed)
           /\ ref > 0 => (allowed * obs) \div ref <= Base(ref, obs, allowed)
           /\ Base(ref, obs, allowed) <= allowed * MaxRatio
           /\ RawLimitMillis(1, MaxRatio, allowed) = allowed * MaxRatio
           /\ allowed * MaxRatio \in Nat /\ allowed * MaxRatio < MaxInt /\ MaxInt \in Nat
<1> DEFINE whole == (allowed * obs) \div ref
           most == allowed * MaxRatio
<1>0. /\ allowed \in Nat /\ allowed >= 1 /\ MaxTimeMs \in Nat /\ allowed <= MaxTimeMs /\ MaxWord \in Nat
      /\ MaxRatio \in Nat /\ MaxRatio >= 1 /\ MaxInt \in Nat /\ MaxInt <= MaxWord
  BY DEF ConstantsFit, MaxInt
<1>1. most \in Nat /\ allowed <= most /\ most < MaxInt
  <2>1. 1 * allowed <= MaxRatio * allowed
    BY <1>0, MulMono
  <2>2. allowed * MaxRatio <= MaxTimeMs * MaxRatio
    BY <1>0, MulMono
  <2> QED
    BY <2>1, <2>2, <1>0, MulClosed DEF ConstantsFit, MaxInt
<1>2. RawLimitMillis(1, MaxRatio, allowed) = most
  <2>1. most \div 1 = most
    BY <1>1
  <2>2. mulDivFloorUint64(allowed, MaxRatio, 1) = most
    BY <2>1, <1>0, <1>1 DEF mulDivFloorUint64, Least
  <2> QED
    BY <2>2, <1>0, <1>1 DEF RawLimitMillis, Enabled, Least
<1>3. CASE ref = 0 /\ obs = 0
  BY <1>0, <1>1, <1>2, <1>3 DEF Base, RawLimitMillis, Enabled, Greatest
<1>4. CASE ref > 0 /\ obs > 0 /\ obs <= ref * MaxRatio
  <2>1. allowed * obs \in Nat /\ whole \in Nat
    BY <1>4, <1>0, MulClosed, DivMod
  <2>2. whole <= most
    <3>1. allowed * obs <= allowed * (ref * MaxRatio)
      BY <1>4, <1>0, MulMono, MulClosed
    <3>2. allowed * (ref * MaxRatio) = most * ref
      BY <1>0
    <3>3. whole * ref <= allowed * obs
      BY <2>1, <1>4, FloorWithin
    <3>4. (most + 1) * ref = most * ref + ref
      BY <1>1
    <3>5. whole * ref < (most + 1) * ref
      BY <3>1, <3>2, <3>3, <3>4, <2>1, <1>1, <1>4, MulClosed
    <3>6. whole < most + 1
      BY <3>5, <2>1, <1>1, MulCancel
    <3> QED
      BY <3>6, <2>1, <1>1
  <2> HIDE DEF whole
  <2>3. mulDivFloorUint64(allowed, obs, ref) = whole
    BY <2>1, <2>2, <1>0, <1>1 DEF mulDivFloorUint64, Least, whole
  <2>4. RawLimitMillis(ref, obs, allowed) = IF whole = 0 THEN 1 ELSE whole
    BY <2>1, <2>2, <2>3, <1>0, <1>1, <1>4 DEF RawLimitMillis, Enabled, Least
  <2> HIDE DEF most
  <2> QED
    BY <2>1, <2>2, <2>4, <1>0, <1>1, <1>2 DEF Base, Greatest, whole, most
<1> QED
  BY <1>3, <1>4 DEF Host

\* The wall limit of any host, and how it relates to its whole milliseconds.
LEMMA Walls ==
    ASSUME ConstantsFit, NEW ref \in Nat, NEW obs \in Nat, Host(ref, obs),
           NEW allowed \in 1 .. MaxTimeMs
    PROVE  /\ WallLimitMillis(ref, obs, allowed) \in Nat
           /\ WallLimitMillis(ref, obs, allowed) <= MaximumCPUWallLimitMillis(allowed)
           /\ ref > 0 => (allowed * obs) \div ref < WallLimitMillis(ref, obs, allowed)
           /\ allowed <= WallLimitMillis(ref, obs, allowed)
<1> DEFINE slack(x) == Greatest(MinSlack, mulDivCeilUint64(x, SlackPct, 100))
           parts == Base(ref, obs, allowed)
           whole == (allowed * obs) \div ref
           most == allowed * MaxRatio
<1>0. /\ allowed \in Nat /\ MaxRatio \in Nat /\ MaxRatio >= 1
      /\ MinSlack \in Nat /\ MinSlack >= 1
  BY DEF ConstantsFit
<1>1. /\ parts \in Nat /\ allowed <= parts /\ parts <= most
      /\ ref > 0 => whole <= parts
      /\ RawLimitMillis(1, MaxRatio, allowed) = most
      /\ most \in Nat /\ most < MaxInt /\ MaxInt \in Nat
  BY Millis
<1>2. \A x \in Nat : slack(x) \in Nat /\ slack(x) >= 1
  <2> TAKE x \in Nat
  <2>1. mulDivCeilUint64(x, SlackPct, 100) \in Nat
    <3>1. x <= x
      OBVIOUS
    <3> QED
      BY <3>1, Slack
  <2> QED
    BY <2>1, <1>0 DEF Greatest
<1>3. \A x, y \in Nat : x <= y => slack(x) <= slack(y)
  BY <1>0, Slack DEF Greatest
<1>4. Greatest(allowed, most) = most
  BY <1>0, <1>1 DEF Greatest
<1>5. MaximumCPUWallLimitMillis(allowed) = Least(MaxInt, most + slack(most))
  BY <1>0, <1>1, <1>4 DEF MaximumCPUWallLimitMillis, WallLimitMillis, Enabled
<1>6. WallLimitMillis(ref, obs, allowed)
          = IF ref > 0 /\ obs > 0 THEN Least(MaxInt, parts + slack(parts)) ELSE allowed
  BY DEF WallLimitMillis, Enabled, Base
<1>7. ref > 0 => whole \in Nat
  BY <1>0, MulClosed, DivMod DEF Host
<1>8. /\ slack(parts) \in Nat /\ slack(parts) >= 1 /\ slack(most) \in Nat /\ slack(most) >= 1
      /\ slack(parts) <= slack(most)
  BY <1>1, <1>2, <1>3
<1>9. ref > 0 <=> obs > 0
  BY DEF Host
<1> HIDE DEF slack, parts, whole, most
<1>10. CASE ref > 0
  BY <1>0, <1>1, <1>5, <1>6, <1>7, <1>8, <1>9, <1>10 DEF Least, whole
<1>11. CASE ~(ref > 0)
  BY <1>0, <1>1, <1>5, <1>6, <1>8, <1>11 DEF Least
<1> QED
  BY <1>10, <1>11

\* A converted limit is a natural number.
LEMMA RawLimitType ==
    ASSUME ConstantsFit, NEW ref \in Nat, NEW obs \in Nat, Host(ref, obs),
           NEW allowed \in 1 .. MaxTimeMs
    PROVE  RawLimitNanoseconds(ref, obs, allowed) \in Nat
<1>1. MaxRatio \in Nat /\ MaxRatio >= 1
  BY DEF ConstantsFit
<1>2. CASE ref > 0
  BY <1>2, ScaledWithin DEF Host, RawLimitNanoseconds, Enabled
<1>3. CASE ref = 0
  BY <1>1, <1>3, ScaledWithin DEF Host, RawLimitNanoseconds, Enabled
<1> QED
  BY <1>2, <1>3

\* A CPU limit is covered by every number of milliseconds above its whole ones.
LEMMA Covers ==
    ASSUME ConstantsFit, NEW ref \in Nat, NEW obs \in Nat, Host(ref, obs),
           NEW allowed \in 1 .. MaxTimeMs,
           NEW W \in Nat, allowed <= W, ref > 0 => (allowed * obs) \div ref < W
    PROVE  RawLimitNanoseconds(ref, obs, allowed) <= W * NsPerMs
<1>0. allowed \in Nat /\ NsPerMs \in Nat /\ NsPerMs > 0 /\ MaxRatio \in Nat /\ MaxRatio >= 1
  BY DEF ConstantsFit
<1>1. W \in Nat /\ allowed <= W /\ (ref > 0 => (allowed * obs) \div ref < W)
  OBVIOUS
<1>2. CASE ref = 0 /\ obs = 0
  <2>1. RawLimitNanoseconds(ref, obs, allowed) = Scaled(allowed, 1, 1)
    BY <1>2 DEF RawLimitNanoseconds, Enabled
  <2> DEFINE S == Scaled(allowed, 1, 1)
  <2>2. S \in Nat /\ (S <= S <=> S * 1 <= (allowed * NsPerMs) * 1)
    BY <1>0, ScaledWithin
  <2> HIDE DEF S
  <2>3. S <= allowed * NsPerMs
    BY <2>2, <1>0, MulClosed
  <2>4. allowed * NsPerMs <= W * NsPerMs
    BY <1>0, <1>1, MulMono
  <2> QED
    BY <2>1, <2>2, <2>3, <2>4, <1>0, <1>1, MulClosed DEF S
<1>3. CASE ref > 0 /\ obs > 0 /\ obs <= ref * MaxRatio
  <2> DEFINE S == Scaled(allowed, ref, obs)
             P == allowed * obs
  <2>1. S \in Nat /\ S * ref <= (allowed * NsPerMs) * obs
    BY <1>3, ScaledWithin
  <2>2. RawLimitNanoseconds(ref, obs, allowed) = S
    BY <1>3 DEF RawLimitNanoseconds, Enabled
  <2>3. P \in Nat /\ ~(W <= P \div ref)
    <3>1. P \in Nat
      BY <1>0, MulClosed
    <3> QED
      BY <3>1, <1>1, <1>3, DivMod
  <2>4. ~(W * ref <= P)
    BY <2>3, <1>1, <1>3, FloorWithin
  <2>5. (allowed * NsPerMs) * obs = P * NsPerMs
    BY <1>0
  <2> HIDE DEF P, S
  <2>6. P * NsPerMs <= (W * ref) * NsPerMs
    BY <2>3, <2>4, <1>0, <1>1, MulMono, MulClosed
  <2>7. (W * ref) * NsPerMs = (W * NsPerMs) * ref
    BY <1>0, <1>1
  <2>8. W * NsPerMs \in Nat
    BY <1>0, <1>1, MulClosed
  <2>9. CASE W * NsPerMs < S
    <3>1. (W * NsPerMs + 1) * ref <= S * ref
      BY <2>1, <2>8, <2>9, MulMono
    <3>2. (W * NsPerMs + 1) * ref = (W * NsPerMs) * ref + ref
      BY <2>8
    <3>3. (W * NsPerMs) * ref \in Nat /\ S * ref \in Nat /\ P * NsPerMs \in Nat
      BY <2>1, <2>3, <2>8, <1>0, MulClosed
    <3> QED
      BY <3>1, <3>2, <3>3, <2>1, <2>5, <2>6, <2>7, <1>3
  <2> QED
    BY <2>1, <2>2, <2>8, <2>9
<1> QED
  BY <1>2, <1>3 DEF Host

-----------------------------------------------------------------------------
(* Communications *)

\* A quotient is never above its dividend.
LEMMA CeilAtMost ==
    ASSUME NEW a \in Nat, NEW b \in Nat, b >= 1
    PROVE  CeilDiv(a, b) \in Nat /\ CeilDiv(a, b) <= a
<1>1. CeilDiv(a, b) \in Nat /\ (CeilDiv(a, b) <= a <=> a <= a * b)
  BY CeilWithin
<1>2. 1 * a <= b * a
  BY MulMono
<1>3. a <= a * b
  BY <1>2
<1> QED
  BY <1>1, <1>3

\* One CPU needs the most waves, and the slack has room for a millisecond of each.
LEMMA Waves ==
    ASSUME ConstantsFit, NEW participants \in 1 .. MaxParticipants, NEW cpus \in 1 .. MaxCPUs
    PROVE  /\ waves(participants, cpus) \in Nat
           /\ waves(participants, cpus) <= waves(participants, 1)
           /\ waves(participants, 1) \in Nat /\ waves(participants, 1) <= MatchMinSlack
<1> DEFINE eff == Greatest(1, cpus - 1)
           n == participants + 1
<1>1. /\ MaxParticipants \in Nat /\ MaxCPUs \in Nat /\ MatchMinSlack \in Nat
      /\ MaxParticipants < MatchMinSlack
  BY DEF ConstantsFit
<1>2. n \in Nat /\ n <= MatchMinSlack /\ eff \in Nat /\ eff >= 1 /\ Greatest(1, 1 - 1) = 1
  BY <1>1 DEF Greatest
<1> HIDE DEF eff, n
<1>3. CeilDiv(n, 1) = n
  BY <1>2 DEF CeilDiv
<1>4. CeilDiv(n, eff) \in Nat /\ CeilDiv(n, eff) <= n
  BY <1>2, CeilAtMost
<1> QED
  BY <1>2, <1>3, <1>4 DEF waves, eff, n

Allowance(t, w) == t * w + Greatest(MatchMinSlack, CeilDiv((t * w) * MatchSlackPct, 100))

\* More time and more waves never make an allowance shorter.
LEMMA AllowanceMono ==
    ASSUME ConstantsFit, NEW t1 \in Nat, NEW t2 \in Nat, t1 <= t2,
           NEW w1 \in Nat, NEW w2 \in Nat, w1 <= w2
    PROVE  /\ Allowance(t1, w1) \in Nat /\ t1 * w1 + MatchMinSlack <= Allowance(t1, w1)
           /\ Allowance(t1, w1) <= Allowance(t2, w2)
<1>1. MatchSlackPct \in Nat /\ MatchMinSlack \in Nat
  BY DEF ConstantsFit
<1> DEFINE b1 == t1 * w1
           b2 == t2 * w2
<1>2. b1 \in Nat /\ b2 \in Nat /\ b1 <= b2
  <2>1. t1 * w1 <= t2 * w1
    BY MulMono
  <2>2. w1 * t2 <= w2 * t2
    BY MulMono
  <2>3. w1 * t2 = t2 * w1 /\ w2 * t2 = t2 * w2
    OBVIOUS
  <2>4. t1 * w1 \in Nat /\ t2 * w1 \in Nat /\ t2 * w2 \in Nat
    BY MulClosed
  <2> QED
    BY <2>1, <2>2, <2>3, <2>4
<1> HIDE DEF b1, b2
<1>3. b1 * MatchSlackPct \in Nat /\ b2 * MatchSlackPct \in Nat
      /\ b1 * MatchSlackPct <= b2 * MatchSlackPct
  BY <1>1, <1>2, MulClosed, MulMono
<1>4. /\ CeilDiv(b1 * MatchSlackPct, 100) \in Nat /\ CeilDiv(b2 * MatchSlackPct, 100) \in Nat
      /\ CeilDiv(b1 * MatchSlackPct, 100) <= CeilDiv(b2 * MatchSlackPct, 100)
  BY <1>3, CeilMono
<1> QED
  BY <1>1, <1>2, <1>4 DEF Allowance, Greatest, b1, b2

\* The wall limit of a match has room for the CPU limits of all its targets, and the
\* caller of a remote server allows for the longest.
LEMMA Matches ==
    ASSUME ConstantsFit, NEW ref \in Nat, NEW obs \in Nat, Host(ref, obs),
           NEW allowed \in 1 .. MaxTimeMs,
           NEW participants \in 1 .. MaxParticipants, NEW cpus \in 1 .. MaxCPUs
    PROVE  /\ RawLimitNanoseconds(ref, obs, allowed) * waves(participants, cpus)
                  <= communicationWall(ref, obs, participants, cpus, allowed) * NsPerMs
           /\ \A t \in {allowed, communicationManagerLimits(allowed)} :
                  communicationWall(ref, obs, participants, cpus, t)
                      <= maximumCommunicationWall(participants, allowed)
<1> DEFINE w == waves(participants, cpus)
           v == waves(participants, 1)
           manager == communicationManagerLimits(allowed)
<1>0. /\ allowed \in Nat /\ MaxTimeMs \in Nat /\ NsPerMs \in Nat /\ MaxRatio \in Nat /\ MaxRatio >= 1
      /\ ManagerExtra \in Nat /\ ManagerLeast \in Nat /\ MatchMinSlack \in Nat
  BY DEF ConstantsFit
<1>1. w \in Nat /\ v \in Nat /\ w <= v /\ v <= MatchMinSlack
  BY Waves
<1>2. \A t \in Nat : communicationWall(ref, obs, participants, cpus, t)
                         = Allowance(Base(ref, obs, t), w)
  BY DEF communicationWall, communicationWallAllowanceMs, Base, Allowance
<1>3. maximumCommunicationWall(participants, allowed) = Allowance(RawLimitMillis(1, MaxRatio, manager), v)
  BY DEF maximumCommunicationWall, communicationWallAllowanceMs, Allowance
<1>4. manager \in 1 .. MaxTimeMs /\ allowed <= manager
  BY <1>0 DEF communicationManagerLimits, Least, Greatest
<1> HIDE DEF w, v, manager
<1>5. RawLimitMillis(1, MaxRatio, manager) = manager * MaxRatio /\ manager * MaxRatio \in Nat
  BY <1>4, Millis
<1>6. ASSUME NEW t \in 1 .. MaxTimeMs, t <= manager
      PROVE  communicationWall(ref, obs, participants, cpus, t)
                 <= maximumCommunicationWall(participants, allowed)
  <2>1. Base(ref, obs, t) \in Nat /\ Base(ref, obs, t) <= t * MaxRatio /\ t * MaxRatio \in Nat
    BY Millis
  <2>2. t * MaxRatio <= manager * MaxRatio
    BY <1>0, <1>4, <1>6, MulMono
  <2>3. Base(ref, obs, t) <= manager * MaxRatio
    BY <2>1, <2>2, <1>5
  <2>4. Allowance(Base(ref, obs, t), w) <= Allowance(manager * MaxRatio, v)
    BY <2>1, <2>3, <1>1, <1>5, AllowanceMono
  <2> QED
    BY <2>4, <1>2, <1>3, <1>5, <1>0
<1>7. RawLimitNanoseconds(ref, obs, allowed) * w
          <= communicationWall(ref, obs, participants, cpus, allowed) * NsPerMs
  <2> DEFINE b == Base(ref, obs, allowed)
             R == RawLimitNanoseconds(ref, obs, allowed)
             A == Allowance(b, w)
  <2>1. b \in Nat /\ allowed <= b /\ (ref > 0 => (allowed * obs) \div ref <= b)
    BY Millis
  <2>2. ref > 0 => (allowed * obs) \div ref \in Nat
    BY <1>0, MulClosed, DivMod
  <2>3. R \in Nat
    BY RawLimitType
  <2> HIDE DEF b
  <2>4. b + 1 \in Nat /\ allowed <= b + 1 /\ (ref > 0 => (allowed * obs) \div ref < b + 1)
    BY <2>1, <2>2, <1>0
  <2>5. R <= (b + 1) * NsPerMs
    BY <2>4, Covers
  <2> HIDE DEF R
  <2>6. R * w <= ((b + 1) * NsPerMs) * w
    BY <2>1, <2>3, <2>5, <1>0, <1>1, MulMono, MulClosed
  <2>7. ((b + 1) * NsPerMs) * w = (b * w + w) * NsPerMs
    BY <2>1, <1>0, <1>1
  <2>8. b <= b /\ w <= w
    BY <2>1, <1>1
  <2>9. A \in Nat /\ b * w + MatchMinSlack <= A
    BY <2>1, <2>8, <1>1, AllowanceMono
  <2> HIDE DEF A
  <2>10. b * w \in Nat /\ b * w + w <= A
    BY <2>1, <2>9, <1>0, <1>1, MulClosed
  <2>11. (b * w + w) * NsPerMs <= A * NsPerMs
    BY <2>9, <2>10, <1>0, <1>1, MulMono
  <2>12. R * w \in Nat /\ A * NsPerMs \in Nat /\ (b * w + w) * NsPerMs \in Nat
    BY <2>3, <2>9, <2>10, <1>0, <1>1, MulClosed
  <2>13. communicationWall(ref, obs, participants, cpus, allowed) = A
    BY <1>0, <1>2 DEF A, b
  <2> QED
    BY <2>6, <2>7, <2>11, <2>12, <2>13 DEF R
<1> QED
  BY <1>0, <1>4, <1>6, <1>7 DEF w, manager

-----------------------------------------------------------------------------
(* The specification *)

IInv == TypeOK /\ HostIsSupported

\* A server only serves with the identity or on a host in the supported range.
LEMMA Calibrated == ASSUME ConstantsFit PROVE Spec => []IInv
<1>0. /\ MinTime \in Nat /\ MinTime > 0 /\ MaxTime \in Nat /\ MaxAttempts \in Nat
      /\ MaxAttempts > 0
  BY DEF ConstantsFit
<1>1. Init => IInv
  BY <1>0 DEF Init, IInv, TypeOK, HostIsSupported
<1>2. IInv /\ [Next]_vars => IInv'
  <2> SUFFICES ASSUME IInv, [Next]_vars PROVE IInv'
    OBVIOUS
  <2> USE <1>0 DEF IInv, TypeOK, HostIsSupported
  <2>1. CASE ClockFails
    BY <2>1 DEF ClockFails
  <2>2. ASSUME NEW samples \in Samples, Unstable(samples) PROVE IInv'
    BY <2>2 DEF Unstable
  <2>3. ASSUME NEW samples \in Samples, Stable(samples) PROVE IInv'
    <3> DEFINE median == calibrationMedian(samples)
    <3>1. CASE Supported(reference, median)
      <4>1. /\ median \in MinTime .. MaxTime
            /\ reference <= median * MaxRatio /\ median <= reference * MaxRatio
        BY <3>1 DEF Supported
      <4>2. pc' = "serving" /\ observed' = median /\ UNCHANGED <<reference, attempt>>
        BY <2>3, <3>1 DEF Stable
      <4>3. reference > 0
        <5>1. reference = 0 => reference * MaxRatio = 0
          BY DEF ConstantsFit
        <5> QED
          BY <4>1, <5>1
      <4> HIDE DEF median
      <4> QED
        BY <4>1, <4>2, <4>3
    <3>2. CASE ~Supported(reference, median)
      BY <2>3, <3>2 DEF Stable
    <3> QED
      BY <3>1, <3>2
  <2>4. CASE UNCHANGED vars
    BY <2>4 DEF vars
  <2> QED
    BY <2>1, <2>2, <2>3, <2>4 DEF Next
<1> QED
  BY <1>1, <1>2, PTL DEF Spec

\* On whatever host the server runs, its two verdicts on the CPU time are one, and
\* neither its wall limit nor the caller's patience ends a run that is within its CPU
\* limit.
THEOREM LimitsOfEveryHost ==
    ASSUME ConstantsFit PROVE Spec => []LimitsAgree
<1>1. IInv => LimitsAgree
  <2> SUFFICES ASSUME IInv, pc = "serving", NEW allowed \in 1 .. MaxTimeMs
               PROVE  /\ \A raw \in 0 .. MaxWord : VerdictsAgree(raw, allowed)
                      /\ \A interactive \in BOOLEAN :
                            WallCoversCPU(allowed, interactive) /\ CallerCoversHost(allowed, interactive)
                      /\ \A participants \in 1 .. MaxParticipants, cpus \in 1 .. MaxCPUs :
                            CommunicationIsCovered(allowed, participants, cpus)
    BY DEF LimitsAgree
  <2>1. /\ reference \in Nat /\ observed \in Nat /\ Host(reference, observed)
        /\ MaxTime \in Nat /\ MaxWord \in Nat
    BY DEF IInv, TypeOK, HostIsSupported, Host, ConstantsFit
  <2>2. \A raw \in 0 .. MaxWord : VerdictsAgree(raw, allowed)
    BY <2>1, Verdicts DEF VerdictsAgree
  <2>3. ASSUME NEW interactive \in BOOLEAN
        PROVE  WallCoversCPU(allowed, interactive) /\ CallerCoversHost(allowed, interactive)
    <3> DEFINE public == IF interactive THEN interactiveWallTimeMs(allowed) ELSE wallTimeLimitMs(allowed)
               host == WallLimitMillis(reference, observed, allowed)
               most == MaximumCPUWallLimitMillis(allowed)
               wall == Greatest(host, public)
               caller == Greatest(most, public)
    <3>1. public \in Nat
      <4>1. /\ MaxTimeMs \in Nat /\ MultiplierOfWall \in Nat /\ WallSlack \in Nat /\ allowed \in Nat
        BY DEF ConstantsFit
      <4>2. wallTimeLimitMs(allowed) \in Nat
        BY <4>1 DEF wallTimeLimitMs, Least, Greatest
      <4>3. interactiveWallTimeMs(allowed) \in Nat
        BY <4>1, <4>2, MulClosed DEF interactiveWallTimeMs, Least, Greatest
      <4> QED
        BY <4>2, <4>3
    <3>2. host \in Nat /\ most \in Nat /\ host <= most
      <4>1. Host(1, MaxRatio) /\ MaxRatio \in Nat
        BY DEF Host, ConstantsFit
      <4> QED
        BY <4>1, <2>1, Walls DEF MaximumCPUWallLimitMillis
    <3>3. RawLimitNanoseconds(reference, observed, allowed) <= host * NsPerMs
      BY <2>1, Walls, Covers
    <3>4. /\ HostWall(allowed, interactive) = wall
          /\ executionWallTimeMs(allowed, interactive, MaximumCPUWallLimitMillis(allowed)) = caller
      BY DEF HostWall, executionWallTimeMs
    <3> HIDE DEF public, host, most
    <3>5. wall \in Nat /\ host <= wall /\ caller \in Nat /\ wall <= caller
      BY <3>1, <3>2 DEF Greatest
    <3>6. WallCoversCPU(allowed, interactive)
      <4>1. NsPerMs \in Nat /\ host * NsPerMs <= wall * NsPerMs
        BY <3>2, <3>5, MulMono DEF ConstantsFit
      <4>2. RawLimitNanoseconds(reference, observed, allowed) \in Nat
        BY <2>1, RawLimitType
      <4> QED
        BY <4>1, <4>2, <3>2, <3>3, <3>4, <3>5, MulClosed DEF WallCoversCPU
    <3>7. CallerCoversHost(allowed, interactive)
      <4>1. Download \in Nat
        BY DEF ConstantsFit
      <4> HIDE DEF wall, caller
      <4> QED
        BY <4>1, <3>4, <3>5 DEF CallerCoversHost, stage, startupLimit, Greatest
    <3> QED
      BY <3>6, <3>7
  <2>4. \A participants \in 1 .. MaxParticipants, cpus \in 1 .. MaxCPUs :
            CommunicationIsCovered(allowed, participants, cpus)
    BY <2>1, Matches DEF CommunicationIsCovered
  <2> QED
    BY <2>2, <2>3, <2>4
<1> QED
  BY <1>1, Calibrated, PTL

-----------------------------------------------------------------------------
(* The writers of a stream *)

Writing == {"event", "data", "flush"}
EventNames == {"progress", "result", "log", "image", "heartbeat"}
Beats == {"heartbeat"}
NotLogs == {"heartbeat", "progress", "image"}
WireLines == [line : {"event", "data"}, name : EventNames, payload : Nat]

\* What each user may be doing, and what may be on its way.
WriterTypes ==
    /\ compile \in BOOLEAN /\ failed \in BOOLEAN /\ finished \in BOOLEAN
    /\ mu \in Writer!Users \cup {"nobody"}
    /\ user \in [Writer!Users -> {"opening", "waiting", "idle", "done"} \cup Writing]
    /\ frame \in [Writer!Users -> [name : EventNames \cup {"none"}, payload : Nat]]
    /\ wireBytes \in Nat /\ auxBytes \in Nat /\ writtenLogs \in Nat
    /\ written \in Seq(WireLines)

\* Exactly the holder of the lock writes, and only on a stream that has not failed.
LockOK ==
    /\ \A u \in Writer!Users : user[u] \in Writing => mu = u
    /\ mu # "nobody" => user[mu] \in Writing /\ ~failed

\* Until the header is out, nobody but the handler uses the stream.
OpeningOK ==
    user["handler"] = "opening" => \A u \in Writer!Users \ {"handler"} : user[u] = "waiting"

Weight(f) == f.payload + Overhead

\* The budget: what was written leaves the others their shares.
BudgetOK ==
    /\ wireBytes <= StreamMax
    /\ ~finished => wireBytes = auxBytes
    /\ compile => auxBytes <= StreamMax - (EventMax + Overhead)
    /\ ~compile => auxBytes <= StreamMax - LineMax
    /\ ~compile => writtenLogs <= StreamMax - LineMax - LogReserve

\* The frame that is being written was let through by the budget.
Admitted(f) ==
    /\ f.name \in EventNames
    /\ f.payload <= EventMax /\ Weight(f) <= LineMax /\ wireBytes + Weight(f) <= StreamMax
    /\ compile /\ f.name # "result" => auxBytes + Weight(f) <= StreamMax - (EventMax + Overhead)
    /\ ~compile /\ f.name \in {"progress", "log", "image"} =>
          auxBytes + Weight(f) <= StreamMax - LineMax - HeartbeatReserve
    /\ ~compile /\ f.name = "heartbeat" => auxBytes + Weight(f) <= StreamMax - LineMax
    /\ ~compile /\ f.name = "log" =>
          writtenLogs + Weight(f) <= StreamMax - LineMax - LogReserve

FrameOK == mu # "nobody" => Admitted(frame[mu])

\* The lines alternate, and one writer at most is between them.
ShapeOK ==
    /\ \A i \in 1 .. Len(written) :
          IF i % 2 = 1 THEN written[i].line = "event"
                       ELSE written[i].line = "data" /\ written[i].name = written[i - 1].name
    /\ \A i \in 1 .. Len(written) :
          written[i].payload <= EventMax /\ written[i].payload + Overhead <= LineMax
    /\ ~failed =>
          IF mu # "nobody" /\ user[mu] = "data"
          THEN Len(written) % 2 = 1 /\ written[Len(written)].name = frame[mu].name
          ELSE Len(written) % 2 = 0

\* The bytes of the frames with these names on a wire, one by one.
Cells(names, w) ==
    UNION {{i} \X (1 .. w[i].payload + Overhead) :
               i \in {j \in DOMAIN w : w[j].line = "data" /\ w[j].name \in names}}

\* A frame whose lines are out and which is not yet counted.
Uncounted(names) ==
    IF mu # "nobody" /\ user[mu] = "flush" /\ frame[mu].name \in names
    THEN Weight(frame[mu]) ELSE 0

\* The counters are the bytes on the wire, name by name.
CountsOK ==
    /\ \A names \in SUBSET EventNames : IsFiniteSet(Cells(names, written))
    /\ Cardinality(Cells(EventNames, written)) <= StreamMax
    /\ ~failed =>
          /\ Cardinality(Cells(EventNames, written)) = wireBytes + Uncounted(EventNames)
          /\ Cardinality(Cells(NotLogs, written)) = auxBytes - writtenLogs + Uncounted(NotLogs)
          /\ ~compile => auxBytes + Uncounted(Beats) <=
                StreamMax - LineMax - HeartbeatReserve + Cardinality(Cells(Beats, written))

WriterInv ==
    WriterTypes /\ LockOK /\ OpeningOK /\ BudgetOK /\ FrameOK /\ ShapeOK /\ CountsOK

\* What SizesFit says, number by number.
LEMMA Sizes ==
    /\ Payloads \subseteq Nat
    /\ Overhead \in Nat /\ EventMax \in Nat /\ LineMax \in Nat /\ StreamMax \in Nat
    /\ HeartbeatReserve \in Nat /\ LogReserve \in Nat
    /\ EventMax + Overhead <= StreamMax /\ Overhead <= LineMax
    /\ LineMax + LogReserve <= StreamMax /\ HeartbeatReserve <= LogReserve
    /\ HeartbeatReserve <= EventMax /\ HeartbeatReserve <= LineMax
BY StreamConstantsFit DEF Writer!SizesFit

\* The least of three.
LEMMA LeastOfThree ==
    ASSUME NEW a \in Int, NEW b \in Int, NEW c \in Int
    PROVE  LET m == Writer!Min({a, b, c})
           IN  m \in {a, b, c} /\ m <= a /\ m <= b /\ m <= c
<1>1. \E m \in {a, b, c} : \A x \in {a, b, c} : m <= x
  <2>1. CASE a <= b /\ a <= c
    BY <2>1
  <2>2. CASE b <= a /\ b <= c
    BY <2>2
  <2>3. CASE c <= a /\ c <= b
    BY <2>3
  <2> QED
    BY <2>1, <2>2, <2>3
<1> QED
  BY <1>1 DEF Writer!Min

\* FramesBytes counts the cells.
LEMMA BytesAreCells == \A names : Writer!FramesBytes(names) = Cardinality(Cells(names, written))
BY DEF Writer!FramesBytes, Cells, Writer!Cardinality, Cardinality

\* One more line adds the bytes of its own frame, if it is the end of one.
LEMMA CellsOfAppend ==
    ASSUME NEW w \in Seq(WireLines), NEW l \in WireLines, NEW names,
           IsFiniteSet(Cells(names, w))
    PROVE  /\ IsFiniteSet(Cells(names, Append(w, l)))
           /\ Cardinality(Cells(names, Append(w, l))) =
                 Cardinality(Cells(names, w)) +
                     IF l.line = "data" /\ l.name \in names THEN Weight(l) ELSE 0
<1> DEFINE W == WireLines
           n == Len(w)
           v == Append(w, l)
<1>1. w \in Seq(W) /\ l \in W
  OBVIOUS
<1>2. l.payload + Overhead \in Nat
  BY Sizes DEF WireLines
<1> HIDE DEF W
<1>3. /\ n \in Nat /\ DOMAIN w = 1 .. n /\ DOMAIN v = 1 .. n + 1
      /\ \A i \in 1 .. n : v[i] = w[i]
      /\ v[n + 1] = l
  BY <1>1
<1> HIDE DEF v, n
<1>4. CASE ~(l.line = "data" /\ l.name \in names)
  <2>1. {j \in DOMAIN v : v[j].line = "data" /\ v[j].name \in names}
            = {j \in DOMAIN w : w[j].line = "data" /\ w[j].name \in names}
    BY <1>3, <1>4
  <2>2. Cells(names, v) = Cells(names, w)
    <3>1. \A j \in {i \in DOMAIN w : w[i].line = "data" /\ w[i].name \in names} : v[j] = w[j]
      BY <1>3
    <3> QED
      BY <2>1, <3>1 DEF Cells
  <2>3. Cardinality(Cells(names, w)) \in Nat
    BY FS_CardinalityType
  <2> QED
    BY <1>4, <2>2, <2>3 DEF v
<1>5. CASE l.line = "data" /\ l.name \in names
  <2> DEFINE new == {n + 1} \X (1 .. l.payload + Overhead)
             old == {j \in DOMAIN w : w[j].line = "data" /\ w[j].name \in names}
  <2>1. {j \in DOMAIN v : v[j].line = "data" /\ v[j].name \in names} = old \cup {n + 1}
    BY <1>3, <1>5
  <2>2. Cells(names, v) = Cells(names, w) \cup new
    <3>1. \A j \in old : v[j] = w[j]
      BY <1>3
    <3> QED
      BY <1>3, <2>1, <3>1 DEF Cells
  <2>3. Cells(names, w) \cap new = {}
    BY <1>3 DEF Cells
  <2>4. IsFiniteSet({n + 1}) /\ Cardinality({n + 1}) = 1
    BY FS_Singleton
  <2>5. ASSUME NEW k \in Nat PROVE IsFiniteSet(1 .. k) /\ Cardinality(1 .. k) = k
    BY FS_Interval
  <2>6. IsFiniteSet(new) /\ Cardinality(new) = Weight(l)
    <3>1. /\ IsFiniteSet(1 .. l.payload + Overhead)
          /\ Cardinality(1 .. l.payload + Overhead) = l.payload + Overhead
      BY <1>2, <2>5
    <3>2. IsFiniteSet(new) /\ Cardinality(new) = 1 * (l.payload + Overhead)
      BY <2>4, <3>1, FS_Product
    <3> QED
      BY <1>2, <3>2 DEF Weight
  <2> HIDE DEF new
  <2>7. IsFiniteSet(Cells(names, w) \cup new)
        /\ Cardinality(Cells(names, w) \cup new)
              = Cardinality(Cells(names, w)) + Cardinality(new)
              - Cardinality(Cells(names, w) \cap new)
    BY <2>6, FS_Union
  <2>8. Cardinality(Cells(names, w) \cap new) = 0 /\ Cardinality(Cells(names, w)) \in Nat
    BY <2>3, FS_EmptySet, FS_CardinalityType, Zenon
  <2>9. Weight(l) \in Nat
    BY <1>2 DEF Weight
  <2>10. /\ IsFiniteSet(Cells(names, v))
         /\ Cardinality(Cells(names, v)) = Cardinality(Cells(names, w)) + Weight(l)
    <3>1. Cardinality(Cells(names, v)) = Cardinality(Cells(names, w) \cup new)
      BY <2>2
    <3> QED
      BY <2>2, <2>6, <2>7, <2>8, <2>9, <3>1
  <2>11. v = Append(w, l)
    BY DEF v
  <2>12. (IF l.line = "data" /\ l.name \in names THEN Weight(l) ELSE 0) = Weight(l)
    BY <1>5
  <2> QED
    BY ONLY <2>10, <2>11, <2>12
<1> QED
  BY <1>4, <1>5

LEMMA InitWriter == Writer!Init => WriterInv
<1> SUFFICES ASSUME Writer!Init PROVE WriterInv
  OBVIOUS
<1>1. /\ compile \in BOOLEAN /\ failed = FALSE /\ finished = FALSE /\ mu = "nobody"
      /\ wireBytes = 0 /\ auxBytes = 0 /\ writtenLogs = 0 /\ written = <<>>
  BY DEF Writer!Init
<1>2. WriterTypes
  <2>1. user \in [Writer!Users -> {"opening", "waiting", "idle", "done"} \cup Writing]
    BY DEF Writer!Init
  <2>2. [name |-> "none", payload |-> 0] \in [name : EventNames \cup {"none"}, payload : Nat]
    OBVIOUS
  <2>3. frame \in [Writer!Users -> [name : EventNames \cup {"none"}, payload : Nat]]
    BY <2>2 DEF Writer!Init, Writer!Idle
  <2>4. written \in Seq(WireLines)
    BY <1>1
  <2> DEFINE F == [name : EventNames \cup {"none"}, payload : Nat]
             S == {"opening", "waiting", "idle", "done"} \cup Writing
  <2>5. user \in [Writer!Users -> S] /\ frame \in [Writer!Users -> F]
    BY <2>1, <2>3
  <2> HIDE DEF F, S
  <2>6. /\ compile \in BOOLEAN /\ failed \in BOOLEAN /\ finished \in BOOLEAN
        /\ mu \in Writer!Users \cup {"nobody"}
        /\ wireBytes \in Nat /\ auxBytes \in Nat /\ writtenLogs \in Nat
    BY <1>1
  <2> QED
    BY <2>4, <2>5, <2>6 DEF WriterTypes, F, S
<1>3. LockOK
  BY <1>1 DEF LockOK, Writer!Init, Writing, Writer!Users
<1>4. BudgetOK
  BY <1>1, Sizes DEF BudgetOK
<1>5. FrameOK
  BY <1>1 DEF FrameOK
<1>6. ShapeOK
  BY <1>1 DEF ShapeOK
<1>7. CountsOK
  <2>1. \A names : Cells(names, written) = {}
    BY <1>1 DEF Cells
  <2>2. \A names : IsFiniteSet(Cells(names, written)) /\ Cardinality(Cells(names, written)) = 0
    BY <2>1, FS_EmptySet
  <2>3. \A names : Uncounted(names) = 0
    BY <1>1 DEF Uncounted
  <2> QED
    BY <1>1, <2>2, <2>3, Sizes DEF CountsOK
<1>8. OpeningOK
  BY DEF OpeningOK, Writer!Init, Writer!Users
<1> QED
  BY <1>2, <1>3, <1>4, <1>5, <1>6, <1>7, <1>8 DEF WriterInv

\* Who goes on was not waiting, so the stream is open.
LEMMA OpenStays ==
    ASSUME OpeningOK, NEW u \in Writer!Users, user[u] \notin {"waiting", "opening"},
           user'[u] # "opening", \A v \in Writer!Users \ {u} : user'[v] = user[v]
    PROVE  OpeningOK'
BY DEF OpeningOK, Writer!Users

\* A step in which nobody starts, goes on with or ends a frame.
LEMMA QuietStep ==
    ASSUME WriterInv,
           UNCHANGED <<compile, mu, failed, Writer!budget, finished, frame, written>>,
           user' \in [Writer!Users -> {"opening", "waiting", "idle", "done"} \cup Writing],
           OpeningOK',
           \A u \in Writer!Users :
               user'[u] = user[u] \/ (user[u] \notin Writing /\ user'[u] \notin Writing)
    PROVE  WriterInv'
<1>1. /\ UNCHANGED <<compile, mu, failed, finished, frame, written>>
      /\ UNCHANGED <<wireBytes, auxBytes, writtenLogs>>
  BY DEF Writer!budget
<1>2. WriterTypes /\ LockOK /\ BudgetOK /\ FrameOK /\ ShapeOK /\ CountsOK
  BY DEF WriterInv
<1>3. mu # "nobody" => mu \in Writer!Users /\ user'[mu] = user[mu]
  BY <1>2 DEF WriterTypes, LockOK
<1>4. WriterTypes'
  BY <1>1, <1>2 DEF WriterTypes
<1>5. LockOK'
  BY <1>1, <1>2, <1>3 DEF LockOK
<1>6. BudgetOK'
  BY <1>1, <1>2 DEF BudgetOK
<1>7. FrameOK'
  BY <1>1, <1>2 DEF FrameOK, Admitted, Weight
<1>8. ShapeOK'
  BY <1>1, <1>2, <1>3 DEF ShapeOK
<1>9. CountsOK'
  <2>1. \A names : Uncounted(names)' = Uncounted(names)
    BY <1>1, <1>3 DEF Uncounted, Weight
  <2> QED
    BY <1>1, <1>2, <2>1 DEF CountsOK
<1> QED
  BY <1>4, <1>5, <1>6, <1>7, <1>8, <1>9 DEF WriterInv

\* A frame that Event neither drops nor refuses is admitted by the budget.
LEMMA EventAdmits ==
    ASSUME WriterInv, NEW u \in Writer!Users, NEW name \in Writer!EventsOf(u),
           NEW n \in Payloads, NEW m \in Writer!Shortened(name, n),
           ~Writer!Drops(name, n), ~Writer!Refuses(name, n)
    PROVE  m \in Nat /\ name \in EventNames /\ Admitted([name |-> name, payload |-> m])
<1>1. name \in EventNames
  BY DEF Writer!EventsOf, Writer!Users, EventNames
<1>2. wireBytes \in Nat /\ auxBytes \in Nat /\ writtenLogs \in Nat /\ n \in Nat
  BY Sizes DEF WriterInv, WriterTypes
<1>3. CASE compile
  <2>1. m = n
    BY <1>3 DEF Writer!Shortened
  <2>2. /\ n <= EventMax /\ n + Overhead <= LineMax /\ wireBytes + n + Overhead <= StreamMax
        /\ name # "result" => auxBytes + n + Overhead <= StreamMax - (EventMax + Overhead)
    BY <1>2, <1>3, Sizes DEF Writer!Refuses, Writer!CompileRefuses
  <2> QED
    BY <1>1, <1>2, <1>3, <2>1, <2>2, Sizes DEF Admitted, Weight
<1>4. CASE ~compile
  <2>1. /\ Writer!Limit <= EventMax /\ Writer!Limit <= LineMax - Overhead
        /\ Writer!Limit <= StreamMax - wireBytes - Overhead
        /\ Writer!Limit \in Int
    <3>1. /\ EventMax \in Int /\ LineMax - Overhead \in Int
          /\ StreamMax - wireBytes - Overhead \in Int
      BY <1>2, Sizes
    <3> QED
      BY <3>1, LeastOfThree DEF Writer!Limit
  <2>2. m \in Nat /\ m <= Writer!Limit
    <3>1. CASE name = "result" /\ ~(n <= Writer!Limit)
      BY <1>4, <3>1, Sizes DEF Writer!Shortened
    <3>2. CASE ~(name = "result" /\ ~(n <= Writer!Limit))
      <4>1. m = n
        BY <1>4, <3>2 DEF Writer!Shortened
      <4>2. name # "result" => ~(n > Writer!Limit)
        BY <1>4 DEF Writer!Refuses, Writer!ExecuteRefuses
      <4> QED
        BY <1>2, <2>1, <3>2, <4>1, <4>2
    <3> QED
      BY <3>1, <3>2
  <2>3. name # "result" => m = n
    BY <1>4 DEF Writer!Shortened
  <2>4. name \in {"progress", "log", "image"} =>
            /\ auxBytes + n + Overhead <= StreamMax - LineMax - HeartbeatReserve
            /\ name = "log" => writtenLogs + n + Overhead <= StreamMax - LineMax - LogReserve
    BY <1>2, <1>4, Sizes DEF Writer!Drops, Writer!ExecuteDrops, Writer!AuxLimit
  <2>5. name = "heartbeat" => auxBytes + n + Overhead <= StreamMax - LineMax
    BY <1>2, <1>4, Sizes DEF Writer!Refuses, Writer!ExecuteRefuses, Writer!AuxLimit
  <2> QED
    BY <1>1, <1>2, <1>4, <2>1, <2>2, <2>3, <2>4, <2>5, Sizes DEF Admitted, Weight
<1> QED
  BY <1>3, <1>4

\* The frame is let through and its writer takes the lock.
LEMMA BeginStep ==
    ASSUME WriterInv, NEW u \in Writer!Users, Writer!BeginWrite(u) PROVE WriterInv'
<1> DEFINE F == [name : EventNames \cup {"none"}, payload : Nat]
           S == {"opening", "waiting", "idle", "done"} \cup Writing
<1>1. PICK name \in Writer!EventsOf(u), n \in Payloads :
          /\ Writer!MaySend(u, name) /\ ~Writer!Drops(name, n) /\ ~Writer!Refuses(name, n)
          /\ \E m \in Writer!Shortened(name, n) :
                frame' = [frame EXCEPT ![u] = [name |-> name, payload |-> m]]
  BY DEF Writer!BeginWrite
<1>2. PICK m \in Writer!Shortened(name, n) :
          frame' = [frame EXCEPT ![u] = [name |-> name, payload |-> m]]
  BY <1>1
<1>3. m \in Nat /\ name \in EventNames /\ Admitted([name |-> name, payload |-> m])
  BY <1>1, EventAdmits
<1>4. /\ ~failed /\ mu = "nobody" /\ mu' = u /\ user' = [user EXCEPT ![u] = "event"]
      /\ UNCHANGED <<compile, failed, wireBytes, auxBytes, writtenLogs, finished, written>>
  BY <1>1 DEF Writer!BeginWrite, Writer!MaySend, Writer!Blocked, Writer!budget
<1>5. WriterTypes /\ LockOK /\ BudgetOK /\ ShapeOK /\ CountsOK
  BY DEF WriterInv
<1>6. [name |-> name, payload |-> m] \in F /\ "event" \in S
  BY <1>3 DEF Writing
<1>7. user \in [Writer!Users -> S] /\ frame \in [Writer!Users -> F]
  BY <1>5 DEF WriterTypes
<1> HIDE DEF F, S
<1>8. /\ user' \in [Writer!Users -> S] /\ frame' \in [Writer!Users -> F]
      /\ user'[u] = "event" /\ frame'[u] = [name |-> name, payload |-> m]
      /\ \A v \in Writer!Users \ {u} : user'[v] = user[v]
  BY <1>2, <1>4, <1>6, <1>7
<1>9. u # "nobody"
  BY DEF Writer!Users
<1>10. WriterTypes'
  BY <1>4, <1>5, <1>8 DEF WriterTypes, F, S
<1>11. LockOK'
  <2>1. ASSUME NEW v \in Writer!Users, user'[v] \in Writing PROVE mu' = v
    <3>1. CASE v = u
      BY <1>4, <3>1
    <3>2. CASE v # u
      BY <1>4, <1>5, <1>8, <2>1, <3>2 DEF LockOK, Writer!Users
    <3> QED
      BY <3>1, <3>2
  <2> QED
    BY <1>4, <1>8, <2>1 DEF LockOK, Writing
<1>12. BudgetOK'
  BY <1>4, <1>5 DEF BudgetOK
<1>13. FrameOK'
  <2>1. frame'[mu'] = [name |-> name, payload |-> m]
    BY <1>4, <1>8
  <2> QED
    BY <1>3, <1>4, <2>1 DEF FrameOK, Admitted, Weight
<1>14. ShapeOK'
  BY <1>4, <1>5, <1>8 DEF ShapeOK
<1>15. CountsOK'
  <2>1. \A names : Uncounted(names)' = Uncounted(names)
    BY <1>4, <1>8 DEF Uncounted
  <2> QED
    BY <1>4, <1>5, <2>1 DEF CountsOK
<1>16. OpeningOK'
  <2>1. user[u] = "idle"
    BY <1>1 DEF Writer!MaySend
  <2> QED
    BY <1>8, <2>1, OpenStays DEF WriterInv
<1> QED
  BY <1>10, <1>11, <1>12, <1>13, <1>14, <1>15, <1>16 DEF WriterInv

\* One of the two lines of the frame.
LEMMA LineStep ==
    ASSUME WriterInv, NEW u \in Writer!Users, Writer!WriteLine(u) PROVE WriterInv'
<1> DEFINE l == [line |-> user[u], name |-> frame[u].name, payload |-> frame[u].payload]
           S == {"opening", "waiting", "idle", "done"} \cup Writing
           n == Len(written)
<1>1. /\ user[u] \in {"event", "data"} /\ written' = Append(written, l)
      /\ user' = [user EXCEPT ![u] = IF user[u] = "event" THEN "data" ELSE "flush"]
      /\ UNCHANGED <<compile, mu, failed, wireBytes, auxBytes, writtenLogs, finished, frame>>
  BY DEF Writer!WriteLine, Writer!budget
<1>2. WriterTypes /\ LockOK /\ BudgetOK /\ FrameOK /\ ShapeOK /\ CountsOK
  BY DEF WriterInv
<1>3. mu = u /\ u # "nobody" /\ ~failed
  BY <1>1, <1>2 DEF LockOK, Writer!Users, Writing
<1>4. Admitted(frame[u]) /\ frame[u].name \in EventNames /\ frame[u].payload \in Nat
  BY <1>2, <1>3 DEF FrameOK, WriterTypes, Admitted
<1>5. /\ l \in WireLines /\ l.line = user[u] /\ l.name = frame[u].name
      /\ l.payload = frame[u].payload
  BY <1>1, <1>4 DEF WireLines
<1>6. written \in Seq(WireLines) /\ user \in [Writer!Users -> S]
  BY <1>2 DEF WriterTypes
<1>7. "data" \in S /\ "flush" \in S
  BY DEF Writing
<1> HIDE DEF l, S
<1>8. /\ written' \in Seq(WireLines) /\ Len(written') = n + 1 /\ n \in Nat
      /\ \A i \in 1 .. n : written'[i] = written[i]
      /\ written'[n + 1] = l
  BY <1>1, <1>5, <1>6
<1>9. /\ user' \in [Writer!Users -> S]
      /\ user'[u] = IF user[u] = "event" THEN "data" ELSE "flush"
      /\ \A v \in Writer!Users \ {u} : user'[v] = user[v]
  BY <1>1, <1>6, <1>7
<1>10. WriterTypes'
  BY <1>1, <1>2, <1>8, <1>9 DEF WriterTypes, S
<1>11. LockOK'
  <2>1. ASSUME NEW v \in Writer!Users, user'[v] \in Writing PROVE mu' = v
    BY <1>1, <1>2, <1>3, <1>9, <2>1 DEF LockOK
  <2> QED
    BY <1>1, <1>3, <1>9, <2>1 DEF LockOK, Writing
<1>12. BudgetOK'
  BY <1>1, <1>2 DEF BudgetOK
<1>13. FrameOK'
  BY <1>1, <1>2 DEF FrameOK, Admitted, Weight
<1>14. IF user[u] = "data" THEN n % 2 = 1 /\ written[n].name = frame[u].name ELSE n % 2 = 0
  BY <1>2, <1>3 DEF ShapeOK
<1>15. ShapeOK'
  <2>1. ASSUME NEW i \in 1 .. Len(written')
        PROVE  IF i % 2 = 1 THEN written'[i].line = "event"
               ELSE written'[i].line = "data" /\ written'[i].name = written'[i - 1].name
    <3>1. CASE i \in 1 .. n
      <4>1. written'[i] = written[i] /\ (i % 2 # 1 => written'[i - 1] = written[i - 1])
        BY <1>8, <3>1
      <4> QED
        BY <1>2, <3>1, <4>1 DEF ShapeOK
    <3>2. CASE i = n + 1 /\ user[u] = "event"
      BY <1>5, <1>8, <1>14, <3>2
    <3>3. CASE i = n + 1 /\ user[u] = "data"
      <4>1. n \in 1 .. n /\ i % 2 = 0 /\ written'[i] = l /\ written'[i - 1] = written[n]
        BY <1>8, <1>14, <3>3
      <4> QED
        BY <1>5, <1>14, <3>3, <4>1
    <3> QED
      BY <1>1, <1>8, <3>1, <3>2, <3>3
  <2>2. ASSUME NEW i \in 1 .. Len(written')
        PROVE  written'[i].payload <= EventMax /\ written'[i].payload + Overhead <= LineMax
    <3>1. CASE i \in 1 .. n
      BY <1>2, <1>8, <3>1 DEF ShapeOK
    <3>2. CASE i = n + 1
      BY <1>4, <1>5, <1>8, <3>2 DEF Admitted, Weight
    <3> QED
      BY <1>8, <3>1, <3>2
  <2>3. IF user'[u] = "data" THEN Len(written') % 2 = 1 /\ written'[Len(written')].name = frame'[u].name
        ELSE Len(written') % 2 = 0
    BY <1>1, <1>5, <1>8, <1>9, <1>14
  <2>4. mu' = u
    BY <1>1, <1>3
  <2> QED
    BY <1>3, <2>1, <2>2, <2>3, <2>4 DEF ShapeOK
<1>16. CountsOK'
  <2> DEFINE more(names) == IF l.line = "data" /\ l.name \in names THEN Weight(l) ELSE 0
  <2>1. ASSUME NEW names \in SUBSET EventNames
        PROVE  /\ IsFiniteSet(Cells(names, written'))
               /\ Cardinality(Cells(names, written'))
                      = Cardinality(Cells(names, written)) + more(names)
               /\ Cardinality(Cells(names, written)) \in Nat
               /\ Uncounted(names) = 0 /\ Uncounted(names)' = more(names) /\ more(names) \in Nat
    <3>1. IsFiniteSet(Cells(names, written))
      BY <1>2 DEF CountsOK
    <3>2. /\ IsFiniteSet(Cells(names, Append(written, l)))
          /\ Cardinality(Cells(names, Append(written, l)))
                 = Cardinality(Cells(names, written)) + more(names)
      BY <1>5, <1>6, <3>1, CellsOfAppend
    <3>3. Uncounted(names) = 0
      BY <1>1, <1>3 DEF Uncounted
    <3>4. Weight(frame[u]) = Weight(l) /\ Weight(l) \in Nat
      BY <1>4, <1>5, Sizes DEF Weight
    <3>5. frame'[mu'] = frame[u] /\ mu' = u /\ u # "nobody"
          /\ (user'[mu'] = "flush" <=> user[u] = "data")
      BY <1>1, <1>3, <1>9
    <3>6. Uncounted(names)' = more(names)
      <4>1. Uncounted(names)' = IF user'[mu'] = "flush" /\ frame'[mu'].name \in names
                                THEN Weight(frame'[mu']) ELSE 0
        BY <3>5 DEF Uncounted, Weight
      <4> QED
        BY <1>5, <3>4, <3>5, <4>1
    <3> QED
      BY <1>1, <3>1, <3>2, <3>3, <3>4, <3>6, FS_CardinalityType
  <2> HIDE DEF more
  <2>2. EventNames \in SUBSET EventNames /\ NotLogs \in SUBSET EventNames
        /\ Beats \in SUBSET EventNames
    BY DEF EventNames, NotLogs, Beats
  <2>3. more(EventNames) = 0 \/ more(EventNames) = Weight(frame[u])
    BY <1>5 DEF more, Weight
  <2>4. wireBytes + Weight(frame[u]) <= StreamMax /\ wireBytes <= StreamMax
        /\ wireBytes \in Nat /\ auxBytes \in Nat /\ writtenLogs \in Nat
    BY <1>2, <1>4 DEF Admitted, BudgetOK, WriterTypes
  <2>5. /\ Cardinality(Cells(EventNames, written)) = wireBytes
        /\ Cardinality(Cells(NotLogs, written)) = auxBytes - writtenLogs
        /\ ~compile => auxBytes <=
              StreamMax - LineMax - HeartbeatReserve + Cardinality(Cells(Beats, written))
    BY <1>2, <1>3, <2>1, <2>2, <2>4 DEF CountsOK
  <2>6. Cardinality(Cells(EventNames, written')) <= StreamMax
    BY <2>1, <2>2, <2>3, <2>4, <2>5
  <2>7. /\ Cardinality(Cells(EventNames, written')) = wireBytes + Uncounted(EventNames)'
        /\ Cardinality(Cells(NotLogs, written')) = auxBytes - writtenLogs + Uncounted(NotLogs)'
    BY <2>1, <2>2, <2>5
  <2>8. ~compile => auxBytes + Uncounted(Beats)' <=
              StreamMax - LineMax - HeartbeatReserve + Cardinality(Cells(Beats, written'))
    BY <2>1, <2>2, <2>4, <2>5, Sizes
  <2> QED
    BY <1>1, <2>1, <2>6, <2>7, <2>8 DEF CountsOK
<1>17. OpeningOK'
  BY <1>1, <1>9, OpenStays DEF WriterInv
<1> QED
  BY <1>10, <1>11, <1>12, <1>13, <1>15, <1>16, <1>17 DEF WriterInv

\* What becomes of the user and of the stream is all that OnError and OnSuccess say.
LEMMA AfterFrame ==
    ASSUME WriterTypes, NEW u \in Writer!Users, NEW name,
           Writer!OnError(u) \/ Writer!OnSuccess(u, name)
    PROVE  /\ user' \in [Writer!Users -> {"opening", "waiting", "idle", "done"} \cup Writing]
           /\ user'[u] \notin Writing /\ user'[u] # "opening"
           /\ \A v \in Writer!Users \ {u} : user'[v] = user[v]
BY DEF WriterTypes, Writer!OnError, Writer!OnSuccess, Writing

\* A write fails in the middle of a frame: nobody writes after it.
LEMMA FailureStep ==
    ASSUME WriterInv, NEW u \in Writer!Users, Writer!WriteFails(u) PROVE WriterInv'
<1> DEFINE F == [name : EventNames \cup {"none"}, payload : Nat]
<1>1. /\ user[u] \in Writing /\ failed' = TRUE /\ mu' = "nobody" /\ Writer!OnError(u)
      /\ frame' = [frame EXCEPT ![u] = Writer!Idle]
      /\ UNCHANGED <<compile, wireBytes, auxBytes, writtenLogs, finished, written>>
  BY DEF Writer!WriteFails, Writer!budget, Writing
<1>2. WriterTypes /\ LockOK /\ BudgetOK /\ ShapeOK /\ CountsOK
  BY DEF WriterInv
<1>3. /\ user' \in [Writer!Users -> {"opening", "waiting", "idle", "done"} \cup Writing]
      /\ user'[u] \notin Writing /\ user'[u] # "opening"
      /\ \A v \in Writer!Users \ {u} : user'[v] = user[v]
  BY <1>1, <1>2, AfterFrame
<1>4. frame' \in [Writer!Users -> F]
  <2>1. frame \in [Writer!Users -> F] /\ Writer!Idle \in F
    BY <1>2 DEF WriterTypes, Writer!Idle
  <2> HIDE DEF F
  <2> QED
    BY <1>1, <2>1
<1>5. WriterTypes'
  BY <1>1, <1>2, <1>3, <1>4 DEF WriterTypes
<1>6. LockOK'
  <2>1. ASSUME NEW v \in Writer!Users, user'[v] \in Writing PROVE FALSE
    BY <1>1, <1>2, <1>3, <2>1 DEF LockOK
  <2> QED
    BY <1>1, <2>1 DEF LockOK
<1>7. BudgetOK'
  BY <1>1, <1>2 DEF BudgetOK
<1>8. FrameOK'
  BY <1>1 DEF FrameOK
<1>9. ShapeOK'
  BY <1>1, <1>2 DEF ShapeOK
<1>10. CountsOK'
  BY <1>1, <1>2 DEF CountsOK
<1>11. OpeningOK'
  BY <1>1, <1>3, OpenStays DEF WriterInv, Writing
<1> QED
  BY <1>5, <1>6, <1>7, <1>8, <1>9, <1>10, <1>11 DEF WriterInv

\* The frame is out and counted.
LEMMA FlushStep ==
    ASSUME WriterInv, NEW u \in Writer!Users, Writer!Flush(u) PROVE WriterInv'
<1> DEFINE F == [name : EventNames \cup {"none"}, payload : Nat]
           f == frame[u]
<1>1. /\ user[u] = "flush"
      /\ wireBytes' = wireBytes + Weight(f)
      /\ auxBytes' = auxBytes + IF f.name = "result" THEN 0 ELSE Weight(f)
      /\ writtenLogs' = writtenLogs + IF f.name = "log" THEN Weight(f) ELSE 0
      /\ finished' = (finished \/ f.name = "result")
      /\ mu' = "nobody" /\ Writer!OnSuccess(u, f.name)
      /\ frame' = [frame EXCEPT ![u] = Writer!Idle]
      /\ UNCHANGED <<compile, failed, written>>
  BY DEF Writer!Flush, Weight
<1>2. WriterTypes /\ LockOK /\ BudgetOK /\ FrameOK /\ ShapeOK /\ CountsOK
  BY DEF WriterInv
<1>3. mu = u /\ u # "nobody" /\ ~failed
  BY <1>1, <1>2 DEF LockOK, Writer!Users, Writing
<1>4. Admitted(f) /\ f.name \in EventNames /\ Weight(f) \in Nat
  BY <1>2, <1>3, Sizes DEF FrameOK, WriterTypes, Admitted, Weight
<1>5. /\ user' \in [Writer!Users -> {"opening", "waiting", "idle", "done"} \cup Writing]
      /\ user'[u] \notin Writing /\ user'[u] # "opening"
      /\ \A v \in Writer!Users \ {u} : user'[v] = user[v]
  BY <1>1, <1>2, AfterFrame
<1>6. frame' \in [Writer!Users -> F]
  <2>1. frame \in [Writer!Users -> F] /\ Writer!Idle \in F
    BY <1>2 DEF WriterTypes, Writer!Idle
  <2> HIDE DEF F
  <2> QED
    BY <1>1, <2>1
<1> HIDE DEF F
<1>7. wireBytes \in Nat /\ auxBytes \in Nat /\ writtenLogs \in Nat
  BY <1>2 DEF WriterTypes
<1>8. WriterTypes'
  <2>1. wireBytes' \in Nat /\ auxBytes' \in Nat /\ writtenLogs' \in Nat
    BY <1>1, <1>4, <1>7
  <2>2. finished' \in BOOLEAN
    BY <1>1
  <2> QED
    BY <1>1, <1>2, <1>5, <1>6, <2>1, <2>2 DEF WriterTypes, F
<1>9. LockOK'
  <2>1. ASSUME NEW v \in Writer!Users, user'[v] \in Writing PROVE FALSE
    BY <1>2, <1>3, <1>5, <2>1 DEF LockOK
  <2> QED
    BY <1>1, <2>1 DEF LockOK
<1> HIDE DEF f
<1>10. BudgetOK'
  <2>1. wireBytes' <= StreamMax
    BY <1>1, <1>4 DEF Admitted
  <2>2. ~finished' => wireBytes' = auxBytes'
    BY <1>1, <1>2, <1>4, <1>7 DEF BudgetOK
  <2>3. compile' => auxBytes' <= StreamMax - (EventMax + Overhead)
    BY <1>1, <1>2, <1>4, <1>7, Sizes DEF BudgetOK, Admitted
  <2>4. ~compile' => auxBytes' <= StreamMax - LineMax
    BY <1>1, <1>2, <1>4, <1>7, Sizes DEF BudgetOK, Admitted, EventNames
  <2>5. ~compile' => writtenLogs' <= StreamMax - LineMax - LogReserve
    BY <1>1, <1>2, <1>4, <1>7, Sizes DEF BudgetOK, Admitted
  <2> QED
    BY <2>1, <2>2, <2>3, <2>4, <2>5 DEF BudgetOK
<1>11. FrameOK'
  BY <1>1 DEF FrameOK
<1>12. ShapeOK'
  <2>1. Len(written) % 2 = 0
    BY <1>1, <1>2, <1>3 DEF ShapeOK
  <2> QED
    BY <1>1, <1>2, <2>1 DEF ShapeOK
<1>13. CountsOK'
  <2>1. \A names : Uncounted(names) = IF f.name \in names THEN Weight(f) ELSE 0
    BY <1>1, <1>3 DEF Uncounted, f
  <2>2. \A names : Uncounted(names)' = 0
    BY <1>1 DEF Uncounted
  <2>3. /\ Cardinality(Cells(EventNames, written)) = wireBytes + Uncounted(EventNames)
        /\ Cardinality(Cells(NotLogs, written)) = auxBytes - writtenLogs + Uncounted(NotLogs)
        /\ ~compile => auxBytes + Uncounted(Beats) <=
              StreamMax - LineMax - HeartbeatReserve + Cardinality(Cells(Beats, written))
        /\ Cardinality(Cells(EventNames, written)) <= StreamMax
        /\ \A names \in SUBSET EventNames : IsFiniteSet(Cells(names, written))
    BY <1>2, <1>3 DEF CountsOK
  <2>4. Cardinality(Cells(Beats, written)) \in Nat
    BY <2>3, FS_CardinalityType DEF Beats, EventNames
  <2>5. Cardinality(Cells(EventNames, written)) = wireBytes'
    BY <1>1, <1>4, <2>1, <2>3
  <2>6. Cardinality(Cells(NotLogs, written)) = auxBytes' - writtenLogs'
    <3>1. f.name \in NotLogs <=> f.name \notin {"result", "log"}
      BY <1>4 DEF EventNames, NotLogs
    <3> QED
      BY <1>1, <1>4, <1>7, <2>1, <2>3, <3>1
  <2>7. ~compile => auxBytes' <=
              StreamMax - LineMax - HeartbeatReserve + Cardinality(Cells(Beats, written))
    <3>1. CASE f.name = "heartbeat"
      BY <1>1, <2>1, <2>3, <3>1 DEF Beats
    <3>2. CASE f.name = "result"
      BY <1>1, <1>7, <2>1, <2>3, <3>2 DEF Beats
    <3>3. CASE f.name \in {"progress", "log", "image"}
      BY <1>1, <1>4, <1>7, <2>4, <3>3, Sizes DEF Admitted
    <3> QED
      BY <1>4, <3>1, <3>2, <3>3 DEF EventNames
  <2> QED
    BY <1>1, <1>4, <1>7, <2>2, <2>3, <2>5, <2>6, <2>7, Sizes DEF CountsOK
<1>14. OpeningOK'
  BY <1>1, <1>5, OpenStays DEF WriterInv
<1> QED
  BY <1>8, <1>9, <1>10, <1>11, <1>12, <1>13, <1>14 DEF WriterInv

LEMMA NextWriter == WriterInv /\ [Writer!Next]_(Writer!vars) => WriterInv'
<1> SUFFICES ASSUME WriterInv, [Writer!Next]_(Writer!vars) PROVE WriterInv'
  OBVIOUS
<1> DEFINE S == {"opening", "waiting", "idle", "done"} \cup Writing
<1>1. user \in [Writer!Users -> S] /\ WriterTypes
  BY DEF WriterInv, WriterTypes
<1>2. CASE Writer!New
  <2>1. user' \in [Writer!Users -> S] /\ \A v \in Writer!Users : user'[v] \notin Writing
    BY <1>2 DEF Writer!New, Writing
  <2>2. \A v \in Writer!Users : user[v] \notin Writing
    BY <1>2 DEF Writer!New, WriterInv, OpeningOK, Writing
  <2>3. OpeningOK'
    BY <1>2 DEF Writer!New, OpeningOK, Writer!Users
  <2> QED
    BY <1>2, <2>1, <2>2, <2>3, QuietStep DEF Writer!New
<1>3. CASE Writer!RunEnds
  <2>1. OpeningOK'
    BY <1>1, <1>3, OpenStays DEF Writer!RunEnds, WriterInv, Writer!Users
  <2> QED
    BY <1>1, <1>3, <2>1, QuietStep DEF Writer!RunEnds, Writing
<1>4. CASE Writer!Cancelled
  <2>1. OpeningOK'
    BY <1>4 DEF Writer!Cancelled, WriterInv, OpeningOK
  <2> QED
    BY <1>1, <1>4, <2>1, QuietStep DEF Writer!Cancelled
<1>5. CASE Writer!HeartbeatEnds
  <2>1. OpeningOK'
    BY <1>1, <1>5, OpenStays DEF Writer!HeartbeatEnds, WriterInv, Writer!Users
  <2> QED
    BY <1>1, <1>5, <2>1, QuietStep DEF Writer!HeartbeatEnds, Writing
<1>6. ASSUME NEW u \in Writer!Users, NEW name, user[u] = "idle",
             Writer!OnError(u) \/ Writer!OnSuccess(u, name),
             UNCHANGED <<compile, mu, failed, Writer!budget, finished, frame, written>>
      PROVE  WriterInv'
  <2>1. /\ user' \in [Writer!Users -> S] /\ user'[u] \notin Writing /\ user'[u] # "opening"
        /\ \A v \in Writer!Users \ {u} : user'[v] = user[v]
    BY <1>1, <1>6, AfterFrame
  <2>2. user[u] \notin Writing
    BY <1>6 DEF Writing
  <2> HIDE DEF S
  <2>3. \A v \in Writer!Users :
            user'[v] = user[v] \/ (user[v] \notin Writing /\ user'[v] \notin Writing)
    BY <2>1, <2>2
  <2>4. OpeningOK'
    BY <1>6, <2>1, OpenStays DEF WriterInv
  <2> QED
    BY <1>6, <2>1, <2>3, <2>4, QuietStep DEF S
<1>7. ASSUME NEW u \in Writer!Users, Writer!EventFailed(u) PROVE WriterInv'
  BY <1>6, <1>7 DEF Writer!EventFailed, Writer!MaySend
<1>8. ASSUME NEW u \in Writer!Users, Writer!EventDropped(u) PROVE WriterInv'
  BY <1>6, <1>8 DEF Writer!EventDropped, Writer!MaySend
<1>9. ASSUME NEW u \in Writer!Users, Writer!EventRefused(u) PROVE WriterInv'
  BY <1>6, <1>9 DEF Writer!EventRefused, Writer!MaySend
<1>10. CASE UNCHANGED Writer!vars
  <2>1. OpeningOK'
    BY <1>10 DEF Writer!vars, WriterInv, OpeningOK
  <2> QED
    BY <1>1, <1>10, <2>1, QuietStep DEF Writer!vars, Writer!budget
<1> QED
  BY <1>2, <1>3, <1>4, <1>5, <1>7, <1>8, <1>9, <1>10, BeginStep, LineStep, FailureStep,
     FlushStep
  DEF Writer!Next

LEMMA FocusedWriter ==
    [MCNext]_<<focus, vars, writerVars, clipVars, remoteVars>> => [Writer!Next]_(Writer!vars)
BY DEF MCNext, writerVars, Writer!vars

LEMMA WriterInductive == MCSpec => []WriterInv
<1>1. MCInit => WriterInv
  BY InitWriter DEF MCInit
<1>2. WriterInv /\ [MCNext]_<<focus, vars, writerVars, clipVars, remoteVars>> => WriterInv'
  BY NextWriter, FocusedWriter
<1> QED
  BY <1>1, <1>2, PTL DEF MCSpec

\* Whoever writes, whatever fails and wherever it fails, the peer gets whole frames
\* that its own limits allow (sse.Writer.Event, CompileWriter.Event, SSEReader).
THEOREM StreamStaysReadable == MCSpec => []StreamIsReadable
<1>1. WriterInv => StreamIsReadable
  <2> SUFFICES ASSUME WriterInv PROVE Writer!StreamIsReadable
    BY DEF StreamIsReadable
  <2>1. DOMAIN written = 1 .. Len(written)
    BY DEF WriterInv, WriterTypes
  <2>2. Writer!FramesBytes({"progress", "result", "log", "image", "heartbeat"}) <= StreamMax
    BY BytesAreCells DEF WriterInv, CountsOK, EventNames
  <2> QED
    BY <2>1, <2>2 DEF WriterInv, ShapeOK, Writer!StreamIsReadable
<1> QED
  BY <1>1, WriterInductive, PTL

\* The least of two.
LEMMA LeastOfTwo ==
    ASSUME NEW a \in Int, NEW b \in Int
    PROVE  LET m == Writer!Min({a, b}) IN m \in {a, b} /\ m <= a /\ m <= b
<1>1. \E m \in {a, b} : \A x \in {a, b} : m <= x
  OBVIOUS
<1> QED
  BY <1>1 DEF Writer!Min

\* Until the result is out, the result finds the room it needs; heartbeats are refused,
\* and images dropped, only by what has used their own shares up
\* (heartbeatWireReserve, executeAuxiliaryBytes).
THEOREM SharesStayKept == MCSpec => []SharesKept
<1>1. WriterInv => SharesKept
  <2> SUFFICES ASSUME WriterInv PROVE Writer!SharesKept
    BY DEF SharesKept
  <2>1. /\ BudgetOK /\ CountsOK
        /\ wireBytes \in Nat /\ auxBytes \in Nat /\ writtenLogs \in Nat
    BY DEF WriterInv, WriterTypes
  <2>2. ASSUME ~finished, ~compile PROVE Writer!Limit = Writer!Min({EventMax, LineMax - Overhead})
    <3> DEFINE a == EventMax
               b == LineMax - Overhead
               c == StreamMax - wireBytes - Overhead
    <3>1. a \in Int /\ b \in Int /\ c \in Int
      BY <2>1, Sizes
    <3>2. b <= c
      BY <2>1, <2>2, Sizes DEF BudgetOK
    <3>3. Writer!Limit = Writer!Min({a, b, c})
      BY DEF Writer!Limit
    <3> HIDE DEF a, b, c
    <3>4. LET m == Writer!Min({a, b, c}) IN m \in {a, b, c} /\ m <= a /\ m <= b /\ m <= c
      BY <3>1, LeastOfThree
    <3>5. LET m == Writer!Min({a, b}) IN m \in {a, b} /\ m <= a /\ m <= b
      BY <3>1, LeastOfTwo
    <3>6. Writer!Min({a, b, c}) = Writer!Min({a, b})
      BY <3>1, <3>2, <3>4, <3>5
    <3> QED
      BY <3>3, <3>6 DEF a, b
  <2>3. ASSUME ~finished, compile PROVE StreamMax - wireBytes >= EventMax + Overhead
    BY <2>1, <2>3, Sizes DEF BudgetOK
  <2>4. ASSUME ~compile, ~failed, mu = "nobody", NEW n \in Payloads
        PROVE  /\ Writer!ExecuteRefuses("heartbeat", n) /\ ~finished =>
                     Writer!FramesBytes({"heartbeat"}) + n + Overhead > HeartbeatReserve
               /\ Writer!ExecuteDrops("image", n) =>
                     Writer!FramesBytes({"heartbeat", "progress", "image"}) + n + Overhead
                         > LogReserve - HeartbeatReserve
    <3>1. Uncounted(NotLogs) = 0 /\ Uncounted(Beats) = 0
      BY <2>4 DEF Uncounted
    <3>2. /\ Writer!FramesBytes(NotLogs) = auxBytes - writtenLogs
          /\ auxBytes <= StreamMax - LineMax - HeartbeatReserve + Writer!FramesBytes(Beats)
      BY <2>1, <2>4, <3>1, BytesAreCells DEF CountsOK
    <3>3. n \in Nat /\ writtenLogs <= StreamMax - LineMax - LogReserve
      BY <2>1, <2>4, Sizes DEF BudgetOK
    <3>4. Writer!FramesBytes(Beats) \in Nat
      <4>1. IsFiniteSet(Cells(Beats, written))
        BY <2>1 DEF CountsOK, Beats, EventNames
      <4> QED
        BY <4>1, FS_CardinalityType, BytesAreCells
    <3>5. ASSUME Writer!ExecuteRefuses("heartbeat", n), ~finished
          PROVE  Writer!FramesBytes(Beats) + n + Overhead > HeartbeatReserve
      <4>1. CASE auxBytes + n + Overhead > Writer!AuxLimit
        BY <2>1, <3>2, <3>3, <3>4, <4>1, Sizes DEF Writer!AuxLimit
      <4>2. CASE n > Writer!Limit
        <5>1. Writer!Limit \in {EventMax, LineMax - Overhead}
          <6>1. EventMax \in Int /\ LineMax - Overhead \in Int
            BY Sizes
          <6> QED
            BY <2>2, <2>4, <3>5, <6>1, LeastOfTwo
        <5>2. n + Overhead > HeartbeatReserve
          BY <3>3, <4>2, <5>1, Sizes
        <5> QED
          BY <3>3, <3>4, <5>2, Sizes
      <4> QED
        BY <3>5, <4>1, <4>2 DEF Writer!ExecuteRefuses
    <3>6. ASSUME Writer!ExecuteDrops("image", n)
          PROVE  Writer!FramesBytes(NotLogs) + n + Overhead > LogReserve - HeartbeatReserve
      <4>1. auxBytes + n + Overhead > Writer!AuxLimit - HeartbeatReserve
        BY <3>6 DEF Writer!ExecuteDrops
      <4> QED
        BY <2>1, <3>2, <3>3, <4>1, Sizes DEF Writer!AuxLimit
    <3> QED
      BY <3>5, <3>6 DEF Beats, NotLogs
  <2> QED
    BY <2>2, <2>3, <2>4 DEF Writer!SharesKept
<1> QED
  BY <1>1, WriterInductive, PTL

-----------------------------------------------------------------------------
(* The cut of a result *)

Stack(bytes) == UNION {{x} \X (1 .. bytes[x]) : x \in DOMAIN bytes}

LEMMA TotalIsStack == \A bytes : Clip!Total(bytes) = Cardinality(Stack(bytes))
BY DEF Clip!Total, Stack, Clip!Cardinality, Cardinality

LEMMA ClipCounts == \A S : Clip!Cardinality(S) = Cardinality(S)
BY DEF Clip!Cardinality, Cardinality

\* What the constants' assumption says, constant by constant.
LEMMA ClipSizes ==
    /\ RuneCosts \subseteq Nat /\ IsFiniteSet(Fields) /\ Fields # {}
    /\ MaxRunes \in Nat /\ MaxBase \in Nat /\ FlagBytes \in Nat /\ MaxLimit \in Nat
<1>1. Clip!IsFiniteSet(Fields) => IsFiniteSet(Fields)
  BY DEF Clip!IsFiniteSet, IsFiniteSet
<1> QED
  BY <1>1, ClipConstantsFit DEF Clip!SizesFit

\* Finitely many numbers have a finite sum.
LEMMA StackIsFinite ==
    ASSUME NEW D, IsFiniteSet(D), NEW b \in [D -> Nat]
    PROVE  IsFiniteSet(Stack(b)) /\ Cardinality(Stack(b)) \in Nat
<1> DEFINE col(x) == {x} \X (1 .. b[x])
           T == {col(x) : x \in D}
           g == [x \in D |-> col(x)]
<1>1. IsFiniteSet(T)
  <2>1. g \in Surjection(D, T)
    BY DEF Surjection
  <2> QED
    BY <2>1, FS_Surjection
<1>2. \A c \in T : IsFiniteSet(c)
  <2> SUFFICES ASSUME NEW x \in D PROVE IsFiniteSet(col(x))
    OBVIOUS
  <2>1. IsFiniteSet({x})
    BY FS_Singleton
  <2>2. 1 \in Int /\ b[x] \in Int
    OBVIOUS
  <2>3. IsFiniteSet(1 .. b[x])
    BY <2>2, FS_Interval
  <2> QED
    BY <2>1, <2>3, FS_Product
<1>3. Stack(b) = UNION T
  BY DEF Stack
<1> HIDE DEF T
<1>4. IsFiniteSet(UNION T)
  BY <1>1, <1>2, FS_UNION
<1> QED
  BY <1>3, <1>4, FS_CardinalityType

\* Sums grow with their terms.
LEMMA TotalGrows ==
    ASSUME NEW D, IsFiniteSet(D), NEW a \in [D -> Nat], NEW b \in [D -> Nat],
           \A x \in D : a[x] <= b[x]
    PROVE  /\ Clip!Total(a) \in Nat /\ Clip!Total(b) \in Nat
           /\ Clip!Total(a) <= Clip!Total(b)
<1>1. /\ IsFiniteSet(Stack(b)) /\ Cardinality(Stack(a)) \in Nat /\ Cardinality(Stack(b)) \in Nat
  BY StackIsFinite
<1>2. Stack(a) \in SUBSET Stack(b)
  <2>1. \A x \in D : 1 .. a[x] \subseteq 1 .. b[x]
    <3> SUFFICES ASSUME NEW x \in D, NEW k \in 1 .. a[x] PROVE k \in 1 .. b[x]
      OBVIOUS
    <3>1. a[x] \in Nat /\ b[x] \in Nat /\ a[x] <= b[x]
      OBVIOUS
    <3> QED
      BY <3>1
  <2>2. DOMAIN a = D /\ DOMAIN b = D
    OBVIOUS
  <2> QED
    BY <2>1, <2>2 DEF Stack
<1> QED
  BY <1>1, <1>2, FS_Subset, TotalIsStack

\* A sum of nothing is nothing.
LEMMA TotalOfZeros ==
    ASSUME NEW a, \A x \in DOMAIN a : a[x] = 0
    PROVE  Clip!Total(a) = 0
<1>1. Stack(a) = {}
  BY DEF Stack
<1> QED
  BY <1>1, FS_EmptySet, TotalIsStack

\* No term is greater than the sum.
LEMMA TermsAreWithin ==
    ASSUME NEW D, IsFiniteSet(D), NEW b \in [D -> Nat], NEW x \in D
    PROVE  b[x] <= Clip!Total(b)
<1> DEFINE col == {x} \X (1 .. b[x])
<1>1. b[x] \in Nat /\ IsFiniteSet({x}) /\ Cardinality({x}) = 1
  BY FS_Singleton
<1>2. ASSUME NEW k \in Nat PROVE IsFiniteSet(1 .. k) /\ Cardinality(1 .. k) = k
  BY FS_Interval
<1>3. Cardinality(col) = b[x]
  <2>1. IsFiniteSet(1 .. b[x]) /\ Cardinality(1 .. b[x]) = b[x]
    BY <1>1, <1>2
  <2>2. Cardinality(col) = Cardinality({x}) * Cardinality(1 .. b[x])
    BY <1>1, <2>1, FS_Product, Zenon
  <2> HIDE DEF col
  <2> QED
    BY <1>1, <2>1, <2>2
<1>4. col \in SUBSET Stack(b)
  <2>1. DOMAIN b = D
    OBVIOUS
  <2> QED
    BY <2>1 DEF Stack
<1>5. IsFiniteSet(Stack(b))
  BY StackIsFinite
<1> HIDE DEF col
<1> QED
  BY <1>3, <1>4, <1>5, FS_Subset, TotalIsStack

\* A set of natural numbers with a bound has a greatest element.
LEMMA GreatestIsThere ==
    ASSUME NEW b \in Nat, NEW S \in SUBSET (0..b), S # {}
    PROVE  Clip!Max(S) \in S /\ \A x \in S : x <= Clip!Max(S)
<1> DEFINE R == OpToRel(<, Nat)
           T == {y \in 0..b : b - y \in S}
<1>1. T \subseteq Nat /\ T # {}
  <2>1. PICK x \in S : TRUE
    OBVIOUS
  <2>2. b - x \in T
    OBVIOUS
  <2> QED
    BY <2>2
<1>2. PICK t \in T : \A u \in T : t <= u
  <2>1. PICK t \in T : \A u \in T : ~(<<u, t>> \in R)
    <3> HIDE DEF T, R
    <3> QED
      BY <1>1, WFMin, NatLessThanWellFounded DEF R
  <2>2. \A u \in T : u < t => <<u, t>> \in R
    BY <1>1 DEF OpToRel
  <2> HIDE DEF T, R
  <2>3. \A u \in T : ~(u < t)
    BY <2>1, <2>2, Zenon
  <2>4. \A u \in T : u \in Nat /\ t \in Nat
    BY <1>1
  <2> QED
    BY <2>3, <2>4
<1>3. PICK m \in S : t = b - m
  <2>1. t \in 0..b /\ b - t \in S /\ t = b - (b - t)
    BY <1>2
  <2> QED
    BY <2>1
<1>4. \A x \in S : x <= m
  <2> TAKE x \in S
  <2>1. b - x \in T
    OBVIOUS
  <2> QED
    BY <1>2, <1>3, <2>1
<1> QED
  BY <1>3, <1>4 DEF Clip!Max

\* The lesser of two numbers.
LEMMA LesserOfTwo ==
    ASSUME NEW a \in Int, NEW b \in Int
    PROVE  Clip!Min({a, b}) = IF a <= b THEN a ELSE b
<1>1. \E m \in {a, b} : \A x \in {a, b} : m <= x
  OBVIOUS
<1> QED
  BY <1>1 DEF Clip!Min

\* A text is a sequence of numbers, and so are its beginnings, which are no longer.
LEMMA TextsAreSequences ==
    ASSUME NEW runes \in Clip!Texts PROVE runes \in Seq(Nat)
<1>1. PICK n \in 0 .. MaxRunes : runes \in [1 .. n -> RuneCosts]
  BY DEF Clip!Texts
<1>2. n \in Nat /\ runes \in [1 .. n -> Nat]
  <2>1. n \in Nat /\ RuneCosts \subseteq Nat
    BY ClipSizes
  <2>2. \A i \in 1 .. n : runes[i] \in Nat
    BY <1>1, <2>1
  <2> QED
    BY <1>1, <2>1, <2>2
<1> QED
  BY <1>2

LEMMA Beginnings ==
    ASSUME NEW runes \in Seq(Nat), NEW n \in 0 .. Len(runes)
    PROVE  /\ Clip!jsonStringBytes(runes) \in Nat
           /\ Clip!jsonStringBytes(SubSeq(runes, 1, n)) \in Nat
           /\ Clip!jsonStringBytes(SubSeq(runes, 1, n)) <= Clip!jsonStringBytes(runes)
           /\ n = 0 => Clip!jsonStringBytes(SubSeq(runes, 1, n)) = 0
           /\ n = Len(runes) => SubSeq(runes, 1, n) = runes
<1> DEFINE s == SubSeq(runes, 1, n)
<1>1. /\ Len(runes) \in Nat /\ n \in Nat /\ n <= Len(runes)
      /\ runes \in [1 .. Len(runes) -> Nat] /\ DOMAIN runes = 1 .. Len(runes)
  OBVIOUS
<1>2. /\ s \in Seq(Nat) /\ Len(s) = n /\ \A i \in 1 .. n : s[i] = runes[i]
  BY <1>1
<1>3. s \in [1 .. n -> Nat] /\ DOMAIN s = 1 .. n
  BY <1>2, LenProperties
<1>4. n = Len(runes) => s = runes
  BY <1>1, <1>2, <1>3
<1> HIDE DEF s
<1>5. IsFiniteSet(1 .. Len(runes)) /\ IsFiniteSet(1 .. n)
  BY <1>1, FS_Interval
<1>6. /\ IsFiniteSet(Stack(runes)) /\ Cardinality(Stack(runes)) \in Nat
      /\ Cardinality(Stack(s)) \in Nat
  BY <1>1, <1>3, <1>5, StackIsFinite
<1>7. Stack(s) \in SUBSET Stack(runes)
  <2>1. 1 .. n \subseteq 1 .. Len(runes)
    BY <1>1
  <2> QED
    BY <1>1, <1>2, <1>3, <2>1 DEF Stack
<1>8. Cardinality(Stack(s)) <= Cardinality(Stack(runes))
  BY <1>6, <1>7, FS_Subset
<1>9. n = 0 => Clip!Total(s) = 0
  <2>1. n = 0 => 1 .. n = {}
    BY <1>1
  <2> QED
    BY <1>3, <2>1, TotalOfZeros
<1> QED
  BY <1>4, <1>6, <1>8, <1>9, TotalIsStack DEF Clip!jsonStringBytes, s

\* A text cut to its share fits the share, and one that fits is not cut.
LEMMA CutFits ==
    ASSUME NEW runes \in Seq(Nat), NEW share \in Nat
    PROVE  /\ Clip!jsonStringBytes(Clip!clipJSONString(runes, share)) \in Nat
           /\ Clip!jsonStringBytes(Clip!clipJSONString(runes, share)) <= share
           /\ Clip!jsonStringBytes(Clip!clipJSONString(runes, share)) <= Clip!jsonStringBytes(runes)
           /\ Clip!jsonStringBytes(runes) <= share => Clip!clipJSONString(runes, share) = runes
<1> DEFINE S == {n \in 0 .. Len(runes) : Clip!jsonStringBytes(SubSeq(runes, 1, n)) <= share}
           m == Clip!Max(S)
<1>1. Len(runes) \in Nat /\ 0 \in 0 .. Len(runes) /\ Len(runes) \in 0 .. Len(runes)
  OBVIOUS
<1>2. S \in SUBSET (0 .. Len(runes)) /\ S # {}
  <2>1. Clip!jsonStringBytes(SubSeq(runes, 1, 0)) = 0
    BY <1>1, Beginnings
  <2>2. 0 \in S
    BY <1>1, <2>1
  <2> QED
    BY <2>2
<1>3. m \in S /\ \A n \in S : n <= m
  BY <1>1, <1>2, GreatestIsThere
<1>4. Clip!jsonStringBytes(runes) <= share => Len(runes) \in S
  <2>1. SubSeq(runes, 1, Len(runes)) = runes
    BY <1>1, Beginnings
  <2> QED
    BY <1>1, <2>1
<1>5. Clip!clipJSONString(runes, share) = SubSeq(runes, 1, m)
  BY DEF Clip!clipJSONString
<1>6. m \in 0 .. Len(runes) /\ Clip!jsonStringBytes(SubSeq(runes, 1, m)) <= share
  BY <1>3
<1>7. Clip!jsonStringBytes(runes) <= share => m = Len(runes)
  BY <1>1, <1>3, <1>4, <1>6
<1> HIDE DEF m, S
<1> QED
  BY <1>5, <1>6, <1>7, Beginnings

\* The sizes of the fields, and the greatest of them.
LEMMA FieldSizes ==
    ASSUME text \in [Fields -> Clip!Texts]
    PROVE  /\ \A f \in Fields : text[f] \in Seq(Nat) /\ Clip!Size(f) \in Nat
           /\ Clip!Largest \in Nat
<1>1. \A f \in Fields : text[f] \in Seq(Nat)
  BY TextsAreSequences
<1>2. \A f \in Fields : Clip!Size(f) \in Nat
  <2> SUFFICES ASSUME NEW f \in Fields PROVE Clip!Size(f) \in Nat
    OBVIOUS
  <2>1. text[f] \in Seq(Nat) /\ 0 \in 0 .. Len(text[f])
    BY <1>1
  <2> QED
    BY <2>1, Beginnings DEF Clip!Size
<1> DEFINE b == [f \in Fields |-> Clip!Size(f)]
           S == {Clip!Size(f) : f \in Fields}
<1>3. b \in [Fields -> Nat]
  BY <1>2
<1>4. Clip!Total(b) \in Nat /\ \A f \in Fields : b[f] <= Clip!Total(b)
  BY <1>3, ClipSizes, TermsAreWithin, StackIsFinite, TotalIsStack
<1>5. S \in SUBSET (0 .. Clip!Total(b)) /\ S # {}
  <2>1. \A f \in Fields : b[f] = Clip!Size(f)
    OBVIOUS
  <2> HIDE DEF b
  <2>2. \A f \in Fields : Clip!Size(f) \in 0 .. Clip!Total(b)
    BY <1>2, <1>4, <2>1
  <2> QED
    BY <2>2, ClipSizes
<1> HIDE DEF b
<1>6. Clip!Max(S) \in S
  BY <1>4, <1>5, GreatestIsThere
<1>7. Clip!Largest \in Nat
  BY <1>2, <1>6 DEF Clip!Largest
<1> QED
  BY <1>1, <1>2, <1>7

\* Equal shares of a size are numbers, and shares of nothing are nothing.
LEMMA SharesAreSums ==
    ASSUME text \in [Fields -> Clip!Texts], NEW n \in Nat
    PROVE  /\ [f \in Fields |-> Clip!Min({Clip!Size(f), n})] \in [Fields -> Nat]
           /\ Clip!Shares(n) \in Nat
           /\ n = 0 => Clip!Shares(n) = 0
<1> DEFINE b == [f \in Fields |-> Clip!Min({Clip!Size(f), n})]
<1>1. \A f \in Fields : Clip!Min({Clip!Size(f), n}) = IF Clip!Size(f) <= n THEN Clip!Size(f) ELSE n
  <2> SUFFICES ASSUME NEW f \in Fields
               PROVE  Clip!Min({Clip!Size(f), n}) = IF Clip!Size(f) <= n THEN Clip!Size(f) ELSE n
    OBVIOUS
  <2>1. Clip!Size(f) \in Int /\ n \in Int
    BY FieldSizes
  <2> QED
    BY <2>1, LesserOfTwo
<1>2. b \in [Fields -> Nat]
  BY <1>1, FieldSizes
<1>3. n = 0 => \A f \in Fields : b[f] = 0
  BY <1>1, FieldSizes
<1>4. DOMAIN b = Fields
  OBVIOUS
<1>5. Clip!Shares(n) = Clip!Total(b)
  BY DEF Clip!Shares
<1> HIDE DEF b
<1> QED
  BY <1>2, <1>3, <1>4, <1>5, ClipSizes, StackIsFinite, TotalIsStack, TotalOfZeros DEF b

\* The search keeps a share that fits below, and one that does not above.
ClipInv ==
    /\ text \in [Fields -> Clip!Texts] /\ base \in Nat /\ limit \in Nat
    /\ low \in Nat /\ high \in Int
    /\ clipStep = "measure" => low = 0 /\ high = Clip!Largest /\ clipped = text
    /\ clipStep = "search" =>
          /\ Clip!Available >= 0 /\ low <= high
          /\ Clip!Shares(low) <= Clip!Available
          /\ high = Clip!Largest \/ Clip!Shares(high + 1) > Clip!Available
    /\ clipStep = "error" => base > limit
    /\ clipStep = "done" =>
          /\ Clip!Encoded(clipped) <= limit
          /\ \A f \in Fields : Clip!Size(f) <= low => clipped[f] = text[f]

LEMMA InitClip == Clip!Init => ClipInv
<1> SUFFICES ASSUME Clip!Init PROVE ClipInv
  OBVIOUS
<1>1. /\ text \in [Fields -> Clip!Texts] /\ base \in 0 .. MaxBase /\ limit \in 0 .. MaxLimit
      /\ low = 0 /\ high = Clip!Largest /\ clipped = text /\ clipStep = "measure"
  BY DEF Clip!Init
<1>2. base \in Nat /\ limit \in Nat
  BY <1>1, ClipSizes
<1>3. Clip!Largest \in Nat
  BY <1>1, FieldSizes
<1> QED
  BY <1>1, <1>2, <1>3 DEF ClipInv

\* The cut texts fit: each is within its share and the shares are within the room.
LEMMA CutTextsFit ==
    ASSUME ClipInv, clipStep = "search", NEW t,
           t = [f \in Fields |-> Clip!clipJSONString(text[f], low)]
    PROVE  Clip!Encoded(t) <= limit
<1> DEFINE a == [f \in Fields |-> Clip!jsonStringBytes(t[f])]
           b == [f \in Fields |-> Clip!Min({Clip!Size(f), low})]
           U == {f \in Fields : t[f] = text[f] /\ text[f] # <<>>}
<1>1. text \in [Fields -> Clip!Texts] /\ base \in Nat /\ limit \in Nat /\ low \in Nat
      /\ Clip!Shares(low) <= Clip!Available
  BY DEF ClipInv
<1>2. b \in [Fields -> Nat] /\ Clip!Shares(low) = Clip!Total(b)
  BY <1>1, SharesAreSums DEF Clip!Shares
<1>3. \A f \in Fields : a[f] \in Nat /\ a[f] <= b[f]
  <2> SUFFICES ASSUME NEW f \in Fields PROVE a[f] \in Nat /\ a[f] <= b[f]
    OBVIOUS
  <2>1. text[f] \in Seq(Nat) /\ Clip!Size(f) \in Nat
    BY <1>1, FieldSizes
  <2>2. a[f] = Clip!jsonStringBytes(Clip!clipJSONString(text[f], low))
    OBVIOUS
  <2>3. b[f] = IF Clip!Size(f) <= low THEN Clip!Size(f) ELSE low
    BY <1>1, <2>1, LesserOfTwo
  <2> HIDE DEF a, b
  <2>4. a[f] \in Nat /\ a[f] <= low /\ a[f] <= Clip!Size(f)
    BY <1>1, <2>1, <2>2, CutFits DEF Clip!Size
  <2> QED
    BY <2>3, <2>4
<1>4. a \in [Fields -> Nat]
  BY <1>3
<1>5. Clip!TotalBytes(t) = Clip!Total(a)
  BY DEF Clip!TotalBytes
<1>6. Clip!Encoded(t) = base + Clip!TotalBytes(t) - FlagBytes * Clip!Cardinality(U)
  BY DEF Clip!Encoded
<1>7. U \in SUBSET Fields
  OBVIOUS
<1> HIDE DEF a, b, U
<1>8. Clip!Total(a) \in Nat /\ Clip!Total(a) <= Clip!Total(b) /\ Clip!Total(b) \in Nat
  BY <1>2, <1>3, <1>4, ClipSizes, TotalGrows
<1>9. Cardinality(U) \in Nat /\ FlagBytes \in Nat
  BY <1>7, ClipSizes, FS_Subset, FS_CardinalityType
<1>10. ASSUME NEW x \in Nat, NEW y \in Nat PROVE x * y \in Nat
  BY <1>10
<1>11. FlagBytes * Clip!Cardinality(U) \in Nat
  BY <1>9, <1>10, ClipCounts
<1> QED
  BY <1>1, <1>2, <1>5, <1>6, <1>8, <1>11 DEF Clip!Available

LEMMA NextClip == ClipInv /\ [Clip!Next]_(Clip!vars) => ClipInv'
<1> SUFFICES ASSUME ClipInv, [Clip!Next]_(Clip!vars) PROVE ClipInv'
  OBVIOUS
<1>1. text \in [Fields -> Clip!Texts] /\ base \in Nat /\ limit \in Nat
      /\ low \in Nat /\ high \in Int /\ Clip!Available \in Int
  BY DEF ClipInv, Clip!Available
<1>2. ASSUME UNCHANGED <<text, limit, base>>
      PROVE  /\ Clip!Available' = Clip!Available /\ Clip!Largest' = Clip!Largest
             /\ \A n : Clip!Shares(n)' = Clip!Shares(n)
             /\ \A f : Clip!Size(f)' = Clip!Size(f)
             /\ \A t : Clip!Encoded(t)' = Clip!Encoded(t)
  BY <1>2 DEF Clip!Available, Clip!Largest, Clip!Shares, Clip!Size, Clip!Encoded,
              Clip!TotalBytes
<1>3. CASE Clip!Measure
  <2>1. /\ clipStep = "measure" /\ UNCHANGED <<text, limit, base, low, high, clipped>>
        /\ clipStep' = IF Clip!Encoded(text) <= limit THEN "done"
                       ELSE IF Clip!Available < 0 THEN "error" ELSE "search"
    BY <1>3 DEF Clip!Measure
  <2>2. low = 0 /\ high = Clip!Largest /\ clipped = text
    BY <2>1 DEF ClipInv
  <2>3. Clip!Shares(0) = 0 /\ Clip!Largest \in Nat
    BY <1>1, SharesAreSums, FieldSizes
  <2>4. CASE clipStep' = "done"
    <3>1. Clip!Encoded(text) <= limit
      BY <2>1, <2>4
    <3>2. (Clip!Encoded(clipped) <= limit)'
      BY <1>2, <2>1, <2>2, <3>1 DEF Clip!Encoded
    <3> QED
      BY <1>1, <2>1, <2>2, <2>4, <3>2 DEF ClipInv
  <2>5. CASE clipStep' = "error"
    <3>1. base > limit
      BY <1>1, <2>1, <2>5 DEF Clip!Available
    <3> QED
      BY <1>1, <2>1, <2>5, <3>1 DEF ClipInv
  <2>6. CASE clipStep' = "search"
    <3>1. Clip!Available >= 0
      BY <1>1, <2>1, <2>6
    <3> QED
      BY <1>1, <1>2, <2>1, <2>2, <2>3, <2>6, <3>1 DEF ClipInv
  <2> QED
    BY <2>1, <2>4, <2>5, <2>6
<1>4. CASE Clip!Search
  <2>1. /\ clipStep = "search" /\ low < high
        /\ IF Clip!Shares(Clip!Middle) <= Clip!Available
           THEN low' = Clip!Middle /\ high' = high
           ELSE high' = Clip!Middle - 1 /\ low' = low
        /\ UNCHANGED <<text, limit, base, clipStep, clipped>>
    BY <1>4 DEF Clip!Search
  <2>2. Clip!Middle \in Int /\ low < Clip!Middle /\ Clip!Middle <= high
    BY <1>1, <2>1 DEF Clip!Middle
  <2>3. Clip!Middle \in Nat
    BY <1>1, <2>2
  <2>4. Clip!Shares(Clip!Middle) \in Nat
    BY <1>1, <2>3, SharesAreSums
  <2>5. /\ Clip!Available >= 0 /\ Clip!Shares(low) <= Clip!Available
        /\ high = Clip!Largest \/ Clip!Shares(high + 1) > Clip!Available
    BY <2>1 DEF ClipInv
  <2>6. CASE Clip!Shares(Clip!Middle) <= Clip!Available
    <3>1. low' = Clip!Middle /\ high' = high
      BY <2>1, <2>6
    <3>2. (Clip!Shares(low) <= Clip!Available)'
      <4>1. Clip!Shares(low)' = Clip!Shares(low')
        BY <1>2, <2>1 DEF Clip!Shares
      <4> QED
        BY <1>2, <2>1, <2>6, <3>1, <4>1
    <3>3. (high = Clip!Largest \/ Clip!Shares(high + 1) > Clip!Available)'
      <4>1. Clip!Shares(high + 1)' = Clip!Shares(high + 1)
        BY <2>1, <3>1 DEF Clip!Shares, Clip!Size
      <4> QED
        BY <1>2, <2>1, <2>5, <3>1, <4>1
    <3> QED
      BY <1>1, <1>2, <2>1, <2>2, <2>3, <2>5, <3>1, <3>2, <3>3 DEF ClipInv
  <2>7. CASE ~(Clip!Shares(Clip!Middle) <= Clip!Available)
    <3>1. high' = Clip!Middle - 1 /\ low' = low /\ high' + 1 = Clip!Middle
      BY <2>1, <2>2, <2>7
    <3>2. (Clip!Shares(low) <= Clip!Available)'
      <4>1. Clip!Shares(low)' = Clip!Shares(low)
        BY <2>1, <3>1 DEF Clip!Shares, Clip!Size
      <4> QED
        BY <1>2, <2>1, <2>5, <4>1
    <3>3. (Clip!Shares(high + 1) > Clip!Available)'
      <4>1. Clip!Shares(high + 1)' = Clip!Shares(Clip!Middle)
        BY <2>1, <3>1 DEF Clip!Shares, Clip!Size
      <4> QED
        BY <1>1, <1>2, <2>1, <2>4, <2>7, <4>1
    <3> QED
      BY <1>1, <1>2, <2>1, <2>2, <2>5, <3>1, <3>2, <3>3 DEF ClipInv
  <2> QED
    BY <2>6, <2>7
<1>5. CASE Clip!Clip
  <2>1. /\ clipStep = "search" /\ clipStep' = "done"
        /\ clipped' = [f \in Fields |-> Clip!clipJSONString(text[f], low)]
        /\ UNCHANGED <<text, limit, base, low, high>>
    BY <1>5 DEF Clip!Clip
  <2>2. Clip!Encoded(clipped') <= limit
    BY <2>1, CutTextsFit
  <2>3. Clip!Encoded(clipped)' = Clip!Encoded(clipped')
    BY <2>1 DEF Clip!Encoded, Clip!TotalBytes
  <2>4. \A f \in Fields : Clip!Size(f) <= low => clipped'[f] = text[f]
    <3> SUFFICES ASSUME NEW f \in Fields, Clip!Size(f) <= low PROVE clipped'[f] = text[f]
      OBVIOUS
    <3>1. text[f] \in Seq(Nat)
      BY <1>1, FieldSizes
    <3>2. Clip!clipJSONString(text[f], low) = text[f]
      BY <1>1, <3>1, CutFits DEF Clip!Size
    <3> QED
      BY <2>1, <3>2
  <2> QED
    BY <1>1, <1>2, <2>1, <2>2, <2>3, <2>4 DEF ClipInv
<1>6. CASE UNCHANGED Clip!vars
  <2>1. UNCHANGED <<text, limit, base, low, high, clipStep, clipped>>
    BY <1>6 DEF Clip!vars
  <2>2. /\ Clip!Shares(low)' = Clip!Shares(low) /\ Clip!Shares(high + 1)' = Clip!Shares(high + 1)
        /\ Clip!Encoded(clipped)' = Clip!Encoded(clipped)
    BY <2>1 DEF Clip!Shares, Clip!Size, Clip!Encoded, Clip!TotalBytes
  <2> QED
    BY <1>2, <2>1, <2>2 DEF ClipInv
<1> QED
  BY <1>3, <1>4, <1>5, <1>6 DEF Clip!Next

LEMMA FocusedClip ==
    [MCNext]_<<focus, vars, writerVars, clipVars, remoteVars>> => [Clip!Next]_(Clip!vars)
BY DEF MCNext, clipVars, Clip!vars

\* marshalRunResult fails only when what must stay does not fit; what it shortens fits,
\* the share it finds is the largest one, and fields within it stay whole.
THEOREM ClipStaysFair == MCSpec => []ClipIsFair
<1>1. MCInit => ClipInv
  BY InitClip DEF MCInit
<1>2. ClipInv /\ [MCNext]_<<focus, vars, writerVars, clipVars, remoteVars>> => ClipInv'
  BY NextClip, FocusedClip
<1>3. ClipInv => ClipIsFair
  <2> SUFFICES ASSUME ClipInv PROVE Clip!ClipIsFair
    BY DEF ClipIsFair
  <2>1. ASSUME clipStep = "search", low >= high, low < Clip!Largest
        PROVE  Clip!Shares(low + 1) > Clip!Available
    BY <2>1 DEF ClipInv
  <2> QED
    BY <2>1 DEF ClipInv, Clip!ClipIsFair
<1> QED
  BY <1>1, <1>2, <1>3, PTL DEF MCSpec

-----------------------------------------------------------------------------
(* The client of another server *)

\* What timers and results may be.
RemoteTypes ==
    /\ streamErr \in {"none", "cancelled", "deadline"} /\ timedOut \in BOOLEAN
    /\ callerGone \in BOOLEAN /\ complete \in BOOLEAN

\* The upload timer's flag is set exactly from its firing on, and the timer starts
\* with the request.
UploadOK ==
    /\ timedOut => upload \in {"firing", "fired"}
    /\ upload \in {"firing", "fired"} => timedOut
    /\ client \in {"validate", "authorize"} => upload = "off"

\* The context was cancelled by somebody, and until the stream or the body is read
\* there is nobody but the caller and the upload timer.
CauseOK ==
    /\ streamErr = "cancelled" =>
          callerGone \/ upload = "fired" \/ body = "fired" \/ idle = "fired"
    /\ client \notin {"errorBody", "returned"} => body = "off"
    /\ client # "returned" => response = "none"

RemoteCauses == RemoteTypes /\ UploadOK /\ CauseOK /\ Remote!ReasonMatchesCause

LEMMA InitCauses == Remote!Init => RemoteCauses
BY DEF Remote!Init, RemoteCauses, RemoteTypes, UploadOK, CauseOK, Remote!ReasonMatchesCause

\* Every return names what the timers and the context say at that moment.
LEMMA NextCauses == RemoteCauses /\ [Remote!Next]_(Remote!vars) => RemoteCauses'
<1> SUFFICES ASSUME RemoteCauses, [Remote!Next]_(Remote!vars) PROVE RemoteCauses'
  OBVIOUS
<1> USE DEF RemoteCauses, RemoteTypes, UploadOK, CauseOK, Remote!ReasonMatchesCause,
            Remote!timers, Remote!peer, Remote!reader, Remote!Cancel, Remote!Return, Remote!Go
<1>1. CASE Remote!Validate
  <2>1. timedOut' = timedOut /\ body' = body
    BY <1>1, Zenon DEF Remote!Validate
  <2> QED
    BY <1>1, <2>1 DEF Remote!Validate
<1>2. CASE Remote!authorizationHeader
  <2>1. timedOut' = timedOut /\ body' = body
    BY <1>2, Zenon DEF Remote!authorizationHeader
  <2> QED
    BY <1>2, <2>1 DEF Remote!authorizationHeader
<1>3. CASE Remote!ReadLine
  BY <1>3 DEF Remote!ReadLine, Remote!Consume
<1>4. CASE Remote!HandleOther
  BY <1>4 DEF Remote!HandleOther, Remote!NextEvent, Remote!Consume, Remote!EventReady
<1>5. CASE Remote!HandleMalformed
  BY <1>5 DEF Remote!HandleMalformed, Remote!NextEvent, Remote!Consume, Remote!EventReady
<1>6. CASE Remote!HandleLog
  BY <1>6 DEF Remote!HandleLog, Remote!NextEvent, Remote!Consume, Remote!EventReady
<1>7. CASE Remote!HandleImage
  <2>1. timedOut' = timedOut /\ body' = body
    BY <1>7, Zenon DEF Remote!HandleImage
  <2> QED
    BY <1>7, <2>1 DEF Remote!HandleImage, Remote!NextEvent, Remote!Consume, Remote!EventReady
<1>8. CASE Remote!HandleError
  BY <1>8 DEF Remote!HandleError, Remote!NextEvent, Remote!Consume, Remote!EventReady
<1>9. CASE Remote!HandleResult
  BY <1>9 DEF Remote!HandleResult, Remote!NextEvent, Remote!Consume, Remote!EventReady
<1>10. CASE Remote!ReadEnd
  BY <1>10 DEF Remote!ReadEnd
<1>11. CASE Remote!ReadFails
  BY <1>11 DEF Remote!ReadFails, Remote!CancelReason
<1>12. CASE Remote!DoFails
  BY <1>12 DEF Remote!DoFails
<1>13. CASE Remote!DoReturns
  <2>1. timedOut' = timedOut
    BY <1>13, Zenon DEF Remote!DoReturns
  <2> QED
    BY <1>13, <2>1 DEF Remote!DoReturns
<1>14. CASE Remote!ErrorBody
  <2>1. timedOut' = timedOut
    BY <1>14, Zenon DEF Remote!ErrorBody
  <2> QED
    BY <1>14, <2>1 DEF Remote!ErrorBody
<1>15. CASE Remote!PeerBegins
  BY <1>15 DEF Remote!PeerBegins, Remote!Send
<1>16. CASE Remote!PeerContinues
  BY <1>16 DEF Remote!PeerContinues, Remote!Send
<1>17. CASE Remote!PeerEnds
  BY <1>17 DEF Remote!PeerEnds
<1>18. CASE Remote!UploadFires
  BY <1>18 DEF Remote!UploadFires
<1>19. CASE Remote!WroteRequest
  BY <1>19 DEF Remote!WroteRequest
<1>20. CASE Remote!BodyFires
  BY <1>20 DEF Remote!BodyFires
<1>21. CASE Remote!IdleFires
  BY <1>21 DEF Remote!IdleFires
<1>22. CASE Remote!Deadline
  BY <1>22 DEF Remote!Deadline
<1>23. CASE Remote!CallerLeaves
  BY <1>23 DEF Remote!CallerLeaves
<1>24. CASE UNCHANGED Remote!vars
  BY <1>24 DEF Remote!vars
<1> QED
  BY <1>1, <1>2, <1>3, <1>4, <1>5, <1>6, <1>7, <1>8, <1>9, <1>10, <1>11, <1>12, <1>13,
     <1>14, <1>15, <1>16, <1>17, <1>18, <1>19, <1>20, <1>21, <1>22, <1>23, <1>24
  DEF Remote!Next, Remote!Client

LEMMA FocusedRemote ==
    [MCNext]_<<focus, vars, writerVars, clipVars, remoteVars>> => [Remote!Next]_(Remote!vars)
BY DEF MCNext, remoteVars, Remote!vars, Remote!timers, Remote!peer, Remote!reader

\* An upload or idle timeout or a deadline that the client reports did run out
\* (finishUpload and the classification of the errors in remoteRunner.run).
THEOREM ReasonsAreTrue == MCSpec => []ReasonMatchesCause
<1>1. RemoteCauses => ReasonMatchesCause
  BY DEF RemoteCauses, ReasonMatchesCause
<1> QED
  BY <1>1, InitCauses, NextCauses, FocusedRemote, PTL DEF MCSpec, MCInit

\* A line of the stream, as the peer sends it and the reader finds it.
Kinds == {"event", "data", "blank"}
Names == Remote!Frames \cup {"none"}
Contents == {Remote!NoData} \cup UNION {Remote!DataOf(name) : name \in Names}
StreamLines == [line : Kinds, name : Names, data : Contents]

\* In a frame the data follows the name it belongs to, and a blank line the data.
Follows(before, after) ==
    /\ before.line = "event" => after.line = "data" /\ after.name = before.name
    /\ before.line = "data"  => after.line = "blank"
    /\ before.line = "blank" => after.line = "event"

\* What the reader holds before it reads this line: nothing at the beginning of a
\* frame, its name before its data.
Expects(l, e, d) ==
    /\ l.line = "event" => e = "none" /\ d = Remote!NoData
    /\ l.line = "data"  => e = l.name /\ d = Remote!NoData

\* What the reader holds when it has read this line and no other.
HasRead(l, e, d) ==
    /\ l.line = "blank" => e = "none" /\ d = Remote!NoData
    /\ l.line = "event" => e = l.name /\ d = Remote!NoData

\* The good data of a result.
IsResult(name, d) == name = "result" /\ d.kind = "good"

\* The lines not yet read are a piece of a stream that begins where the reader is
\* and ends where the peer is; the data of a result anywhere on the way was sent.
WireOK ==
    /\ wire \in Seq(StreamLines) /\ last \in StreamLines
    /\ \A i \in 1 .. Len(wire) - 1 : Follows(wire[i], wire[i + 1])
    /\ \A i \in 1 .. Len(wire) :
          wire[i].line = "data" /\ IsResult(wire[i].name, wire[i].data) => complete

ReaderOK ==
    /\ wire # <<>> => Expects(wire[1], event, data)
    /\ connection \in {"none", "open"} =>
          IF wire = <<>> THEN HasRead(last, event, data) ELSE last = wire[Len(wire)]
    /\ IsResult(event, data) => complete

RemoteResults ==
    /\ WireOK /\ ReaderOK
    /\ client \in {"validate", "authorize", "do"} => connection = "none"
    /\ Remote!ResultIsComplete

\* The peer's next line continues the stream.
LEMMA SendContinues ==
    ASSUME RemoteResults, NEW l \in StreamLines, connection = "open", Remote!Send(l),
           Follows(last, l), complete \in BOOLEAN, complete' \in BOOLEAN, complete => complete',
           l.line = "data" /\ IsResult(l.name, l.data) => complete',
           event' = event, data' = data, connection' = connection
    PROVE  WireOK' /\ ReaderOK'
<1> DEFINE S == StreamLines
<1>1. /\ wire \in Seq(S) /\ l \in S
      /\ wire' = Append(wire, l) /\ last' = l
  BY DEF RemoteResults, WireOK, Remote!Send
<1>0. \A s \in S : s.line \in {"event", "data", "blank"}
  BY DEF StreamLines, Kinds
<1> HIDE DEF S
<1>2. /\ wire' \in Seq(S) /\ Len(wire') = Len(wire) + 1 /\ Len(wire) \in Nat
      /\ \A i \in 1 .. Len(wire) : wire'[i] = wire[i]
      /\ wire'[Len(wire) + 1] = l /\ wire' # <<>>
  BY <1>1
<1>3. wire # <<>> => last = wire[Len(wire)] /\ Len(wire) > 0
  BY <1>1 DEF RemoteResults, ReaderOK
<1>4. \A i \in 1 .. Len(wire') - 1 : Follows(wire'[i], wire'[i + 1])
  <2> SUFFICES ASSUME NEW i \in 1 .. Len(wire') - 1 PROVE Follows(wire'[i], wire'[i + 1])
    OBVIOUS
  <2>1. CASE i < Len(wire)
    <3>1. i \in 1 .. Len(wire) - 1 /\ i \in 1 .. Len(wire) /\ i + 1 \in 1 .. Len(wire)
      BY <1>2, <2>1
    <3>2. Follows(wire[i], wire[i + 1])
      BY <3>1 DEF RemoteResults, WireOK
    <3> QED
      BY <3>1, <3>2, <1>2
  <2>2. CASE i >= Len(wire)
    <3>1. i = Len(wire) /\ i \in 1 .. Len(wire) /\ wire # <<>>
      BY <1>2, <2>2, <1>1
    <3>2. wire'[i] = last /\ wire'[i + 1] = l
      BY <3>1, <1>2, <1>3
    <3> QED
      BY <3>2
  <2> QED
    BY <2>1, <2>2, <1>2
<1>5. \A i \in 1 .. Len(wire') :
         wire'[i].line = "data" /\ IsResult(wire'[i].name, wire'[i].data) => complete'
  <2> SUFFICES ASSUME NEW i \in 1 .. Len(wire'), wire'[i].line = "data",
                      IsResult(wire'[i].name, wire'[i].data)
               PROVE  complete'
    OBVIOUS
  <2>1. CASE i \in 1 .. Len(wire)
    <3>1. wire'[i] = wire[i]
      BY <1>2, <2>1
    <3> QED
      BY <3>1, <2>1 DEF RemoteResults, WireOK
  <2>2. CASE i \notin 1 .. Len(wire)
    <3>1. wire'[i] = l
      BY <1>2, <2>2
    <3> QED
      BY <3>1
  <2> QED
    BY <2>1, <2>2
<1>6. WireOK'
  BY <1>1, <1>2, <1>4, <1>5 DEF WireOK, S
<1>7. wire' # <<>> => Expects(wire'[1], event', data')
  <2>1. CASE wire = <<>>
    <3>1. wire'[1] = l /\ HasRead(last, event, data)
      BY <2>1, <1>1, <1>2 DEF RemoteResults, ReaderOK
    <3>2. last \in S
      BY DEF RemoteResults, WireOK, S
    <3>3. Expects(l, event, data)
      BY <3>1, <3>2, <1>0, <1>1 DEF Expects, HasRead, Follows
    <3> QED
      BY <3>1, <3>3 DEF Expects
  <2>2. CASE wire # <<>>
    <3>1. wire'[1] = wire[1] /\ Expects(wire[1], event, data)
      BY <2>2, <1>1, <1>2 DEF RemoteResults, ReaderOK
    <3> QED
      BY <3>1 DEF Expects
  <2> QED
    BY <2>1, <2>2
<1>8. wire' # <<>> /\ last' = wire'[Len(wire')]
  BY <1>1, <1>2
<1>9. IsResult(event', data') => complete'
  BY DEF RemoteResults, ReaderOK
<1> QED
  BY <1>6, <1>7, <1>8, <1>9 DEF ReaderOK, Expects, HasRead, IsResult

\* The reader's next line, if there is one, is taken off the stream.
LEMMA ConsumeContinues ==
    ASSUME RemoteResults, Remote!Consume, complete \in BOOLEAN,
           wire # <<>> => HasRead(wire[1], event', data'),
           wire = <<>> => connection \notin {"none", "open"},
           IsResult(event', data') => complete
    PROVE  WireOK' /\ ReaderOK'
<1> DEFINE S == StreamLines
<1>1. /\ wire \in Seq(S) /\ last \in S /\ last' = last
      /\ (complete' = complete) /\ connection' = connection
      /\ wire' = IF wire = <<>> THEN wire ELSE Tail(wire)
  BY DEF RemoteResults, WireOK, Remote!Consume
<1>0. \A s \in S : s.line \in {"event", "data", "blank"}
  BY DEF StreamLines, Kinds
<1> HIDE DEF S
<1>2. CASE wire = <<>>
  <2>1. wire' = wire
    BY <1>1, <1>2
  <2> QED
    BY <1>1, <1>2, <2>1 DEF WireOK, ReaderOK, RemoteResults
<1>3. CASE wire # <<>>
  <2>1. /\ wire' = Tail(wire) /\ wire' \in Seq(S) /\ Len(wire') = Len(wire) - 1
        /\ Len(wire) \in Nat \ {0} /\ Len(wire') \in Nat
        /\ \A i \in 1 .. Len(wire') : wire'[i] = wire[i + 1]
    BY <1>1, <1>3, HeadTailProperties
  <2>2. \A i \in 1 .. Len(wire') - 1 : Follows(wire'[i], wire'[i + 1])
    <3> SUFFICES ASSUME NEW i \in 1 .. Len(wire') - 1 PROVE Follows(wire'[i], wire'[i + 1])
      OBVIOUS
    <3>1. i + 1 \in 1 .. Len(wire) - 1 /\ i \in 1 .. Len(wire') /\ i + 1 \in 1 .. Len(wire')
      BY <2>1
    <3>2. Follows(wire[i + 1], wire[(i + 1) + 1])
      BY <3>1 DEF RemoteResults, WireOK
    <3> QED
      BY <3>1, <3>2, <2>1
  <2>3. \A i \in 1 .. Len(wire') :
           wire'[i].line = "data" /\ IsResult(wire'[i].name, wire'[i].data) => complete'
    <3> SUFFICES ASSUME NEW i \in 1 .. Len(wire'), wire'[i].line = "data",
                        IsResult(wire'[i].name, wire'[i].data)
                 PROVE  complete'
      OBVIOUS
    <3>1. i + 1 \in 1 .. Len(wire) /\ wire'[i] = wire[i + 1]
      BY <2>1
    <3> QED
      BY <3>1, <1>1 DEF RemoteResults, WireOK
  <2>4. WireOK'
    BY <1>1, <2>1, <2>2, <2>3 DEF WireOK, S
  <2>5. ASSUME wire' # <<>> PROVE Expects(wire'[1], event', data')
    <3>1. 1 \in 1 .. Len(wire) - 1 /\ 1 \in 1 .. Len(wire') /\ wire'[1] = wire[1 + 1]
      BY <2>1, <2>5
    <3>2. Follows(wire[1], wire'[1]) /\ HasRead(wire[1], event', data')
      BY <3>1, <1>3 DEF RemoteResults, WireOK
    <3>3. wire[1] \in S /\ wire'[1] \in S
      BY <3>1, <2>1, <1>1
    <3> QED
      BY <3>2, <3>3, <1>0 DEF Expects, HasRead, Follows
  <2>6. ASSUME connection' \in {"none", "open"}
        PROVE  IF wire' = <<>> THEN HasRead(last, event', data') ELSE last = wire'[Len(wire')]
    <3>1. last = wire[Len(wire)]
      BY <2>6, <1>1, <1>3 DEF RemoteResults, ReaderOK
    <3>2. CASE wire' = <<>>
      <4>1. Len(wire) = 1
        BY <3>2, <2>1
      <4> QED
        BY <3>1, <3>2, <4>1, <1>3
    <3>3. CASE wire' # <<>>
      <4>1. Len(wire') \in 1 .. Len(wire') /\ wire'[Len(wire')] = wire[Len(wire)]
        BY <2>1, <3>3
      <4> QED
        BY <4>1, <3>1, <3>3
    <3> QED
      BY <3>2, <3>3
  <2>7. IsResult(event', data') => complete'
    BY <1>1
  <2>8. ReaderOK'
    BY <1>1, <2>5, <2>6, <2>7 DEF ReaderOK, Expects, HasRead, IsResult
  <2> QED
    BY <2>4, <2>8
<1> QED
  BY <1>2, <1>3

\* The lines the peer sends.
LEMMA LinesAreLines ==
    /\ Remote!Blank \in StreamLines
    /\ \A name \in Names : Remote!Line("event", name, Remote!NoData) \in StreamLines
    /\ \A name \in Names : \A d \in Remote!DataOf(name) :
          Remote!Line("data", name, d) \in StreamLines
<1> HIDE DEF Remote!NoData, Remote!DataOf
<1>1. Remote!NoData \in Contents /\ \A name \in Names : \A d \in Remote!DataOf(name) : d \in Contents
  BY DEF Contents
<1>2. \A kind \in Kinds, name \in Names, d \in Contents : Remote!Line(kind, name, d) \in StreamLines
  <2> SUFFICES ASSUME NEW kind \in Kinds, NEW name \in Names, NEW d \in Contents
               PROVE  [line |-> kind, name |-> name, data |-> d] \in StreamLines
    BY DEF Remote!Line
  <2> QED
    BY DEF StreamLines
<1>3. {"event", "data", "blank"} \subseteq Kinds /\ "none" \in Names
  BY DEF Kinds, Names
<1> QED
  BY <1>1, <1>2, <1>3 DEF Remote!Blank

LEMMA InitResults == Remote!Init => RemoteResults
<1> SUFFICES ASSUME Remote!Init PROVE RemoteResults
  OBVIOUS
<1>1. wire = <<>> /\ last = Remote!Blank /\ last \in StreamLines /\ connection = "none"
      /\ event = "none" /\ data = Remote!NoData /\ response = "none"
  BY LinesAreLines DEF Remote!Init
<1>2. WireOK
  BY <1>1 DEF WireOK
<1>3. last.line = "blank"
  BY <1>1 DEF Remote!Blank, Remote!Line
<1>4. ReaderOK
  <2>1. ~IsResult(event, data)
    BY <1>1 DEF IsResult
  <2> QED
    BY <1>1, <1>3, <2>1 DEF ReaderOK, HasRead
<1> QED
  BY <1>1, <1>2, <1>4 DEF RemoteResults, Remote!ResultIsComplete

\* Each line goes from the peer to the reader, which believes a result only at the
\* end of a frame whose name and data it has read.
LEMMA NextResults ==
    RemoteCauses /\ RemoteResults /\ [Remote!Next]_(Remote!vars) => RemoteResults'
<1> SUFFICES ASSUME RemoteCauses, RemoteResults, [Remote!Next]_(Remote!vars)
             PROVE  RemoteResults'
  OBVIOUS
<1>1. complete \in BOOLEAN /\ (client # "returned" => response = "none")
  BY DEF RemoteCauses, RemoteTypes, CauseOK
\* The actions that leave the stream and the reader alone.
<1>2. ASSUME UNCHANGED <<Remote!peer, Remote!reader>>,
             client' \in {"validate", "authorize", "do"} =>
                 client \in {"validate", "authorize", "do"},
             response' = "result" => response = "result"
      PROVE  RemoteResults'
  <2>1. UNCHANGED <<wire, last, connection, frames, complete, event, data>>
    BY <1>2 DEF Remote!peer, Remote!reader
  <2>2. WireOK' /\ ReaderOK'
    BY <2>1 DEF RemoteResults, WireOK, ReaderOK, Expects, HasRead, IsResult
  <2>3. (client' \in {"validate", "authorize", "do"} => connection' = "none")
    BY <1>2, <2>1 DEF RemoteResults
  <2>4. (response' = "result" => complete')
    BY <1>2, <2>1 DEF RemoteResults, Remote!ResultIsComplete
  <2> QED
    BY <2>2, <2>3, <2>4 DEF RemoteResults, Remote!ResultIsComplete
\* The reader takes the blank line, or the stream has ended.
<1>3. ASSUME Remote!EventReady, Remote!NextEvent, Remote!Consume, client = "reading",
             client' \in {"reading", "returned"},
             response' = "result" => complete
      PROVE  RemoteResults'
  <2>1. wire # <<>> => HasRead(wire[1], event', data')
    BY <1>3 DEF Remote!NextEvent, HasRead, Remote!EventReady
  <2>2. wire = <<>> => connection \notin {"none", "open"}
    BY <1>3 DEF Remote!EventReady
  <2>3. IsResult(event', data') => complete
    BY <1>3 DEF Remote!NextEvent, IsResult
  <2>4. WireOK' /\ ReaderOK'
    BY <1>1, <1>3, <2>1, <2>2, <2>3, ConsumeContinues
  <2>5. (complete' = complete)
    BY <1>3 DEF Remote!Consume
  <2> QED
    BY <1>3, <2>4, <2>5 DEF RemoteResults, Remote!ResultIsComplete
<1>4. CASE Remote!ReadLine
  <2>1. client = "reading" /\ client' = client /\ response' = response /\ wire # <<>>
        /\ Remote!Consume /\ Head(wire) = wire[1] /\ 1 \in 1 .. Len(wire) /\ wire[1] \in StreamLines
    BY <1>4, HeadTailProperties DEF Remote!ReadLine, RemoteResults, WireOK
  <2>2. Expects(wire[1], event, data)
    BY <2>1 DEF RemoteResults, ReaderOK
  <2>3. CASE wire[1].line = "event" /\ event' = wire[1].name /\ data' = data
    <3>1. HasRead(wire[1], event', data')
      BY <2>2, <2>3 DEF Expects, HasRead
    <3>2. IsResult(event', data') => complete
      BY <2>2, <2>3 DEF Expects, IsResult, Remote!NoData
    <3>3. WireOK' /\ ReaderOK'
      BY <1>1, <2>1, <3>1, <3>2, ConsumeContinues
    <3> QED
      BY <1>1, <2>1, <3>3 DEF RemoteResults, Remote!ResultIsComplete
  <2>4. CASE wire[1].line = "data" /\ data' = wire[1].data /\ event' = event
    <3>1. HasRead(wire[1], event', data')
      BY <2>4 DEF HasRead
    <3>2. IsResult(event', data') => complete
      BY <2>1, <2>2, <2>4 DEF Expects, IsResult, RemoteResults, WireOK
    <3>3. WireOK' /\ ReaderOK'
      BY <1>1, <2>1, <3>1, <3>2, ConsumeContinues
    <3> QED
      BY <1>1, <2>1, <3>3 DEF RemoteResults, Remote!ResultIsComplete
  <2> QED
    BY <1>4, <2>1, <2>3, <2>4 DEF Remote!ReadLine
<1>5. CASE Remote!HandleOther
  <2>1. client = "reading" /\ client' = client /\ response' = response
    BY <1>5 DEF Remote!HandleOther, Remote!EventReady
  <2> QED
    BY <1>1, <1>3, <1>5, <2>1 DEF Remote!HandleOther
<1>6. CASE Remote!HandleMalformed
  BY <1>3, <1>6 DEF Remote!HandleMalformed, Remote!EventReady, Remote!Return
<1>7. CASE Remote!HandleLog
  <2>1. client = "reading" /\ client' \in {"reading", "returned"} /\ response' # "result"
    BY <1>1, <1>7 DEF Remote!HandleLog, Remote!EventReady, Remote!Return
  <2> QED
    BY <1>3, <1>7, <2>1 DEF Remote!HandleLog
<1>8. CASE Remote!HandleImage
  <2>1. client = "reading" /\ client' \in {"reading", "returned"} /\ response' # "result"
    BY <1>1, <1>8 DEF Remote!HandleImage, Remote!EventReady, Remote!Return
  <2> QED
    BY <1>3, <1>8, <2>1 DEF Remote!HandleImage
<1>9. CASE Remote!HandleError
  <2>1. client = "reading" /\ client' = client /\ response' # "result"
    BY <1>1, <1>9 DEF Remote!HandleError, Remote!EventReady
  <2> QED
    BY <1>3, <1>9, <2>1 DEF Remote!HandleError
<1>10. CASE Remote!HandleResult
  <2>1. client = "reading" /\ client' = "returned"
    BY <1>10 DEF Remote!HandleResult, Remote!EventReady, Remote!Return
  <2>2. complete
    BY <1>10 DEF Remote!HandleResult, Remote!Malformed, RemoteResults, ReaderOK, IsResult
  <2> QED
    BY <1>3, <1>10, <2>1, <2>2 DEF Remote!HandleResult
<1>11. CASE Remote!PeerBegins
  <2>1. PICK name \in Remote!Frames : Remote!Send(Remote!Line("event", name, Remote!NoData))
    BY <1>11 DEF Remote!PeerBegins
  <2> DEFINE l == Remote!Line("event", name, Remote!NoData)
  <2>2. l \in StreamLines /\ l.line = "event"
    <3>1. name \in Names
      BY DEF Names
    <3>2. l.line = "event"
      BY DEF Remote!Line
    <3> QED
      BY <3>1, <3>2, LinesAreLines
  <2>3. connection = "open" /\ last.line = "blank" /\ connection' = connection
        /\ event' = event /\ data' = data /\ (complete' = complete)
        /\ client' = client /\ client = "reading" /\ response' = response
    BY <1>11 DEF Remote!PeerBegins, Remote!reader
  <2>4. Remote!Send(l)
    BY <2>1
  <2> HIDE DEF l
  <2>5. Follows(last, l)
    BY <2>2, <2>3 DEF Follows
  <2>6. WireOK' /\ ReaderOK'
    BY <1>1, <2>2, <2>3, <2>4, <2>5, SendContinues
  <2> QED
    BY <1>1, <2>3, <2>6 DEF RemoteResults, Remote!ResultIsComplete
<1>12. CASE Remote!PeerContinues
  <2>1. connection = "open" /\ connection' = connection /\ event' = event /\ data' = data
        /\ client' = client /\ client = "reading" /\ response' = response
    BY <1>12 DEF Remote!PeerContinues, Remote!reader
  <2>2. CASE last.line = "event" /\ \E d \in Remote!DataOf(last.name) :
                 /\ Remote!Send(Remote!Line("data", last.name, d))
                 /\ complete' = (complete \/ (last.name = "result" /\ d.kind = "good"))
    <3>1. PICK d \in Remote!DataOf(last.name) :
                 /\ Remote!Send(Remote!Line("data", last.name, d))
                 /\ complete' = (complete \/ (last.name = "result" /\ d.kind = "good"))
      BY <2>2
    <3> DEFINE l == Remote!Line("data", last.name, d)
    <3>2. last.name \in Names
      BY DEF RemoteResults, WireOK, StreamLines
    <3>3. l \in StreamLines /\ l.line = "data" /\ l.name = last.name /\ l.data = d
      <4>1. Remote!Line("data", last.name, d) \in StreamLines
        BY <3>1, <3>2, LinesAreLines
      <4> QED
        BY <4>1 DEF Remote!Line
    <3>4. Remote!Send(l)
      BY <3>1
    <3> HIDE DEF l
    <3>5. complete' \in BOOLEAN /\ (complete => complete')
          /\ (IsResult(l.name, l.data) => complete')
      BY <1>1, <3>1, <3>3 DEF IsResult
    <3>6. Follows(last, l)
      BY <2>2, <3>3 DEF Follows
    <3>7. WireOK' /\ ReaderOK'
      BY <1>1, <2>1, <3>3, <3>4, <3>5, <3>6, SendContinues
    <3> QED
      BY <1>1, <2>1, <3>7 DEF RemoteResults, Remote!ResultIsComplete
  <2>3. CASE last.line = "data" /\ Remote!Send(Remote!Blank) /\ UNCHANGED complete
    <3> DEFINE l == Remote!Blank
    <3>1. l \in StreamLines /\ l.line = "blank" /\ Remote!Send(l)
      BY <2>3, LinesAreLines DEF Remote!Blank, Remote!Line
    <3> HIDE DEF l
    <3>2. Follows(last, l)
      BY <2>3, <3>1 DEF Follows
    <3>3. WireOK' /\ ReaderOK'
      BY <1>1, <2>1, <2>3, <3>1, <3>2, SendContinues
    <3> QED
      BY <1>1, <2>1, <3>3 DEF RemoteResults, Remote!ResultIsComplete
  <2> QED
    BY <1>12, <2>2, <2>3 DEF Remote!PeerContinues
<1>13. CASE Remote!PeerEnds
  <2>1. UNCHANGED <<wire, last, complete, event, data, response, client>>
        /\ client = "reading" /\ connection' \notin {"none", "open"}
    BY <1>13 DEF Remote!PeerEnds, Remote!reader
  <2>2. WireOK' /\ ReaderOK'
    BY <2>1 DEF RemoteResults, WireOK, ReaderOK, Expects, HasRead, IsResult
  <2> QED
    BY <1>1, <2>1, <2>2 DEF RemoteResults, Remote!ResultIsComplete
<1>14. CASE Remote!DoReturns
  <2>1. UNCHANGED <<wire, last, complete, event, data>> /\ client = "do" /\ connection' = "open"
    BY <1>14 DEF Remote!DoReturns, Remote!reader
  <2>2. client' \in {"reading", "errorBody", "returned"} /\ response' # "result"
    BY <1>1, <1>14 DEF Remote!DoReturns, Remote!Return
  <2>3. WireOK' /\ ReaderOK'
    BY <2>1 DEF RemoteResults, WireOK, ReaderOK, Expects, HasRead, IsResult
  <2> QED
    BY <2>2, <2>3 DEF RemoteResults, Remote!ResultIsComplete
<1>15. CASE Remote!Validate
  BY <1>1, <1>2, <1>15 DEF Remote!Validate, Remote!Return, Remote!Go
<1>16. CASE Remote!authorizationHeader
  BY <1>1, <1>2, <1>16 DEF Remote!authorizationHeader, Remote!Return, Remote!Go
<1>17. CASE Remote!ReadEnd
  BY <1>2, <1>17 DEF Remote!ReadEnd, Remote!Return
<1>18. CASE Remote!ReadFails
  BY <1>2, <1>18 DEF Remote!ReadFails, Remote!Return, Remote!CancelReason
<1>19. CASE Remote!DoFails
  BY <1>2, <1>19 DEF Remote!DoFails, Remote!Return
<1>20. CASE Remote!ErrorBody
  BY <1>2, <1>20 DEF Remote!ErrorBody, Remote!Return
<1>21. CASE Remote!UploadFires
  BY <1>2, <1>21 DEF Remote!UploadFires
<1>22. CASE Remote!WroteRequest
  BY <1>2, <1>22 DEF Remote!WroteRequest
<1>23. CASE Remote!BodyFires
  BY <1>2, <1>23 DEF Remote!BodyFires
<1>24. CASE Remote!IdleFires
  BY <1>2, <1>24 DEF Remote!IdleFires
<1>25. CASE Remote!Deadline
  BY <1>2, <1>25 DEF Remote!Deadline
<1>26. CASE Remote!CallerLeaves
  BY <1>2, <1>26 DEF Remote!CallerLeaves
<1>27. CASE UNCHANGED Remote!vars
  BY <1>2, <1>27 DEF Remote!vars
<1> QED
  BY <1>4, <1>5, <1>6, <1>7, <1>8, <1>9, <1>10, <1>11, <1>12, <1>13, <1>14, <1>15, <1>16,
     <1>17, <1>18, <1>19, <1>20, <1>21, <1>22, <1>23, <1>24, <1>25, <1>26, <1>27
  DEF Remote!Next, Remote!Client

\* A result is reported only when the peer has sent all the data of a valid one
\* (SSEReader.Next, decodeRemoteResult): the end of the stream cuts no result short.
THEOREM ResultsAreWhole == MCSpec => []ResultIsComplete
<1>1. RemoteCauses /\ RemoteResults => ResultIsComplete
  BY DEF RemoteResults, ResultIsComplete
<1> QED
  BY <1>1, InitCauses, NextCauses, InitResults, NextResults, FocusedRemote, PTL
  DEF MCSpec, MCInit
=============================================================================
