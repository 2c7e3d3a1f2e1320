----------------------------- MODULE ResultClip -----------------------------
(***************************************************************************)
(* marshalRunResult: how the display texts of an execution's result are    *)
(* shortened when the whole does not fit the wire.  A binary search finds  *)
(* the share every field gets, and each field is cut at a rune boundary.   *)
(*                                                                         *)
(* A field is the sequence of the encoded sizes of its runes.  The rest of *)
(* the result is a number of bytes that includes every "truncated" flag a  *)
(* field might need; a field that is not cut saves its flag.               *)
(***************************************************************************)
EXTENDS Integers, Sequences, FiniteSetsExt

CONSTANTS RuneCosts,   \* what jsonRuneBytes may return
          MaxRunes,    \* bound: runes of one field
          Fields,      \* the display fields, 1 .. how many
          MaxBase,     \* bound: bytes of everything else
          FlagBytes,   \* bytes of one truncation flag
          MaxLimit     \* bound: the wire limit

\* Every rune costs something, and there is a field to cut.
SizesFit ==
    /\ RuneCosts \subseteq Nat \ {0} /\ IsFiniteSet(Fields) /\ Fields # {}
    /\ {MaxRunes, MaxBase, FlagBytes, MaxLimit} \subseteq Nat

VARIABLES text, limit, base,   \* the input
          low, high, pc, clipped

vars == <<text, limit, base, low, high, pc, clipped>>

Texts == UNION {[1 .. n -> RuneCosts] : n \in 0 .. MaxRunes}

\* The sum of the values of a function, counted one by one.
Total(bytes) == Cardinality(UNION {{x} \X (1 .. bytes[x]) : x \in DOMAIN bytes})

jsonStringBytes(runes) == Total(runes)

Size(f)           == jsonStringBytes(text[f])
TotalBytes(texts) == Total([f \in Fields |-> jsonStringBytes(texts[f])])
Largest           == Max({Size(f) : f \in Fields})

\* The length of the result with the given texts, none of them flagged before.
Encoded(texts) ==
    base + TotalBytes(texts)
        - FlagBytes * Cardinality({f \in Fields : texts[f] = text[f] /\ text[f] # <<>>})

Available == limit - base

Init ==
    /\ text \in [Fields -> Texts] /\ base \in 0 .. MaxBase /\ limit \in 0 .. MaxLimit
    /\ base >= FlagBytes * Cardinality({f \in Fields : text[f] # <<>>})
    /\ low = 0 /\ high = Largest
    /\ clipped = text /\ pc = "measure"

\* All of it fits, not even the rest fits, or the texts must be shortened.
Measure ==
    /\ pc = "measure"
    /\ pc' = IF Encoded(text) <= limit THEN "done"
             ELSE IF Available < 0 THEN "error" ELSE "search"
    /\ UNCHANGED <<text, limit, base, low, high, clipped>>

Shares(n) == Total([f \in Fields |-> Min({Size(f), n})])

Middle == low + (high - low + 1) \div 2

\* Mutant: the middle is skipped when it fits.
Search_Skips ==
    /\ pc = "search" /\ low < high
    /\ IF Shares(Middle) <= Available THEN low' = Middle + 1 /\ UNCHANGED high
                                      ELSE high' = Middle - 1 /\ UNCHANGED low
    /\ UNCHANGED <<text, limit, base, pc, clipped>>

Search ==
    /\ pc = "search" /\ low < high
    /\ IF Shares(Middle) <= Available THEN low' = Middle /\ UNCHANGED high
                                      ELSE high' = Middle - 1 /\ UNCHANGED low
    /\ UNCHANGED <<text, limit, base, pc, clipped>>

\* As many runes as the share has room for.
clipJSONString(runes, share) ==
    SubSeq(runes, 1, Max({n \in 0 .. Len(runes) :
                             jsonStringBytes(SubSeq(runes, 1, n)) <= share}))

Clip ==
    /\ pc = "search" /\ low >= high
    /\ clipped' = [f \in Fields |-> clipJSONString(text[f], low)]
    /\ pc' = "done"
    /\ UNCHANGED <<text, limit, base, low, high>>

Next == Measure \/ Search \/ Clip

Spec == Init /\ [][Next]_vars

-----------------------------------------------------------------------------
(* Properties *)

\* The last check of marshalRunResult, that the shortened result fits, never
\* fails: a result is refused only if nothing of it that must stay fits.  The search
\* stops at the largest share that fits, so that short fields stay whole and no room
\* is left that every long field could use.
ClipIsFair ==
    /\ pc = "done"  => Encoded(clipped) <= limit
    /\ pc = "error" => base > limit
    /\ pc = "search" /\ low >= high =>
          /\ Shares(low) <= Available
          /\ low < Largest => Shares(low + 1) > Available
    /\ pc = "done" => \A f \in Fields : Size(f) <= low => clipped[f] = text[f]
=============================================================================
