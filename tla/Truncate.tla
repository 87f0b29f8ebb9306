------------------------------ MODULE Truncate -------------------------------
(***************************************************************************)
(* truncateCharacters and truncateBytes (truncate.ts), which cut the texts *)
(* a model is given.  A text is a sequence of code points, known by how    *)
(* they are encoded: one to four UTF-8 bytes, the replacement character,   *)
(* the byte order mark, or half of a surrogate pair that stands alone.     *)
(***************************************************************************)
EXTENDS Integers, Sequences, SequencesExt

CONSTANTS
    MaxText,        \* bound: code points in a text
    MaxCut          \* bound: maxChars and maxBytes

ASSUME TruncateAssumptions == MaxText \in Nat /\ MaxCut \in Nat \ {0}

Point == {"one", "two", "three", "four", "replacement", "mark", "high", "low"}

Halves == {"high", "low"}

(* Two halves in a row would be one code point of four bytes.              *)
Texts ==
    {t \in UNION {[1 .. n -> Point] : n \in 0 .. MaxText} :
        \A i \in 1 .. Len(t) - 1 : ~(t[i] = "high" /\ t[i + 1] = "low")}

VARIABLES text, limit, cut

cutVars == <<text, limit, cut>>

CutInit ==
    /\ text \in Texts
    /\ limit \in [of : {"characters", "bytes"}, max : 1 .. MaxCut]
    /\ cut = [done |-> FALSE, text |-> <<>>]

-----------------------------------------------------------------------------
(* How much the first n of a row measure together, for n from 0.           *)
Sums(row) ==
    LET sum[n \in 0 .. Len(row)] == IF n = 0 THEN 0 ELSE sum[n - 1] + row[n]
    IN  sum

(* UTF-16 code units: a code point of four bytes is a pair.                *)
Ends(t) == Sums([i \in DOMAIN t |-> IF t[i] = "four" THEN 2 ELSE 1])

UnitAt(t, u) ==
    LET ends == Ends(t)
        i == CHOOSE i \in DOMAIN t : ends[i - 1] < u /\ u <= ends[i]
    IN  IF t[i] # "four" THEN t[i] ELSE IF u = ends[i] THEN "low" ELSE "high"

Units(t) == [u \in 1 .. Ends(t)[Len(t)] |-> UnitAt(t, u)]

SlicesThrough(t, max) == SubSeq(Units(t), 1, max)

Characters(t, max) ==
    LET u == Units(t)
        end == IF u[max + 1] = "low" /\ u[max] = "high" THEN max - 1 ELSE max
    IN  IF Len(u) <= max THEN u ELSE SubSeq(u, 1, end)

Width == [p \in Point |-> CASE p = "one" -> 1 [] p = "two" -> 2 [] p = "four" -> 4
                            [] OTHER -> 3]

Bytes(t) == Sums([i \in DOMAIN t |-> Width[t[i]]])[Len(t)]

(* encode: half a pair alone becomes the replacement character.            *)
Encoded(t) == [i \in DOMAIN t |-> IF t[i] \in Halves THEN "replacement" ELSE t[i]]

Whole(t, max) == {n \in 0 .. Len(t) : Bytes(SubSeq(t, 1, n)) <= max}

Longest(t, max) == SubSeq(t, 1, CHOOSE n \in Whole(t, max) : n + 1 \notin Whole(t, max))

(* decode: one replacement character for the code point that was cut, and  *)
(* no byte order mark.                                                     *)
Decoded(t, max) ==
    LET kept == Longest(t, max)
        shown == IF Bytes(kept) < max THEN Append(kept, "replacement") ELSE kept
    IN  IF shown # <<>> /\ shown[1] = "mark" THEN Tail(shown) ELSE shown

DecodedText(t, max) ==
    IF Bytes(t) <= max THEN t ELSE Decoded(Encoded(t), max)

EndsInReplacement(t) == t # <<>> /\ t[Len(t)] = "replacement"

InBytes(t, max) ==
    LET decoded == Decoded(Encoded(t), max) IN
    IF Bytes(t) <= max THEN t
    ELSE IF EndsInReplacement(decoded) THEN SubSeq(decoded, 1, Len(decoded) - 1)
    ELSE decoded

Truncates ==
    /\ ~cut.done
    /\ cut' = [done |-> TRUE,
               text |-> IF limit.of = "bytes" THEN InBytes(text, limit.max)
                        ELSE Characters(text, limit.max)]
    /\ UNCHANGED <<text, limit>>

CutNext == Truncates

CutSpec == CutInit /\ [][CutNext]_cutVars

-----------------------------------------------------------------------------
(* A text cut to characters is its longest beginning of whole code points  *)
(* that fits.                                                              *)
CharactersFit ==
    LET fits == {n \in 0 .. Len(text) : Len(Units(SubSeq(text, 1, n))) <= limit.max} IN
    cut.text = Units(SubSeq(text, 1, CHOOSE n \in fits : n + 1 \notin fits))

(* A text cut to bytes fits and holds no part of a code point.  If it does *)
(* not begin with a mark and all its surrogates are paired, the result is  *)
(* its longest beginning of whole code points that fits, or, when that     *)
(* ends in a replacement character, one less.                              *)
BytesFit ==
    /\ Bytes(cut.text) <= limit.max
    /\ \A i \in DOMAIN cut.text : cut.text[i] = "replacement" =>
          \E j \in DOMAIN text : text[j] \in Halves \cup {"replacement"}
    /\ (\A i \in DOMAIN text : text[i] \notin Halves) /\ Head(text) # "mark" =>
          LET best == Longest(text, limit.max) IN
          \/ cut.text = best
          \/ EndsInReplacement(best) /\ cut.text = Front(best)

(* "never emitting a partial code point" (truncate.ts:32), and no text cut *)
(* further than it must be.                                                *)
TruncationIsTight ==
    cut.done /\ text # <<>> =>
        IF limit.of = "bytes" THEN BytesFit ELSE CharactersFit
=============================================================================
