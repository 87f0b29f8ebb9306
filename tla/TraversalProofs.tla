--------------------------- MODULE TraversalProofs --------------------------
(***************************************************************************)
(* The commands that work through many records: the two page-by-page       *)
(* traversals, Export and RetryAll, over a table of any size that others   *)
(* change between the pages, which rest on four facts about module         *)
(* Keyset's pages; and Import, whose summary is true for files and batches *)
(* of any size, whatever other clients write between the batches.          *)
(***************************************************************************)
EXTENDS Export, RetryAll, Import, FiniteSetTheorems, SequenceTheorems, TLAPS

-----------------------------------------------------------------------------
(* Pages. *)

(* Of some natural numbers one is the least ...                            *)
LEMMA Smallest ==
  ASSUME NEW S \in SUBSET Nat, S # {}
  PROVE  \E k \in S : \A j \in S : k <= j
<1> DEFINE Less == {p \in Nat \X Nat : p[1] < p[2]}
<1>1. \A p, q \in Nat : <<p, q>> \in Less <=> p < q
  OBVIOUS
<1>2. IsWellFoundedOn(Less, Nat)
  BY NatLessThanWellFounded DEF OpToRel
<1> HIDE DEF Less
<1>3. PICK k \in S : \A j \in S : ~(<<j, k>> \in Less)
  BY <1>2, WFMin, S \subseteq Nat
<1>4. ASSUME NEW j \in S
      PROVE  k <= j
  <2>1. k \in Nat /\ j \in Nat /\ ~(j < k)
    BY <1>1, <1>3
  <2> QED
    BY <2>1
<1> QED
  BY <1>4

(* ... and, if they are bounded, one the greatest.                         *)
LEMMA Largest ==
  ASSUME NEW m \in Nat, NEW S \in SUBSET (1 .. m), S # {}
  PROVE  \E k \in S : \A j \in S : j <= k
<1> DEFINE Above == {n \in Nat : \A s \in S : s <= n}
<1>1. m \in Above /\ Above \in SUBSET Nat
  OBVIOUS
<1>2. PICK n \in Above : \A k \in Above : n <= k
  <2> HIDE DEF Above
  <2> QED
    BY <1>1, Smallest
<1>3. n \in S
  <2> SUFFICES ASSUME n \notin S
               PROVE  FALSE
    OBVIOUS
  <2>1. n \in Nat /\ \A s \in S : s \in Nat \ {0} /\ s < n
    BY <1>2
  <2>2. n - 1 \in Nat
    <3>1. PICK s \in S : TRUE
      OBVIOUS
    <3> QED
      BY <2>1, <3>1
  <2>3. \A s \in S : s <= n - 1
    BY <2>1
  <2>4. n - 1 \in Above
    BY <2>2, <2>3
  <2> QED
    BY <1>2, <2>1, <2>4
<1> QED
  BY <1>2, <1>3

(* EndOf is the largest key of a page.                                      *)
LEMMA LastOfPage ==
  ASSUME NEW m \in Nat, NEW S \in SUBSET (1 .. m), S # {}, NEW k
  PROVE  EndOf(S, k) \in S /\ \A j \in S : j <= EndOf(S, k)
<1>1. \E i \in S : \A j \in S : j <= i
  BY Largest
<1> QED
  BY <1>1 DEF EndOf

Before(rows, k, i) == {j \in rows : k < j /\ j < i}

LEMMA PageDef ==
  ASSUME NEW rows, NEW k, NEW n
  PROVE  Page(rows, k, n) = {i \in rows : k < i /\ Cardinality(Before(rows, k, i)) < n}
BY DEF Page, Before

LEMMA BeforeIsFinite ==
  ASSUME NEW m \in Nat, NEW rows \in SUBSET (1 .. m), NEW k, NEW i
  PROVE  IsFiniteSet(Before(rows, k, i)) /\ Cardinality(Before(rows, k, i)) \in Nat
<1>1. IsFiniteSet(1 .. m)
  BY FS_Interval, 1 \in Int, m \in Int
<1>2. Before(rows, k, i) \in SUBSET (1 .. m)
  BY DEF Before
<1>3. IsFiniteSet(Before(rows, k, i))
  BY <1>1, <1>2, FS_Subset
<1> QED
  BY <1>3, FS_CardinalityType

(* A page has no gap: what lies before one of its keys is in it.           *)
LEMMA PageHasNoGap ==
  ASSUME NEW m \in Nat, NEW rows \in SUBSET (1 .. m), NEW k \in Nat, NEW n \in Nat,
         NEW i \in Page(rows, k, n), NEW j \in rows, k < j, j <= i
  PROVE  j \in Page(rows, k, n)
<1>1. i \in rows /\ Cardinality(Before(rows, k, i)) < n
  BY PageDef
<1>2. Before(rows, k, j) \in SUBSET Before(rows, k, i)
  <2> SUFFICES ASSUME NEW l \in Before(rows, k, j)
               PROVE  l \in Before(rows, k, i)
    OBVIOUS
  <2>1. l \in rows /\ k < l /\ l < j
    BY DEF Before
  <2>2. l \in 1 .. m /\ j \in 1 .. m /\ i \in 1 .. m
    BY <1>1, <2>1
  <2>3. l < i
    BY <2>1, <2>2
  <2> QED
    BY <2>1, <2>3 DEF Before
<1>3. /\ IsFiniteSet(Before(rows, k, i))
      /\ Cardinality(Before(rows, k, i)) \in Nat
      /\ Cardinality(Before(rows, k, j)) \in Nat
  BY BeforeIsFinite
<1>4. Cardinality(Before(rows, k, j)) <= Cardinality(Before(rows, k, i))
  BY <1>2, <1>3, FS_Subset
<1>5. Cardinality(Before(rows, k, j)) < n
  BY <1>1, <1>3, <1>4
<1> QED
  BY <1>5, PageDef

(* A page has at most n keys, all of them past the cursor.                 *)
LEMMA PageFits ==
  ASSUME NEW m \in Nat, NEW rows \in SUBSET (1 .. m), NEW k \in Nat, NEW n \in Nat
  PROVE  /\ IsFiniteSet(Page(rows, k, n)) /\ Cardinality(Page(rows, k, n)) \in Nat
         /\ Cardinality(Page(rows, k, n)) <= n
         /\ Page(rows, k, n) \subseteq rows /\ \A i \in Page(rows, k, n) : k < i
<1> DEFINE P == Page(rows, k, n)
<1>1. P \subseteq rows /\ \A i \in P : k < i /\ Cardinality(Before(rows, k, i)) < n
  BY PageDef
<1> HIDE DEF P
<1>2. IsFiniteSet(1 .. m) /\ P \in SUBSET (1 .. m)
  BY <1>1, FS_Interval, 1 \in Int, m \in Int
<1>3. IsFiniteSet(P) /\ Cardinality(P) \in Nat
  <2>1. IsFiniteSet(P)
    BY <1>2, FS_Subset
  <2> QED
    BY <2>1, FS_CardinalityType
<1>4. CASE P = {}
  <2>1. Cardinality(P) = 0
    BY <1>4, FS_EmptySet
  <2> QED
    BY <1>1, <1>3, <2>1 DEF P
<1>5. CASE P # {}
  <2>1. PICK i \in P : \A j \in P : j <= i
    BY <1>2, <1>5, Largest
  <2> DEFINE B == Before(rows, k, i)
  <2>2. IsFiniteSet(B) /\ Cardinality(B) \in Nat /\ Cardinality(B) < n
    BY <1>1, BeforeIsFinite
  <2>3. P \in SUBSET (B \cup {i})
    <3>1. ASSUME NEW j \in P, j # i
          PROVE  j \in B
      <4>1. j <= i /\ j \in rows /\ k < j /\ i \in 1 .. m /\ j \in 1 .. m
        BY <1>1, <1>2, <2>1
      <4>2. j < i
        BY <3>1, <4>1
      <4> QED
        BY <4>1, <4>2 DEF Before
    <3> QED
      BY <3>1
  <2>4. i \notin B
    <3>1. i \in 1 .. m
      BY <1>2
    <3> QED
      BY <3>1 DEF Before
  <2> HIDE DEF B
  <2>5. IsFiniteSet(B \cup {i}) /\ Cardinality(B \cup {i}) = Cardinality(B) + 1
    BY <2>2, <2>4, FS_AddElement
  <2>6. Cardinality(P) <= Cardinality(B \cup {i})
    BY <2>3, <2>5, FS_Subset
  <2>7. Cardinality(P) <= n
    BY <1>3, <2>2, <2>5, <2>6
  <2> QED
    BY <1>1, <1>3, <2>7 DEF P
<1> QED
  BY <1>4, <1>5

(* A page that is not full has all there is past the cursor.               *)
LEMMA ShortPageIsLast ==
  ASSUME NEW m \in Nat, NEW rows \in SUBSET (1 .. m), NEW k \in Nat, NEW n \in Nat,
         Cardinality(Page(rows, k, n)) < n, NEW l \in rows, k < l
  PROVE  l \in Page(rows, k, n)
<1> DEFINE P == Page(rows, k, n)
           Left == {i \in rows : k < i /\ i \notin P}
<1> SUFFICES ASSUME Left # {}
             PROVE  FALSE
  OBVIOUS
<1>1. PICK i \in Left : \A j \in Left : i <= j
  <2>1. Left \in SUBSET Nat
    <3> SUFFICES ASSUME NEW i \in Left
                 PROVE  i \in Nat
      OBVIOUS
    <3>1. i \in rows
      OBVIOUS
    <3> QED
      BY <3>1
  <2> HIDE DEF Left
  <2> QED
    BY <2>1, Smallest
<1>2. Before(rows, k, i) \in SUBSET P
  <2> SUFFICES ASSUME NEW j \in Before(rows, k, i), j \notin P
               PROVE  FALSE
    OBVIOUS
  <2>1. j \in rows /\ k < j /\ j < i /\ j \in 1 .. m /\ i \in 1 .. m
    BY DEF Before
  <2>2. j \in Left
    BY <2>1
  <2> QED
    BY <1>1, <2>1, <2>2
<1>3. /\ IsFiniteSet(P) /\ Cardinality(P) \in Nat
      /\ Cardinality(Before(rows, k, i)) \in Nat
  BY PageFits, BeforeIsFinite
<1>4. Cardinality(Before(rows, k, i)) <= Cardinality(P)
  <2> HIDE DEF P
  <2> QED
    BY <1>2, <1>3, FS_Subset
<1>5. Cardinality(Before(rows, k, i)) < n
  BY <1>3, <1>4
<1> QED
  BY <1>1, <1>5, PageDef

-----------------------------------------------------------------------------
(* Export: what holds between any two of its steps. *)

Exporting == pc \in {"read", "write"}

(* What is in the file lies behind the cursor, what is about to be written *)
(* to it ahead, ...                                                        *)
FileIsBehind == Exporting => \A i \in out : i <= after

PageIsAhead == pc = "write" => \A i \in page : after < i

(* ... the page leaves the limit intact, ...                               *)
PageFitsLimit ==
    pc = "write" => Size \in Nat \ {0} /\ Cardinality(page) <= Size

(* ... and no record that stayed was passed over.                          *)
NoneIsPassed ==
    /\ pc = "read" => \A i \in stayed : i <= after => i \in out
    /\ pc = "write" =>
        /\ \A i \in stayed : i <= EndOf(page, after) => i \in out \cup page
        /\ Cardinality(page) < Size => stayed \subseteq out \cup page

ExportInv ==
    /\ ExportTypeOK /\ NothingTwice /\ FileIsBehind /\ PageIsAhead
    /\ PageFitsLimit /\ NoneIsPassed /\ StayedAreExported

LEMMA IdsAreFinite ==
  ASSUME NEW S \in SUBSET Ids
  PROVE  IsFiniteSet(S) /\ Cardinality(S) \in 0 .. MaxId
<1>1. MaxId \in Nat /\ MaxId \in Int /\ 1 \in Int
  BY ExportAssumptions, PageAssumption
<1>2. IsFiniteSet(Ids) /\ Cardinality(Ids) = MaxId
  BY <1>1, FS_Interval DEF Ids
<1>3. IsFiniteSet(S) /\ Cardinality(S) <= Cardinality(Ids)
  BY <1>2, FS_Subset
<1>4. Cardinality(S) \in Nat
  BY <1>3, FS_CardinalityType
<1> QED
  BY <1>1, <1>2, <1>3, <1>4

LEMMA ExportStarts ==
  ASSUME ExportInit
  PROVE  ExportInv
<1> USE DEF ExportInit, Start
<1>1. ExportTypeOK
  BY ExportAssumptions, PageAssumption DEF ExportTypeOK, Ids
<1>2. NothingTwice
  <2>1. Cardinality({}) = 0
    BY FS_EmptySet
  <2>2. most \in Nat
    BY ExportAssumptions, PageAssumption
  <2> QED
    BY <2>1, <2>2 DEF NothingTwice
<1>3. \A i \in stayed : ~(i <= after)
  BY ExportAssumptions, PageAssumption DEF Ids
<1>4. NoneIsPassed
  BY <1>3 DEF NoneIsPassed
<1> QED
  BY <1>1, <1>2, <1>4 DEF ExportInv, FileIsBehind, PageIsAhead, PageFitsLimit,
     StayedAreExported

LEMMA ReadKeeps ==
  ASSUME ExportInv, Read
  PROVE  ExportInv'
<1> USE ExportAssumptions, PageAssumption
<1>1. /\ ExportTypeOK /\ NothingTwice /\ FileIsBehind /\ NoneIsPassed
  BY DEF ExportInv
<1>2. CASE ~(most = 0 \/ exported < most)
  <2>1. page' = page /\ pc' = "done" /\ UNCHANGED <<record, most, after, out, exported, stayed, writes>>
    BY <1>2 DEF Read
  <2>2. most > 0 /\ exported = most
    <3>1. most \in Nat /\ exported \in Nat
      BY <1>1 DEF ExportTypeOK
    <3> QED
      BY <1>1, <1>2, <3>1 DEF NothingTwice
  <2>3. ExportTypeOK'
    BY <1>1, <2>1 DEF ExportTypeOK
  <2>4. NothingTwice'
    BY <1>1, <2>1 DEF NothingTwice
  <2> QED
    BY <2>1, <2>2, <2>3, <2>4 DEF ExportInv, FileIsBehind, Exporting, PageIsAhead,
       PageFitsLimit, NoneIsPassed, StayedAreExported
<1>3. CASE most = 0 \/ exported < most
  <2>1. /\ page' = Page(record, after, Size) /\ pc = "read" /\ pc' = "write"
        /\ UNCHANGED <<record, most, after, out, exported, stayed, writes>>
    BY <1>3 DEF Read, Listed
  <2>2. /\ record \in SUBSET (1 .. MaxId) /\ after \in Nat /\ MaxId \in Nat
        /\ most \in Nat /\ exported \in Nat /\ PageSize \in Nat \ {0}
        /\ stayed \subseteq record /\ out \in SUBSET (1 .. MaxId)
    BY <1>1 DEF ExportTypeOK, Ids, Start
  <2>3. Size \in Nat \ {0} /\ Size' = Size
    BY <1>3, <2>1, <2>2 DEF Size
  <2>4. /\ IsFiniteSet(page') /\ Cardinality(page') \in Nat /\ Cardinality(page') <= Size
        /\ page' \subseteq record /\ \A i \in page' : after < i
    <3>1. Size \in Nat
      BY <2>3
    <3> HIDE DEF Size
    <3> QED
      BY <2>1, <2>2, <3>1, PageFits
  <2>5. ExportTypeOK'
    BY <1>1, <2>1, <2>2, <2>4 DEF ExportTypeOK, Ids
  <2>6. NothingTwice'
    <3>1. page' \cap out = {}
      <4> SUFFICES ASSUME NEW i \in page', i \in out
                   PROVE  FALSE
        OBVIOUS
      <4>1. i <= after /\ after < i /\ i \in Nat
        BY <1>1, <2>1, <2>2, <2>4 DEF FileIsBehind, Exporting
      <4> QED
        BY <2>2, <4>1
    <3> QED
      BY <1>1, <2>1, <3>1 DEF NothingTwice
  <2>7. NoneIsPassed'
    <3>1. ASSUME NEW i \in stayed, i <= EndOf(page', after)
          PROVE  i \in out \cup page'
      <4>1. CASE i <= after
        BY <1>1, <2>1, <4>1 DEF NoneIsPassed
      <4>2. CASE after < i
        <5>1. page' # {}
          <6> SUFFICES ASSUME page' = {}
                       PROVE  FALSE
            OBVIOUS
          <6>1. EndOf(page', after) = after
            BY DEF EndOf
          <6>2. i \in Nat
            BY <2>2
          <6> QED
            BY <2>2, <3>1, <4>2, <6>1, <6>2
        <5>2. page' \in SUBSET (1 .. MaxId)
          BY <2>2, <2>4
        <5>3. EndOf(page', after) \in page'
          BY <2>2, <5>1, <5>2, LastOfPage
        <5>4. EndOf(page', after) \in Page(record, after, Size) /\ i \in record /\ Size \in Nat
          BY <2>1, <2>2, <2>3, <5>3
        <5>5. i \in Page(record, after, Size)
          BY <2>2, <3>1, <4>2, <5>4, PageHasNoGap
        <5> QED
          BY <2>1, <5>5
      <4>3. i \in Nat
        BY <2>2
      <4> QED
        BY <2>2, <4>1, <4>2, <4>3
    <3>2. ASSUME Cardinality(page') < Size, NEW i \in stayed
          PROVE  i \in out \cup page'
      <4>1. CASE i <= after
        BY <1>1, <2>1, <4>1 DEF NoneIsPassed
      <4>2. CASE after < i
        <5>1. Cardinality(Page(record, after, Size)) < Size /\ i \in record /\ Size \in Nat
          BY <2>1, <2>2, <2>3, <3>2
        <5>2. i \in Page(record, after, Size)
          BY <2>2, <4>2, <5>1, ShortPageIsLast
        <5> QED
          BY <2>1, <5>2
      <4>3. i \in Nat
        BY <2>2
      <4> QED
        BY <2>2, <4>1, <4>2, <4>3
    <3> QED
      BY <2>1, <2>3, <3>1, <3>2 DEF NoneIsPassed
  <2>8. FileIsBehind' /\ PageIsAhead' /\ PageFitsLimit' /\ StayedAreExported'
    BY <1>1, <2>1, <2>3, <2>4 DEF FileIsBehind, Exporting, PageIsAhead, PageFitsLimit,
       StayedAreExported
  <2> QED
    BY <2>5, <2>6, <2>7, <2>8 DEF ExportInv
<1> QED
  BY <1>2, <1>3

LEMMA WritePageKeeps ==
  ASSUME ExportInv, WritePage
  PROVE  ExportInv'
<1> USE ExportAssumptions, PageAssumption
<1>1. /\ ExportTypeOK /\ NothingTwice /\ FileIsBehind /\ PageIsAhead /\ PageFitsLimit
      /\ NoneIsPassed /\ pc = "write"
  BY DEF ExportInv, WritePage
<1>2. /\ out' = out \cup page /\ exported' = CountedIds(exported + Cardinality(page))
      /\ page' = {} /\ UNCHANGED <<record, most, stayed, writes>>
  BY DEF WritePage
<1>3. /\ page \in SUBSET (1 .. MaxId) /\ out \in SUBSET (1 .. MaxId) /\ after \in Nat
      /\ page \in SUBSET Ids /\ out \in SUBSET Ids /\ page \cup out \in SUBSET Ids
      /\ most \in Nat /\ exported \in Nat /\ MaxId \in Nat
      /\ PageSize \in Nat \ {0}
      /\ stayed \in SUBSET (1 .. MaxId)
  BY <1>1 DEF ExportTypeOK, Ids, Start
<1>4. /\ IsFiniteSet(page) /\ Cardinality(page) \in Nat
      /\ IsFiniteSet(out) /\ Cardinality(out) \in Nat
      /\ IsFiniteSet(out \cup page) /\ Cardinality(out \cup page) \in 0 .. MaxId
  BY <1>3, IdsAreFinite
<1>5. Cardinality(out \cup page) = Cardinality(out) + Cardinality(page)
  <2>1. out \cap page = {} /\ Cardinality({}) = 0
    BY <1>1, FS_EmptySet DEF NothingTwice
  <2>2. Cardinality(out \cup page)
          = Cardinality(out) + Cardinality(page) - Cardinality(out \cap page)
    BY <1>4, FS_Union
  <2> QED
    BY <1>4, <2>1, <2>2
<1>6. exported' = Cardinality(out') /\ exported' = exported + Cardinality(page)
      /\ exported' \in 0 .. MaxId + 1
  <2>1. exported = Cardinality(out)
    BY <1>1 DEF NothingTwice
  <2>2. exported + Cardinality(page) \in 0 .. MaxId
    BY <1>4, <1>5, <2>1
  <2> QED
    BY <1>2, <1>3, <1>5, <2>1, <2>2 DEF CountedIds
<1>7. /\ pc' \in {"read", "done"} /\ after' \in {Start} \cup Ids
      /\ pc' = "read" => ~IsLast /\ after' = EndOf(page, after)
      /\ pc' = "done" => IsLast
  <2>1. CASE IsLast
    BY <1>1, <2>1 DEF WritePage, ExportTypeOK
  <2>2. CASE ~IsLast
    <3>1. page # {}
      BY <2>2 DEF IsLast
    <3>2. EndOf(page, after) \in page
      BY <1>3, <3>1, LastOfPage
    <3> QED
      BY <1>3, <2>2, <3>2 DEF WritePage, Cursor
  <2> QED
    BY <2>1, <2>2
<1>8. ExportTypeOK'
  BY <1>1, <1>2, <1>3, <1>6, <1>7 DEF ExportTypeOK
<1>9. NothingTwice'
  <2>1. most > 0 => exported + Cardinality(page) <= most
    <3>1. Size \in Nat \ {0} /\ Cardinality(page) <= Size
      BY <1>1 DEF PageFitsLimit
    <3>2. most > 0 => Size <= most - exported
      BY <1>3, <3>1 DEF Size
    <3> HIDE DEF Size
    <3> QED
      BY <1>3, <1>4, <3>1, <3>2
  <2> QED
    BY <1>2, <1>6, <2>1 DEF NothingTwice
<1>10. CASE pc' = "read"
  <2>1. page # {} /\ after' = EndOf(page, after)
    BY <1>7, <1>10 DEF IsLast
  <2>2. EndOf(page, after) \in page /\ \A i \in page : i <= EndOf(page, after)
    BY <1>3, <2>1, LastOfPage
  <2>3. FileIsBehind'
    <3> SUFFICES ASSUME NEW i \in out'
                 PROVE  i <= after'
      BY DEF FileIsBehind
    <3>1. CASE i \in page
      BY <2>1, <2>2, <3>1
    <3>2. CASE i \in out
      <4>1. i <= after
        BY <1>1, <3>2 DEF FileIsBehind, Exporting
      <4>2. after < EndOf(page, after)
        <5>1. \A j \in page : after < j
          BY <1>1 DEF PageIsAhead
        <5> QED
          BY <2>2, <5>1
      <4>3. i \in Nat /\ EndOf(page, after) \in Nat
        <5>1. \A j \in page \cup out : j \in Nat
          BY <1>3
        <5> QED
          BY <2>2, <3>2, <5>1
      <4> QED
        BY <1>3, <2>1, <4>1, <4>2, <4>3
    <3> QED
      BY <1>2, <3>1, <3>2
  <2>4. \A i \in stayed : i <= EndOf(page, after) => i \in out \cup page
    BY <1>1 DEF NoneIsPassed
  <2>5. NoneIsPassed'
    BY <1>2, <1>10, <2>1, <2>4 DEF NoneIsPassed
  <2> QED
    BY <1>8, <1>9, <1>10, <2>3, <2>5 DEF ExportInv, PageIsAhead, PageFitsLimit,
       StayedAreExported
<1>11. CASE pc' = "done"
  <2>1. Size \in Nat \ {0}
    BY <1>1 DEF PageFitsLimit
  <2>2. Cardinality(page) < Size
    <3>1. page = {} => Cardinality(page) = 0
      BY FS_EmptySet
    <3> HIDE DEF Size
    <3> QED
      BY <1>7, <1>11, <2>1, <3>1 DEF IsLast
  <2>3. stayed \subseteq out \cup page
    BY <1>1, <2>2 DEF NoneIsPassed
  <2> QED
    BY <1>2, <1>8, <1>9, <1>11, <2>3 DEF ExportInv, FileIsBehind, Exporting, PageIsAhead,
       PageFitsLimit, NoneIsPassed, StayedAreExported
<1> QED
  BY <1>7, <1>10, <1>11

LEMMA FailKeeps ==
  ASSUME ExportInv, Fail
  PROVE  ExportInv'
<1>1. /\ pc' = "failed"
      /\ UNCHANGED <<record, most, after, page, out, exported, stayed, writes>>
  BY DEF Fail
<1>2. ExportTypeOK'
  BY <1>1 DEF ExportInv, ExportTypeOK
<1>3. NothingTwice'
  BY <1>1 DEF ExportInv, NothingTwice
<1> QED
  BY <1>1, <1>2, <1>3 DEF ExportInv, FileIsBehind, Exporting, PageIsAhead, PageFitsLimit,
     NoneIsPassed, StayedAreExported

LEMMA OthersWriteKeeps ==
  ASSUME ExportInv, NEW i \in Ids, OthersWrite(i)
  PROVE  ExportInv'
<1>1. /\ stayed' \subseteq stayed
      /\ UNCHANGED <<most, after, page, out, exported, pc>>
  BY DEF OthersWrite
<1>2. ExportTypeOK'
  <2>1. record' \subseteq Ids /\ stayed' \subseteq record'
    BY DEF ExportInv, ExportTypeOK, OthersWrite
  <2>2. writes' \in 0 .. MaxWrites
    BY ExportAssumptions, PageAssumption DEF ExportInv, ExportTypeOK, OthersWrite
  <2> QED
    BY <1>1, <2>1, <2>2 DEF ExportInv, ExportTypeOK
<1>3. NothingTwice' /\ FileIsBehind' /\ PageIsAhead'
  BY <1>1 DEF ExportInv, NothingTwice, FileIsBehind, Exporting, PageIsAhead
<1>4. PageFitsLimit' /\ Size' = Size
  BY <1>1 DEF ExportInv, PageFitsLimit, Size
<1>5. NoneIsPassed'
  <2> HIDE DEF Size
  <2> QED
    BY <1>1, <1>4 DEF ExportInv, NoneIsPassed
<1>6. StayedAreExported'
  BY <1>1 DEF ExportInv, StayedAreExported
<1> QED
  BY <1>2, <1>3, <1>4, <1>5, <1>6 DEF ExportInv

LEMMA ExportKeeps ==
  ASSUME ExportInv, [ExportNext]_exportVars
  PROVE  ExportInv'
<1>1. CASE UNCHANGED exportVars
  BY <1>1 DEF exportVars, ExportInv, ExportTypeOK, NothingTwice, FileIsBehind, Exporting, PageIsAhead,
     PageFitsLimit, Size, NoneIsPassed, StayedAreExported
<1> QED
  BY <1>1, ReadKeeps, WritePageKeeps, FailKeeps, OthersWriteKeeps DEF ExportNext

(* An export writes no record to the file twice and never more than        *)
(* --limit; when it ends, every record that was there all along is in the  *)
(* file, or the limit was reached: for any number of records, any page     *)
(* size, and whatever others insert and delete between two pages.          *)
THEOREM ExportsAreExact == ExportSpec => []ExportIsExact
<1>1. ExportInit => ExportInv
  BY ExportStarts
<1>2. ExportInv /\ [ExportNext]_exportVars => ExportInv'
  BY ExportKeeps
<1>3. ExportInv => ExportIsExact
  BY DEF ExportInv, ExportIsExact
<1> QED
  BY <1>1, <1>2, <1>3, PTL DEF ExportSpec

-----------------------------------------------------------------------------
(* RetryAll: what holds between any two of its steps. *)

(* Rows are numbered in the order they come; ...                           *)
RowsAreOld == failures \cup pending \subseteq 1 .. nextRow - 1

(* ... the rows retried lie behind the cursor, ...                         *)
RetriedAreBehind ==
    \A q \in QueueRow : reset[q] # 0 => reset[q] = 1 /\ q <= listedAfter

(* ... the page about to be retried ahead, ...                             *)
ListingIsAhead == retryPc = "retry" => \A q \in listing : listedAfter < q

(* ... and no row that was failed all along was passed over.               *)
NoFailureIsPassed ==
    /\ retryPc = "list" => \A q \in ever : listedAfter < q
    /\ retryPc = "retry" =>
        /\ \A q \in ever : q <= EndOf(listing, listedAfter) => q \in listing
        /\ Cardinality(listing) < PageSize => ever \subseteq listing

RetryInv ==
    /\ RetryTypeOK /\ RowsAreOld /\ RetriedAreBehind /\ ListingIsAhead
    /\ NoFailureIsPassed /\ RetriedOnce /\ NoneOverlooked

LEMMA RowsAreFinite ==
  ASSUME NEW S \in SUBSET QueueRow
  PROVE  IsFiniteSet(S) /\ Cardinality(S) \in 0 .. MaxRow
<1>1. MaxRow \in Nat /\ MaxRow \in Int /\ 1 \in Int
  BY RetryAssumptions, PageAssumption
<1>2. IsFiniteSet(QueueRow) /\ Cardinality(QueueRow) = MaxRow
  BY <1>1, FS_Interval DEF QueueRow
<1>3. IsFiniteSet(S) /\ Cardinality(S) <= Cardinality(QueueRow)
  BY <1>2, FS_Subset
<1>4. Cardinality(S) \in Nat
  BY <1>3, FS_CardinalityType
<1> QED
  BY <1>1, <1>2, <1>3, <1>4

LEMMA RetryStarts ==
  ASSUME RetryInit
  PROVE  RetryInv
<1>1. /\ nextRow \in 1 .. MaxRow /\ failures \subseteq 1 .. nextRow - 1
      /\ pending = (1 .. nextRow - 1) \ failures /\ MaxRow \in Nat
      /\ listedAfter = 0 /\ listing = {} /\ retryPc = "list"
      /\ retried = 0 /\ retrySkipped = 0
      /\ reset = [q \in QueueRow |-> 0] /\ ever = failures
  BY RetryAssumptions, PageAssumption DEF RetryInit, QueueRow, Start
<1>2. failures \subseteq 1 .. MaxRow /\ pending \subseteq (1 .. MaxRow) \ failures
  BY <1>1
<1>3. RetryTypeOK
  BY <1>1, <1>2 DEF RetryTypeOK, QueueRow, Start
<1>4. RetriedOnce
  <2>1. {q \in QueueRow : reset[q] = 1} = {} /\ Cardinality({}) = 0
    BY <1>1, FS_EmptySet
  <2>2. retried = 0 /\ \A q \in QueueRow : reset[q] <= 1
    BY <1>1
  <2>3. retried = Cardinality({q \in QueueRow : reset[q] = 1})
    BY <2>1, <2>2
  <2> QED
    BY <2>2, <2>3 DEF RetriedOnce
<1>5. NoFailureIsPassed
  BY <1>1, <1>2 DEF NoFailureIsPassed
<1> QED
  BY <1>1, <1>3, <1>4, <1>5 DEF RetryInv, RowsAreOld, RetriedAreBehind, ListingIsAhead, NoneOverlooked

LEMMA ListKeeps ==
  ASSUME RetryInv, List
  PROVE  RetryInv'
<1>1. /\ RetryTypeOK /\ NoFailureIsPassed
  BY DEF RetryInv
<1>2. /\ retryPc = "list" /\ listing' = Page(failures, listedAfter, PageSize)
      /\ retryPc' = IF listing' = {} THEN "done" ELSE "retry"
      /\ UNCHANGED <<failures, pending, nextRow, listedAfter, retried, retrySkipped, reset, ever>>
  BY DEF List, Queue
<1>3. /\ failures \in SUBSET (1 .. MaxRow) /\ listedAfter \in Nat /\ MaxRow \in Nat
      /\ PageSize \in Nat \ {0} /\ PageSize \in Nat /\ ever \subseteq failures
  BY <1>1, RetryAssumptions, PageAssumption DEF RetryTypeOK, QueueRow, Start
<1>4. /\ Cardinality(listing') \in Nat /\ listing' \subseteq failures
      /\ \A q \in listing' : listedAfter < q
  BY <1>2, <1>3, PageFits
<1>5. \A q \in ever : listedAfter < q
  BY <1>1, <1>2 DEF NoFailureIsPassed
<1>6. ASSUME NEW q \in ever, q <= EndOf(listing', listedAfter)
      PROVE  q \in listing'
  <2>1. q \in failures /\ q \in Nat /\ listedAfter < q
    BY <1>3, <1>5
  <2>2. listing' # {}
    <3> SUFFICES ASSUME listing' = {}
                 PROVE  FALSE
      OBVIOUS
    <3>1. q <= listedAfter
      BY <1>6 DEF EndOf
    <3> QED
      BY <1>3, <2>1, <3>1
  <2>3. listing' \in SUBSET (1 .. MaxRow)
    BY <1>3, <1>4
  <2>4. EndOf(listing', listedAfter) \in listing'
    BY <1>3, <2>2, <2>3, LastOfPage
  <2> QED
    BY <1>2, <1>3, <1>6, <2>1, <2>4, PageHasNoGap
<1>7. ASSUME Cardinality(listing') < PageSize
      PROVE  ever \subseteq listing'
  BY <1>2, <1>3, <1>5, <1>7, ShortPageIsLast
<1>8. RetryTypeOK'
  BY <1>1, <1>2, <1>3, <1>4 DEF RetryTypeOK, QueueRow
<1>9. NoFailureIsPassed'
  BY <1>2, <1>6, <1>7 DEF NoFailureIsPassed
<1>10. NoneOverlooked'
  <2>1. Cardinality({}) = 0
    BY FS_EmptySet
  <2>2. listing' = {} => ever = {}
    BY <1>3, <1>7, <2>1
  <2> QED
    BY <1>2, <2>2 DEF NoneOverlooked
<1>11. RowsAreOld' /\ RetriedAreBehind' /\ RetriedOnce'
  BY <1>2 DEF RetryInv, RowsAreOld, RetriedAreBehind, RetriedOnce
<1>12. ListingIsAhead'
  BY <1>2, <1>4 DEF ListingIsAhead
<1> QED
  BY <1>8, <1>9, <1>10, <1>11, <1>12 DEF RetryInv

LEMMA RetryKeeps ==
  ASSUME RetryInv, Retry
  PROVE  RetryInv'
<1> DEFINE S == listing \cap failures
           Once == {q \in QueueRow : reset[q] = 1}
<1>1. /\ RetryTypeOK /\ RowsAreOld /\ RetriedAreBehind /\ ListingIsAhead
      /\ NoFailureIsPassed /\ RetriedOnce /\ retryPc = "retry"
  BY DEF RetryInv, Retry
<1>2. /\ failures' = failures \ S /\ pending' = pending \cup S
      /\ retried' = CountedRows(retried + Cardinality(S))
      /\ retrySkipped' = CountedRows(retrySkipped + Cardinality(listing \ S))
      /\ reset' = [q \in QueueRow |-> IF q \in S /\ reset[q] < 2 THEN reset[q] + 1 ELSE reset[q]]
      /\ ever' = ever \ S /\ listedAfter' = EndOf(listing, listedAfter)
      /\ retryPc' = IF Cardinality(listing) < PageSize THEN "done" ELSE "list"
      /\ listing' = {} /\ nextRow' = nextRow
  BY DEF Retry, StillFailed, RetryCursor
<1>3. /\ failures \in SUBSET QueueRow /\ listing \in SUBSET QueueRow
      /\ S \in SUBSET QueueRow /\ listing \ S \in SUBSET QueueRow
      /\ Once \in SUBSET QueueRow /\ Once \cup S \in SUBSET QueueRow
      /\ pending \in SUBSET (QueueRow \ failures)
      /\ ever \subseteq failures /\ listedAfter \in {0} \cup QueueRow
      /\ reset \in [QueueRow -> 0 .. 2]
      /\ nextRow \in 1 .. MaxRow + 1
  BY <1>1 DEF RetryTypeOK, QueueRow, Start
<1>4. /\ retried \in Nat /\ retrySkipped \in Nat /\ MaxRow \in Nat /\ PageSize \in Nat \ {0}
      /\ QueueRow = 1 .. MaxRow
  BY <1>1, RetryAssumptions, PageAssumption DEF RetryTypeOK, QueueRow
<1>5. \A q \in QueueRow : q \in Nat
  BY <1>4
<1>6. /\ IsFiniteSet(S) /\ Cardinality(S) \in Nat
      /\ IsFiniteSet(Once) /\ Cardinality(Once) \in Nat
      /\ Cardinality(Once \cup S) \in 0 .. MaxRow
      /\ Cardinality(listing \ S) \in Nat
  <2> HIDE DEF S, Once
  <2>1. /\ IsFiniteSet(S) /\ Cardinality(S) \in 0 .. MaxRow
        /\ IsFiniteSet(Once) /\ Cardinality(Once) \in 0 .. MaxRow
        /\ Cardinality(Once \cup S) \in 0 .. MaxRow
        /\ Cardinality(listing \ S) \in 0 .. MaxRow
    BY <1>3, RowsAreFinite
  <2> QED
    BY <1>4, <2>1
<1>7. \A q \in S : reset[q] = 0
  <2> SUFFICES ASSUME NEW q \in S, reset[q] # 0
               PROVE  FALSE
    OBVIOUS
  <2>1. q <= listedAfter /\ listedAfter < q
    BY <1>1, <1>3 DEF RetriedAreBehind, ListingIsAhead
  <2>2. q \in Nat /\ listedAfter \in Nat
    BY <1>3, <1>5
  <2> QED
    BY <2>1, <2>2
<1>8. /\ reset' \in [QueueRow -> 0 .. 2]
      /\ \A q \in S : reset'[q] = 1
      /\ \A q \in QueueRow \ S : reset'[q] = reset[q]
  <2>1. \A q \in QueueRow : reset[q] \in 0 .. 2
    BY <1>3
  <2> HIDE DEF S
  <2>2. \A q \in S : q \in QueueRow
    BY <1>3
  <2> QED
    BY <1>2, <1>7, <2>1, <2>2
<1>9. listedAfter' \in {0} \cup QueueRow /\ \A q \in listing : q <= listedAfter'
  <2>1. CASE listing = {}
    BY <1>2, <1>3, <2>1 DEF EndOf
  <2>2. CASE listing # {}
    <3>1. listing \in SUBSET (1 .. MaxRow)
      BY <1>3, <1>4
    <3>2. EndOf(listing, listedAfter) \in listing
          /\ \A q \in listing : q <= EndOf(listing, listedAfter)
      BY <1>4, <2>2, <3>1, LastOfPage
    <3> QED
      BY <1>2, <1>3, <3>2
  <2> QED
    BY <2>1, <2>2
<1>10. listedAfter <= listedAfter'
  <2>1. CASE listing = {}
    BY <1>2, <1>3, <1>5, <2>1 DEF EndOf
  <2>2. CASE listing # {}
    <3>1. PICK q \in listing : TRUE
      BY <2>2
    <3>2. listedAfter < q /\ q <= listedAfter'
      BY <1>1, <1>9 DEF ListingIsAhead
    <3>3. q \in Nat /\ listedAfter \in Nat /\ listedAfter' \in Nat
      BY <1>3, <1>5, <1>9
    <3> QED
      BY <3>2, <3>3
  <2> QED
    BY <2>1, <2>2
<1>11. retried' = Cardinality({q \in QueueRow : reset'[q] = 1})
       /\ retried' \in 0 .. MaxRow + 1
  <2>1. {q \in QueueRow : reset'[q] = 1} = Once \cup S
    BY <1>3, <1>8
  <2>2. Once \cap S = {} /\ Cardinality({}) = 0
    BY <1>7, FS_EmptySet
  <2>3. retried = Cardinality(Once)
    BY <1>1 DEF RetriedOnce
  <2> HIDE DEF S, Once
  <2>4. Cardinality(Once \cup S) = Cardinality(Once) + Cardinality(S) - Cardinality(Once \cap S)
    BY <1>6, FS_Union
  <2>5. retried + Cardinality(S) = Cardinality(Once \cup S)
    <3>1. Cardinality(Once \cap S) = 0
      BY <2>2
    <3> QED
      BY <1>6, <2>3, <2>4, <3>1
  <2>6. retried' = Cardinality(Once \cup S)
    <3>1. \A n \in 0 .. MaxRow : CountedRows(n) = n
      BY <1>4 DEF CountedRows
    <3>2. retried' = CountedRows(retried + Cardinality(S))
      BY <1>2
    <3> QED
      BY <1>6, <2>5, <3>1, <3>2
  <2>7. retried' = Cardinality({q \in QueueRow : reset'[q] = 1})
    BY <2>1, <2>6
  <2>8. retried' \in 0 .. MaxRow + 1
    BY <1>4, <1>6, <2>6
  <2> QED
    BY <2>7, <2>8
<1>12. retrySkipped' \in 0 .. MaxRow + 1
  <2> DEFINE n == Cardinality(listing \ S)
  <2>1. n \in Nat /\ retrySkipped' = CountedRows(retrySkipped + n)
    BY <1>2, <1>6
  <2> HIDE DEF n
  <2> QED
    BY <1>4, <2>1 DEF CountedRows
<1>13. RetryTypeOK'
  <2>1. /\ failures' \subseteq QueueRow /\ pending' \subseteq QueueRow \ failures'
        /\ ever' \subseteq failures' /\ listing' \subseteq QueueRow
        /\ retryPc' \in {"list", "retry", "done", "aborted"}
        /\ nextRow' \in 1 .. MaxRow + 1
    BY <1>2, <1>3
  <2> HIDE DEF S
  <2> QED
    BY <2>1, <1>8, <1>9, <1>11, <1>12 DEF RetryTypeOK, QueueRow, Start
<1>14. RowsAreOld'
  BY <1>1, <1>2 DEF RowsAreOld
<1>15. RetriedAreBehind'
  <2> SUFFICES ASSUME NEW q \in QueueRow, reset'[q] # 0
               PROVE  reset'[q] = 1 /\ q <= listedAfter'
    BY DEF RetriedAreBehind
  <2>1. CASE q \in S
    BY <1>8, <1>9, <2>1
  <2>2. CASE q \notin S
    <3>1. reset'[q] = reset[q]
      BY <1>8, <2>2
    <3>2. reset[q] = 1 /\ q <= listedAfter
      BY <1>1, <3>1 DEF RetriedAreBehind
    <3>3. q \in Nat /\ listedAfter \in Nat /\ listedAfter' \in Nat
      BY <1>3, <1>5, <1>9
    <3> QED
      BY <1>10, <3>1, <3>2, <3>3
  <2> QED
    BY <2>1, <2>2
<1>16. /\ \A q \in ever : q <= listedAfter' => q \in S
       /\ Cardinality(listing) < PageSize => ever \subseteq S
  BY <1>1, <1>2, <1>3 DEF NoFailureIsPassed
<1>17. NoFailureIsPassed'
  <2>1. \A q \in ever' : q \in Nat /\ ~(q <= listedAfter')
    BY <1>2, <1>3, <1>5, <1>16
  <2>2. listedAfter' \in Nat
    BY <1>5, <1>9
  <2>3. \A q \in ever' : listedAfter' < q
    BY <2>1, <2>2
  <2>4. retryPc' # "retry"
    BY <1>2
  <2> QED
    BY <2>3, <2>4 DEF NoFailureIsPassed
<1>18. NoneOverlooked'
  <2>1. retryPc' = "done" => Cardinality(listing) < PageSize
    BY <1>2
  <2> QED
    BY <1>2, <1>16, <2>1 DEF NoneOverlooked
<1>19. RetriedOnce'
  <2>1. \A q \in QueueRow : reset'[q] <= 1
    BY <1>8, <1>15 DEF RetriedAreBehind, QueueRow
  <2>2. RetriedOnce'
          <=> /\ \A q \in QueueRow : reset'[q] <= 1
              /\ retried' = Cardinality({q \in QueueRow : reset'[q] = 1})
    BY DEF RetriedOnce
  <2> QED
    BY <1>11, <2>1, <2>2
<1>20. ListingIsAhead'
  BY <1>2 DEF ListingIsAhead
<1> QED
  BY <1>13, <1>14, <1>15, <1>17, <1>18, <1>19, <1>20 DEF RetryInv

(* What drainers and other clients do to the queue leaves the traversal    *)
(* alone, and no failure becomes one that was failed all along.            *)
LEMMA QueueStepKeeps ==
  ASSUME RetryInv,
         UNCHANGED <<listedAfter, listing, retryPc, retried, retrySkipped, reset>>,
         ever' \subseteq ever, ever' \subseteq failures',
         failures' \subseteq QueueRow, pending' \subseteq QueueRow \ failures',
         nextRow' \in 1 .. MaxRow + 1, RowsAreOld'
  PROVE  RetryInv'
<1>1. RetryTypeOK'
  BY DEF RetryInv, RetryTypeOK, QueueRow
<1>2. RetriedAreBehind' /\ ListingIsAhead' /\ RetriedOnce' /\ NoneOverlooked'
  BY DEF RetryInv, RetriedAreBehind, ListingIsAhead, RetriedOnce, NoneOverlooked
<1>3. NoFailureIsPassed'
  BY DEF RetryInv, NoFailureIsPassed
<1> QED
  BY <1>1, <1>2, <1>3 DEF RetryInv

LEMMA QueueKeeps ==
  ASSUME RetryInv,
         \/ Enqueue
         \/ \E q \in QueueRow : FailsAgain(q) \/ RetriedElsewhere(q) \/ Gone(q)
  PROVE  RetryInv'
<1>1. /\ failures \subseteq QueueRow /\ pending \subseteq QueueRow \ failures
      /\ ever \subseteq failures /\ nextRow \in 1 .. MaxRow + 1 /\ MaxRow \in Nat
      /\ failures \cup pending \subseteq 1 .. nextRow - 1
  BY RetryAssumptions, PageAssumption DEF RetryInv, RetryTypeOK, QueueRow, RowsAreOld
<1>2. CASE Enqueue
  <2>1. /\ pending' = pending \cup {nextRow} /\ nextRow' = nextRow + 1 /\ nextRow <= MaxRow
        /\ UNCHANGED <<failures, ever>>
        /\ UNCHANGED <<listedAfter, listing, retryPc, retried, retrySkipped, reset>>
    BY <1>2 DEF Enqueue, Traversal
  <2>2. nextRow \in QueueRow /\ nextRow \notin failures /\ nextRow' \in 1 .. MaxRow + 1
    BY <1>1, <2>1 DEF QueueRow
  <2>3. RowsAreOld'
    BY <1>1, <2>1 DEF RowsAreOld
  <2>4. pending' \subseteq QueueRow \ failures' /\ failures' \subseteq QueueRow
    BY <1>1, <2>1, <2>2
  <2> QED
    BY <1>1, <2>1, <2>2, <2>3, <2>4, QueueStepKeeps
<1>3. CASE \E q \in QueueRow : FailsAgain(q) \/ RetriedElsewhere(q) \/ Gone(q)
  <2>1. PICK q \in QueueRow : FailsAgain(q) \/ RetriedElsewhere(q) \/ Gone(q)
    BY <1>3
  <2>2. /\ UNCHANGED <<listedAfter, listing, retryPc, retried, retrySkipped, reset>>
        /\ nextRow' = nextRow
    BY <2>1 DEF FailsAgain, RetriedElsewhere, Gone, Traversal
  <2>3. /\ ever' \subseteq ever /\ ever' \subseteq failures'
        /\ failures' \cap pending' = {}
        /\ failures' \cup pending' \subseteq failures \cup pending
    BY <1>1, <2>1 DEF FailsAgain, RetriedElsewhere, Gone
  <2>4. RowsAreOld'
    BY <1>1, <2>2, <2>3 DEF RowsAreOld
  <2>5. failures' \subseteq QueueRow /\ pending' \subseteq QueueRow \ failures'
    BY <1>1, <2>3
  <2> QED
    BY <1>1, <2>2, <2>3, <2>4, <2>5, QueueStepKeeps
<1> QED
  BY <1>2, <1>3

LEMMA AbortKeeps ==
  ASSUME RetryInv, Abort
  PROVE  RetryInv'
<1>1. /\ retryPc' = "aborted"
      /\ UNCHANGED <<failures, pending, nextRow, listedAfter, listing, retried,
                     retrySkipped, reset, ever>>
  BY DEF Abort, Queue
<1>2. RetryTypeOK'
  BY <1>1 DEF RetryInv, RetryTypeOK
<1>3. RowsAreOld' /\ RetriedAreBehind' /\ RetriedOnce'
  BY <1>1 DEF RetryInv, RowsAreOld, RetriedAreBehind, RetriedOnce
<1> QED
  BY <1>1, <1>2, <1>3 DEF RetryInv, ListingIsAhead, NoFailureIsPassed, NoneOverlooked

LEMMA RetryStepKeeps ==
  ASSUME RetryInv, [RetryNext]_retryVars
  PROVE  RetryInv'
<1>1. CASE UNCHANGED retryVars
  BY <1>1 DEF retryVars, RetryInv, RetryTypeOK, RowsAreOld, RetriedAreBehind, ListingIsAhead,
     NoFailureIsPassed, RetriedOnce, NoneOverlooked
<1>2. CASE RetryNext
  BY <1>2, ListKeeps, RetryKeeps, AbortKeeps, QueueKeeps DEF RetryNext
<1> QED
  BY <1>1, <1>2

(* A traversal of the failures resets no row twice, reports as retried     *)
(* what it reset, and leaves behind no row that was failed all along: for  *)
(* any number of rows and page size, while drainers fail rows again.       *)
THEOREM RetriesAreExact == RetrySpec => []RetryIsExact
<1>1. RetryInit => RetryInv
  BY RetryStarts
<1>2. RetryInv /\ [RetryNext]_retryVars => RetryInv'
  BY RetryStepKeeps
<1>3. RetryInv => RetryIsExact
  BY DEF RetryInv, RetryIsExact
<1> QED
  BY <1>1, <1>2, <1>3, PTL DEF RetrySpec

-----------------------------------------------------------------------------
(* Import. *)

(* Where an entry is: <<file, position>>.                                  *)
Place == (1 .. 2) \X (Nat \ {0})

Outcome(e) == e \o <<StatusOf(e)>>

-----------------------------------------------------------------------------
(* Sets and sequences. *)

LEMMA TripleOf ==
  ASSUME NEW e \in Place
  PROVE  Outcome(e) = <<e[1], e[2], StatusOf(e)>> /\ StatusOf(e) \in Status
<1>1. StatusOf(e) \in Status
  BY DEF StatusOf, Status
<1>2. ASSUME NEW f, NEW k, NEW s
      PROVE  <<f, k>> \o <<s>> = <<f, k, s>>
  <2> DEFINE S == {f, k, s}
             joined == <<f, k>> \o <<s>>
  <2>1. <<f, k>> \in Seq(S) /\ <<s>> \in Seq(S) /\ <<f, k, s>> \in Seq(S)
    OBVIOUS
  <2>2. Len(<<f, k>>) = 2 /\ Len(<<s>>) = 1 /\ Len(<<f, k, s>>) = 3
    OBVIOUS
  <2>3. /\ joined \in Seq(S) /\ Len(joined) = 3
        /\ \A i \in 1 .. 3 : joined[i] = IF i <= 2 THEN <<f, k>>[i] ELSE <<s>>[i - 2]
    BY <2>1, <2>2, ConcatProperties
  <2>4. \A i \in 1 .. 3 : joined[i] = <<f, k, s>>[i]
    BY <2>3
  <2> HIDE DEF S, joined
  <2>5. joined = <<f, k, s>>
    BY <2>1, <2>2, <2>3, <2>4, SeqEqual
  <2> QED
    BY <2>5 DEF joined
<1>3. e = <<e[1], e[2]>>
  BY DEF Place
<1> QED
  BY <1>1, <1>2, <1>3 DEF Outcome

(* A one-to-one function keeps sizes. *)
LEMMA ImageSize ==
  ASSUME NEW I, IsFiniteSet(I), NEW g, \A i, j \in I : g[i] = g[j] => i = j
  PROVE  /\ IsFiniteSet({g[i] : i \in I})
         /\ Cardinality({g[i] : i \in I}) = Cardinality(I)
<1> DEFINE T == {g[i] : i \in I}
           h == [i \in I |-> g[i]]
<1>1. h \in Surjection(I, T) /\ h \in Injection(I, T)
  BY DEF Surjection, Injection, IsInjective
<1> HIDE DEF h
<1> QED
  BY <1>1, FS_Surjection

(* 1 to m as a sequence, the way ParseFile numbers what it kept.           *)
LEMMA Numbered ==
  ASSUME NEW m \in Nat, NEW i \in 1 .. m
  PROVE  (CHOOSE k \in 1 .. m : Cardinality({j \in 1 .. m : j <= k}) = i) = i
<1> DEFINE Upto(k) == {j \in 1 .. m : j <= k}
<1>1. ASSUME NEW k \in 1 .. m
      PROVE  Cardinality(Upto(k)) = k
  <2>1. Upto(k) = 1 .. k
    OBVIOUS
  <2>2. Cardinality(1 .. k) = IF 1 > k THEN 0 ELSE k - 1 + 1
    BY FS_Interval, 1 \in Int, k \in Int
  <2> HIDE DEF Upto
  <2> QED
    BY <2>1, <2>2
<1> HIDE DEF Upto
<1>2. (CHOOSE k \in 1 .. m : Cardinality(Upto(k)) = i) = i
  BY <1>1
<1> QED
  BY <1>2 DEF Upto

(* What is kept of a file are its first entries, and all of a good one.    *)
LEMMA KeptIsPrefix ==
  ASSUME NEW file \in Seq(Entry)
  PROVE  \E m \in 0 .. Len(file) :
            /\ Kept(file) = 1 .. m
            /\ ~Bad(file) => m = Len(file)
<1> DEFINE n == Len(file)
           Invalid == {i \in 1 .. n : file[i] = "invalid"}
<1>1. n \in Nat /\ DOMAIN file = 1 .. n
  OBVIOUS
<1> SUFFICES \E m \in 0 .. n : Kept(file) = 1 .. m /\ (~Bad(file) => m = n)
  OBVIOUS
<1> HIDE DEF n
<1>2. CASE \E j \in DOMAIN file : file[j] = "broken"
  <2>1. Kept(file) = 1 .. 0 /\ Bad(file)
    BY <1>1, <1>2 DEF Kept, Bad
  <2>2. 0 \in 0 .. n
    BY <1>1
  <2> QED
    BY <2>1, <2>2
<1>3. CASE (\A j \in DOMAIN file : file[j] # "broken") /\ Invalid = {}
  <2>1. Kept(file) = 1 .. n
    BY <1>1, <1>3 DEF Kept
  <2> QED
    BY <1>1, <2>1
<1>4. CASE (\A j \in DOMAIN file : file[j] # "broken") /\ Invalid # {}
  <2>1. PICK k \in Invalid : \A j \in Invalid : k <= j
    <3>1. Invalid \in SUBSET Nat
      BY <1>1
    <3> HIDE DEF Invalid
    <3> QED
      BY <1>4, <3>1, Smallest
  <2>2. k \in 1 .. n /\ \A j \in 1 .. n : file[j] = "invalid" => k <= j
    BY <2>1
  <2>3. Kept(file) = 1 .. (k - 1)
    BY <1>1, <1>4, <2>1, <2>2 DEF Kept
  <2>4. Bad(file)
    BY <1>1, <2>1 DEF Bad
  <2> QED
    BY <1>1, <2>2, <2>3, <2>4
<1> QED
  BY <1>2, <1>3, <1>4

-----------------------------------------------------------------------------
(* The inductive invariant. *)

(* Queued entries are different ones, and none that must not be written.   *)
Shape ==
    /\ \A f \in 1 .. 2 : files[f] \in Seq(Entry)
    /\ queue \in Seq(Place)
    /\ \A i, k \in 1 .. Len(queue) : queue[i] = queue[k] => i = k
    /\ \A i \in 1 .. Len(queue) : queue[i][2] \in Kept(files[queue[i][1]])
    /\ at \in Nat
    /\ inserted \in Nat /\ updated \in Nat /\ skipped \in Nat /\ failed \in Nat

WhollyQueued(f) ==
    \A i \in DOMAIN files[f] : \E k \in 1 .. Len(queue) : queue[k] = <<f, i>>

BadAmong(n) == Cardinality({f \in 1 .. n : Bad(files[f])})

(* Before anything is written: what the files parsed so far left behind.   *)
Reading ==
    step \in {"collect", "parse"} =>
        /\ at \in 0 .. 2 /\ (step = "collect" => at = 0)
        /\ settled = {} /\ inserted = 0 /\ updated = 0 /\ skipped = 0
        /\ failed = BadAmong(at)
        /\ step = "parse" /\ options.failFast => failed = 0
        /\ \A i \in 1 .. Len(queue) : queue[i][1] <= at
        /\ \A f \in 1 .. at : ~Bad(files[f]) => WhollyQueued(f)

Sent == UpTo(at * BatchSize)

IsSettled(e) == \E status \in Status : <<e[1], e[2], status>> \in settled

(* Between the batches: those sent are accounted for, no other is touched. *)
Writing ==
    /\ step = "write" => ~options.dryRun
    /\ step \in {"write", "done"} /\ ~options.dryRun =>
        /\ \A f \in 1 .. 2 : ~Bad(files[f]) => WhollyQueued(f)
        /\ options.failFast => BadAmong(2) = 0
        /\ BadAmong(2) <= failed
        /\ Sent = inserted + updated + skipped + (failed - BadAmong(2))
        /\ failed = 0 => \A i \in 1 .. Sent : IsSettled(queue[i])
        /\ \A s \in settled : \E i \in 1 .. Sent : queue[i] = <<s[1], s[2]>>
        /\ step = "done" => Sent = Len(queue)

(* At all times, also after a --fail-fast. *)
Accounts ==
    /\ settled \subseteq (1 .. 2) \X (Nat \ {0}) \X Status /\ IsFiniteSet(settled)
    /\ NothingMadeUp /\ NothingUnwanted

ImportInv == Shape /\ Reading /\ Writing /\ Accounts

-----------------------------------------------------------------------------
(* A batch that is committed. *)

Triple == (1 .. 2) \X (Nat \ {0}) \X Status

Outcomes(batch) == {batch[i] \o <<StatusOf(batch[i])>> : i \in DOMAIN batch}

(* Two finite sets without a common element. *)
LEMMA Apart ==
  ASSUME NEW S, NEW T, IsFiniteSet(S), IsFiniteSet(T), S \cap T = {}
  PROVE  /\ IsFiniteSet(S \cup T)
         /\ Cardinality(S \cup T) = Cardinality(S) + Cardinality(T)
         /\ Cardinality(S) \in Nat /\ Cardinality(T) \in Nat
<1>1. Cardinality(S) \in Nat /\ Cardinality(T) \in Nat
  BY FS_CardinalityType
<1>2. Cardinality(S \cap T) = 0
  BY FS_EmptySet
<1>3. /\ IsFiniteSet(S \cup T)
      /\ Cardinality(S \cup T) = Cardinality(S) + Cardinality(T) - Cardinality(S \cap T)
  BY FS_Union
<1> QED
  BY <1>1, <1>2, <1>3

(* The entries of a batch fall into the three kinds of outcome.            *)
LEMMA CountsAddUp ==
  ASSUME NEW n \in Nat, NEW batch, DOMAIN batch = 1 .. n
  PROVE  /\ \A st \in Status : Count(batch, st) \in Nat
         /\ Count(batch, "inserted") + Count(batch, "updated") + Count(batch, "skipped") = n
<1> DEFINE Of(st) == {i \in DOMAIN batch : StatusOf(batch[i]) = st}
<1>1. IsFiniteSet(1 .. n) /\ Cardinality(1 .. n) = n
  <2>1. Cardinality(1 .. n) = IF 1 > n THEN 0 ELSE n - 1 + 1
    BY FS_Interval, 1 \in Int, n \in Int
  <2> QED
    BY <2>1, FS_Interval, 1 \in Int, n \in Int
<1>2. \A st : IsFiniteSet(Of(st)) /\ Count(batch, st) = Cardinality(Of(st))
  BY <1>1, FS_Subset DEF Count
<1>3. /\ Of("inserted") \cap Of("updated") = {}
      /\ (Of("inserted") \cup Of("updated")) \cap Of("skipped") = {}
  OBVIOUS
<1>4. (Of("inserted") \cup Of("updated")) \cup Of("skipped") = 1 .. n
  <2>1. \A i \in DOMAIN batch : StatusOf(batch[i]) \in {"inserted", "updated", "skipped"}
    BY DEF StatusOf
  <2> QED
    BY <2>1
<1> HIDE DEF Of
<1>5. \A st : Count(batch, st) \in Nat
  BY <1>2, FS_CardinalityType
<1>6. /\ IsFiniteSet(Of("inserted") \cup Of("updated"))
      /\ Cardinality(Of("inserted") \cup Of("updated"))
           = Cardinality(Of("inserted")) + Cardinality(Of("updated"))
  BY <1>2, <1>3, Apart
<1>7. Cardinality((Of("inserted") \cup Of("updated")) \cup Of("skipped"))
        = Cardinality(Of("inserted") \cup Of("updated")) + Cardinality(Of("skipped"))
  BY <1>2, <1>3, <1>6, Apart
<1> QED
  BY <1>1, <1>2, <1>4, <1>5, <1>6, <1>7

(* A batch of n different entries, none of which is among the old ones ... *)
FreshBatch(old, n, batch) ==
    /\ old \subseteq Triple /\ IsFiniteSet(old)
    /\ DOMAIN batch = 1 .. n
    /\ \A i \in 1 .. n : batch[i] \in Place
    /\ \A i, k \in 1 .. n : batch[i] = batch[k] => i = k
    /\ \A i \in 1 .. n : \A s \in old : batch[i] # <<s[1], s[2]>>

(* ... adds as many outcomes, and of each kind as many as it counts.       *)
AddsOutcomes(old, n, batch) ==
    /\ Outcomes(batch) \subseteq Triple /\ IsFiniteSet(old \cup Outcomes(batch))
    /\ Cardinality(old \cup Outcomes(batch)) = Cardinality(old) + n
    /\ \A st \in Status :
          Cardinality({s \in old \cup Outcomes(batch) : s[3] = st})
            = Cardinality({s \in old : s[3] = st}) + Count(batch, st)
    /\ \A i \in 1 .. n : <<batch[i][1], batch[i][2], StatusOf(batch[i])>> \in Outcomes(batch)
    /\ \A s \in Outcomes(batch) : \E i \in 1 .. n : batch[i] = <<s[1], s[2]>>

LEMMA CommitAddsOutcomes ==
  ASSUME NEW n \in Nat, NEW old, NEW batch, FreshBatch(old, n, batch)
  PROVE  AddsOutcomes(old, n, batch)
<1>0. /\ old \subseteq Triple /\ IsFiniteSet(old)
      /\ DOMAIN batch = 1 .. n
      /\ \A i \in 1 .. n : batch[i] \in Place
      /\ \A i, k \in 1 .. n : batch[i] = batch[k] => i = k
      /\ \A i \in 1 .. n : \A s \in old : batch[i] # <<s[1], s[2]>>
  BY DEF FreshBatch
<1> DEFINE g == [i \in 1 .. n |-> <<batch[i][1], batch[i][2], StatusOf(batch[i])>>]
<1>1. /\ \A i \in 1 .. n : batch[i] \o <<StatusOf(batch[i])>> = g[i]
      /\ \A i \in 1 .. n : g[i] \in Triple /\ g[i][3] = StatusOf(batch[i])
      /\ \A i \in 1 .. n : batch[i] = <<g[i][1], g[i][2]>>
  <2> SUFFICES ASSUME NEW i \in 1 .. n
               PROVE  /\ batch[i] \o <<StatusOf(batch[i])>> = g[i]
                      /\ g[i] \in Triple /\ g[i][3] = StatusOf(batch[i])
                      /\ batch[i] = <<g[i][1], g[i][2]>>
    OBVIOUS
  <2>1. batch[i] \in Place /\ StatusOf(batch[i]) \in Status
    BY <1>0, TripleOf
  <2>2. batch[i] = <<batch[i][1], batch[i][2]>>
        /\ batch[i][1] \in 1 .. 2 /\ batch[i][2] \in Nat \ {0}
    BY <2>1 DEF Place
  <2>3. g[i] = <<batch[i][1], batch[i][2], StatusOf(batch[i])>>
    OBVIOUS
  <2>4. batch[i] \o <<StatusOf(batch[i])>> = g[i]
    BY <2>1, <2>3, TripleOf DEF Outcome
  <2> QED
    BY <2>1, <2>2, <2>3, <2>4 DEF Triple
<1> HIDE DEF g
<1>2. Outcomes(batch) = {g[i] : i \in 1 .. n}
  <2> DEFINE written == {batch[i] \o <<StatusOf(batch[i])>> : i \in 1 .. n}
             image == {g[i] : i \in 1 .. n}
  <2>1. Outcomes(batch) = written
    BY <1>0, Zenon DEF Outcomes
  <2>2. ASSUME NEW x
        PROVE  x \in written <=> x \in image
    <3>1. ASSUME x \in written PROVE x \in image
      <4>1. PICK i \in 1 .. n : x = batch[i] \o <<StatusOf(batch[i])>>
        BY <3>1, Zenon
      <4> QED
        BY <1>1, <4>1
    <3>2. ASSUME x \in image PROVE x \in written
      <4>1. PICK i \in 1 .. n : x = g[i]
        BY <3>2, Zenon
      <4>2. x = batch[i] \o <<StatusOf(batch[i])>>
        BY <1>1, <4>1
      <4> QED
        BY <4>2, Zenon
    <3> QED
      BY <3>1, <3>2
  <2> HIDE DEF written, image
  <2>3. written = image
    BY <2>2
  <2> QED
    BY <2>1, <2>3 DEF image
<1>3. \A i, k \in 1 .. n : g[i] = g[k] => i = k
  BY <1>0, <1>1
<1>4. \A i \in 1 .. n : g[i] \notin old
  BY <1>0, <1>1
<1>5. IsFiniteSet(1 .. n) /\ Cardinality(1 .. n) = n
  <2>1. Cardinality(1 .. n) = IF 1 > n THEN 0 ELSE n - 1 + 1
    BY FS_Interval, 1 \in Int, n \in Int
  <2> QED
    BY <2>1, FS_Interval, 1 \in Int, n \in Int
<1>6. IsFiniteSet(Outcomes(batch)) /\ Cardinality(Outcomes(batch)) = n
  BY <1>2, <1>3, <1>5, ImageSize
<1>7. /\ IsFiniteSet(old \cup Outcomes(batch))
      /\ Cardinality(old \cup Outcomes(batch)) = Cardinality(old) + n
  <2>1. old \cap Outcomes(batch) = {}
    BY <1>2, <1>4
  <2> QED
    BY <1>0, <1>6, <2>1, Apart
<1>8. ASSUME NEW st \in Status
      PROVE  Cardinality({s \in old \cup Outcomes(batch) : s[3] = st})
                 = Cardinality({s \in old : s[3] = st}) + Count(batch, st)
  <2> DEFINE I == {i \in 1 .. n : StatusOf(batch[i]) = st}
             Of == {g[i] : i \in I}
             Old == {s \in old : s[3] = st}
  <2>1. {s \in old \cup Outcomes(batch) : s[3] = st} = Old \cup Of
    BY <1>1, <1>2
  <2>2. Old \cap Of = {}
    BY <1>4
  <2>3. IsFiniteSet(Old) /\ IsFiniteSet(I)
    BY <1>0, <1>5, FS_Subset
  <2>4. Count(batch, st) = Cardinality(I)
    BY <1>0 DEF Count
  <2>5. \A i, k \in I : g[i] = g[k] => i = k
    BY <1>3
  <2> HIDE DEF I, Old
  <2>6. IsFiniteSet(Of) /\ Cardinality(Of) = Cardinality(I)
    BY <2>3, <2>5, ImageSize
  <2> HIDE DEF Of
  <2>7. Cardinality(Old \cup Of) = Cardinality(Old) + Cardinality(Of)
    BY <2>2, <2>3, <2>6, Apart
  <2>8. Cardinality(Old \cup Of) = Cardinality(Old) + Count(batch, st)
    BY <2>4, <2>6, <2>7
  <2> QED
    BY <2>1, <2>8 DEF Old
<1>9. /\ \A i \in 1 .. n : <<batch[i][1], batch[i][2], StatusOf(batch[i])>> \in Outcomes(batch)
      /\ \A s \in Outcomes(batch) : \E i \in 1 .. n : batch[i] = <<s[1], s[2]>>
  BY <1>1, <1>2 DEF g
<1>10. Outcomes(batch) \subseteq Triple
  BY <1>1, <1>2
<1> QED
  BY <1>7, <1>8, <1>9, <1>10, Zenon DEF AddsOutcomes

-----------------------------------------------------------------------------
(* The steps before the first batch, and those around the batches.         *)

LEMMA BadAmongNone == BadAmong(0) = 0 /\ BadFiles = BadAmong(2)
<1>1. {f \in 1 .. 0 : Bad(files[f])} = {}
  OBVIOUS
<1> QED
  BY <1>1, FS_EmptySet DEF BadAmong, BadFiles

LEMMA BadAmongOneMore ==
  ASSUME NEW n \in Nat
  PROVE  BadAmong(n) \in Nat
         /\ BadAmong(n + 1) = BadAmong(n) + (IF Bad(files[n + 1]) THEN 1 ELSE 0)
<1> DEFINE S == {f \in 1 .. n : Bad(files[f])}
           T == {f \in 1 .. n + 1 : Bad(files[f])}
<1>1. IsFiniteSet(S) /\ n + 1 \notin S
  <2>1. IsFiniteSet(1 .. n)
    BY FS_Interval, 1 \in Int, n \in Int
  <2> QED
    BY <2>1, FS_Subset
<1>2. T = IF Bad(files[n + 1]) THEN S \cup {n + 1} ELSE S
  <2>1. 1 .. n + 1 = (1 .. n) \cup {n + 1}
    OBVIOUS
  <2> QED
    BY <2>1
<1>3. BadAmong(n) = Cardinality(S) /\ BadAmong(n + 1) = Cardinality(T)
  BY DEF BadAmong
<1> HIDE DEF S, T
<1>4. Cardinality(S) \in Nat
  BY <1>1, FS_CardinalityType
<1>5. Cardinality(S \cup {n + 1}) = Cardinality(S) + 1
  BY <1>1, FS_AddElement
<1> QED
  BY <1>2, <1>3, <1>4, <1>5

LEMMA NothingIsSettled ==
  ASSUME settled = {}, inserted = 0, updated = 0, skipped = 0, failed \in Nat
  PROVE  Accounts
<1>1. \A status : Settled(status) = {}
  BY DEF Settled
<1>2. Cardinality(settled) = 0 /\ IsFiniteSet(settled) /\ \A status : Cardinality(Settled(status)) = 0
  BY <1>1, FS_EmptySet
<1> QED
  BY <1>2 DEF Accounts, NothingMadeUp, NothingUnwanted

LEMMA NothingIsSettledNext ==
  ASSUME settled' = {}, inserted' = 0, updated' = 0, skipped' = 0, failed' \in Nat
  PROVE  Accounts'
<1>1. \A status : Settled(status)' = {}
  BY DEF Settled
<1>2. Cardinality(settled') = 0 /\ IsFiniteSet(settled') /\ \A status : Cardinality(Settled(status)') = 0
  BY <1>1, FS_EmptySet
<1> QED
  BY <1>2 DEF Accounts, NothingMadeUp, NothingUnwanted

LEMMA ImportStarts == ImportInit => ImportInv
<1> SUFFICES ASSUME ImportInit PROVE ImportInv
  OBVIOUS
<1>1. \A f \in 1 .. 2 : files[f] \in Seq(Entry)
  <2>1. PICK whole \in Entries(MaxEntries), n \in 0 .. MaxEntries :
           /\ n <= Len(whole)
           /\ files = <<SubSeq(whole, 1, n), SubSeq(whole, n + 1, Len(whole))>>
    BY DEF ImportInit
  <2>2. PICK k \in 0 .. MaxEntries : whole \in [1 .. k -> Entry]
    BY DEF Entries
  <2>3. MaxEntries \in Nat /\ k \in Nat /\ n \in Nat
    BY <2>2, ImportAssumptions
  <2>4. whole \in Seq(Entry) /\ Len(whole) = k
    BY <2>2, <2>3
  <2>5. n \in Int /\ n + 1 \in Int /\ k \in Int /\ n <= k
    BY <2>1, <2>3, <2>4
  <2>6. SubSeq(whole, 1, n) \in Seq(Entry)
    BY <2>2, <2>5, SubSeqProperties, 1 \in Int
  <2>7. SubSeq(whole, n + 1, k) \in Seq(Entry)
    <3>1. \A i \in n + 1 .. k : whole[i] \in Entry
      BY <2>2, <2>3
    <3> QED
      BY <2>5, <3>1, SubSeqProperties
  <2> QED
    <3>1. files[1] \in Seq(Entry)
      BY <2>1, <2>6
    <3>2. files[2] \in Seq(Entry)
      BY <2>1, <2>4, <2>7
    <3> QED
      BY <3>1, <3>2
<1>2. Shape
  BY <1>1 DEF ImportInit, Fresh, Shape
<1>3. Reading /\ Writing
  BY BadAmongNone DEF ImportInit, Fresh, Reading, Writing
<1>4. Accounts
  BY NothingIsSettled DEF ImportInit, Fresh
<1> QED
  BY <1>2, <1>3, <1>4 DEF ImportInv

LEMMA CollectKeeps == ASSUME ImportInv, Collect PROVE ImportInv'
<1>1. Shape'
  BY DEF ImportInv, Collect, Shape, summary
<1>2. Reading' /\ Writing'
  BY BadAmongNone DEF ImportInv, Collect, Reading, Writing, WhollyQueued, BadAmong, summary
<1>3. Accounts'
  BY DEF ImportInv, Collect, Accounts, NothingMadeUp, NothingUnwanted, Settled, BadFiles, summary
<1> QED
  BY <1>1, <1>2, <1>3 DEF ImportInv

LEMMA OthersKeep == ASSUME ImportInv, Others PROVE ImportInv'
<1>1. Shape'
  BY DEF ImportInv, Others, Shape, summary
<1>2. Reading' /\ Writing'
  BY DEF ImportInv, Others, Reading, Writing, WhollyQueued, BadAmong, Sent, UpTo, IsSettled, summary
<1>3. Accounts'
  BY DEF ImportInv, Others, Accounts, NothingMadeUp, NothingUnwanted, Settled, BadFiles, summary
<1> QED
  BY <1>1, <1>2, <1>3 DEF ImportInv

LEMMA ImportRests == ASSUME ImportInv, UNCHANGED importVars PROVE ImportInv'
<1>1. Shape'
  BY DEF ImportInv, importVars, Shape
<1>2. Reading' /\ Writing'
  BY DEF ImportInv, importVars, Reading, Writing, WhollyQueued, BadAmong, Sent, UpTo, IsSettled
<1>3. Accounts'
  BY DEF ImportInv, importVars, Accounts, NothingMadeUp, NothingUnwanted, Settled, BadFiles
<1> QED
  BY <1>1, <1>2, <1>3 DEF ImportInv

LEMMA FinishKeeps == ASSUME ImportInv, Finish PROVE ImportInv'
<1>1. Shape'
  BY DEF ImportInv, Finish, Shape, summary
<1>2. Sent = Len(queue)
  <2>1. Len(queue) \in Nat /\ at * BatchSize \in Nat
    BY ImportAssumptions DEF ImportInv, Shape
  <2>2. at * BatchSize >= Len(queue)
    BY DEF Finish
  <2> QED
    BY <2>1, <2>2 DEF Sent, UpTo
<1>3. Reading' /\ Writing'
  BY <1>2 DEF ImportInv, Finish, Reading, Writing, WhollyQueued, BadAmong, Sent, UpTo, IsSettled, summary
<1>4. Accounts'
  BY DEF ImportInv, Finish, Accounts, NothingMadeUp, NothingUnwanted, Settled, BadFiles, summary
<1> QED
  BY <1>1, <1>3, <1>4 DEF ImportInv

LEMMA ParsedKeeps == ASSUME ImportInv, Parsed PROVE ImportInv'
<1>1. Shape'
  BY DEF ImportInv, Parsed, Shape, summary
<1>2. Sent' = 0 /\ BadAmong(2)' = BadAmong(2) /\ BadAmong(2) \in Nat
  <2>1. Len(queue) \in Nat /\ 0 * BatchSize = 0
    BY ImportAssumptions DEF ImportInv, Shape
  <2>2. at' = 0 /\ queue' = queue /\ files' = files
    BY DEF Parsed
  <2>3. Sent' = 0
    BY <2>1, <2>2 DEF Sent, UpTo
  <2>4. BadAmong(2)' = BadAmong(2)
    BY <2>2 DEF BadAmong
  <2> QED
    BY <2>3, <2>4, BadAmongOneMore, 2 \in Nat
<1>3. Reading'
  BY DEF Parsed, Reading
<1>4. Writing'
  <2>1. /\ settled = {} /\ inserted = 0 /\ updated = 0 /\ skipped = 0
        /\ failed = BadAmong(2)
        /\ options.failFast => failed = 0
        /\ \A f \in 1 .. 2 : ~Bad(files[f]) => WhollyQueued(f)
    BY DEF ImportInv, Parsed, Reading
  <2>2. /\ UNCHANGED <<files, options, row, queue, inserted, updated, skipped, failed, settled>>
        /\ step' = IF options.dryRun THEN "done" ELSE "write"
    BY DEF Parsed, summary
  <2>3. \A f \in 1 .. 2 : ~Bad(files'[f]) => WhollyQueued(f)'
    BY <2>1, <2>2 DEF WhollyQueued
  <2> QED
    BY <1>2, <2>1, <2>2, <2>3 DEF Writing
<1>5. Accounts'
  BY DEF ImportInv, Parsed, Accounts, NothingMadeUp, NothingUnwanted, Settled, BadFiles, summary
<1> QED
  BY <1>1, <1>3, <1>4, <1>5 DEF ImportInv

(* A file parsed adds the places of its first m entries to the queue.      *)
LEMMA ParseFileQueues ==
  ASSUME ImportInv, ParseFile
  PROVE  /\ at \in {0, 1}
         /\ \E m \in 0 .. Len(files[at + 1]) :
               /\ Kept(files[at + 1]) = 1 .. m
               /\ ~Bad(files[at + 1]) => m = Len(files[at + 1])
               /\ queue' \in Seq(Place) /\ Len(queue') = Len(queue) + m
               /\ \A i \in 1 .. Len(queue) : queue'[i] = queue[i]
               /\ \A i \in 1 .. m : queue'[Len(queue) + i] = <<at + 1, i>>
<1> DEFINE file == files[at + 1]
<1>1. at \in {0, 1} /\ at + 1 \in 1 .. 2 /\ file \in Seq(Entry) /\ Len(file) \in Nat
  <2>1. at \in Nat /\ at < 2
    BY DEF ParseFile, ImportInv, Shape
  <2>2. at \in {0, 1} /\ at + 1 \in 1 .. 2
    BY <2>1
  <2>3. file \in Seq(Entry)
    BY <2>2 DEF ImportInv, Shape
  <2> QED
    BY <2>2, <2>3, LenProperties
<1> DEFINE numbered(K, i) == CHOOSE k \in K : Cardinality({j \in K : j <= k}) = i
           places(K) == [i \in 1 .. Cardinality(K) |-> <<at + 1, numbered(K, i)>>]
<1>2. queue' = queue \o places(Kept(file))
  BY DEF ParseFile
<1> HIDE DEF file, numbered, places
<1>3. PICK m \in 0 .. Len(file) : Kept(file) = 1 .. m /\ (~Bad(file) => m = Len(file))
  BY <1>1, KeptIsPrefix
<1>4. m \in Nat /\ Cardinality(1 .. m) = m
  <2>1. m \in Nat
    BY <1>1
  <2>2. Cardinality(1 .. m) = IF 1 > m THEN 0 ELSE m - 1 + 1
    BY <2>1, FS_Interval, 1 \in Int, m \in Int
  <2> QED
    BY <2>1, <2>2
<1> DEFINE kept == [i \in 1 .. m |-> <<at + 1, i>>]
<1>5. queue' = queue \o kept
  <2>1. \A i \in 1 .. m : numbered(1 .. m, i) = i
    BY <1>4, Numbered DEF numbered
  <2>2. places(1 .. m) = [i \in 1 .. m |-> <<at + 1, numbered(1 .. m, i)>>]
    BY <1>4 DEF places
  <2>3. places(1 .. m) = kept
    BY <2>1, <2>2
  <2> QED
    BY <1>2, <1>3, <2>3
<1>6. kept \in Seq(Place) /\ Len(kept) = m /\ \A i \in 1 .. m : kept[i] = <<at + 1, i>>
  <2>1. \A i \in 1 .. m : <<at + 1, i>> \in Place
    BY <1>1, <1>4 DEF Place
  <2> QED
    BY <1>4, <2>1
<1> HIDE DEF kept
<1>7. queue \in Seq(Place) /\ Len(queue) \in Nat
  BY LenProperties DEF ImportInv, Shape
<1>8. /\ queue' \in Seq(Place) /\ Len(queue') = Len(queue) + m
      /\ \A i \in 1 .. Len(queue) + m :
            queue'[i] = IF i <= Len(queue) THEN queue[i] ELSE kept[i - Len(queue)]
  BY <1>5, <1>6, <1>7, ConcatProperties
<1>9. ASSUME NEW i \in 1 .. Len(queue)
      PROVE  queue'[i] = queue[i]
  BY <1>4, <1>7, <1>8
<1>10. ASSUME NEW i \in 1 .. m
       PROVE  queue'[Len(queue) + i] = <<at + 1, i>>
  <2>1. /\ Len(queue) + i \in 1 .. Len(queue) + m /\ ~(Len(queue) + i <= Len(queue))
        /\ (Len(queue) + i) - Len(queue) = i
    BY <1>4, <1>7
  <2>2. queue'[Len(queue) + i] = kept[(Len(queue) + i) - Len(queue)]
    BY <1>8, <2>1
  <2> QED
    BY <1>6, <2>1, <2>2
<1> QED
  BY <1>1, <1>3, <1>8, <1>9, <1>10 DEF file

LEMMA ParseFileKeeps == ASSUME ImportInv, ParseFile PROVE ImportInv'
<1>1. PICK m \in 0 .. Len(files[at + 1]) :
         /\ Kept(files[at + 1]) = 1 .. m
         /\ ~Bad(files[at + 1]) => m = Len(files[at + 1])
         /\ queue' \in Seq(Place) /\ Len(queue') = Len(queue) + m
         /\ \A i \in 1 .. Len(queue) : queue'[i] = queue[i]
         /\ \A i \in 1 .. m : queue'[Len(queue) + i] = <<at + 1, i>>
  BY ParseFileQueues
<1>2. /\ at \in {0, 1} /\ at' = at + 1 /\ files' = files /\ options' = options
      /\ step = "parse" /\ step' \in {"parse", "thrown"}
      /\ step' = "parse" /\ options.failFast => ~Bad(files[at + 1])
      /\ settled' = {} /\ inserted' = 0 /\ updated' = 0 /\ skipped' = 0
      /\ failed' = failed + (IF Bad(files[at + 1]) THEN 1 ELSE 0)
  <2>1. at \in {0, 1}
    BY ParseFileQueues
  <2> QED
    BY <2>1 DEF ParseFile, ImportInv, Reading, summary
<1>3. /\ m \in Nat /\ Len(queue) \in Nat /\ files[at + 1] \in Seq(Entry)
      /\ DOMAIN files[at + 1] = 1 .. Len(files[at + 1])
  BY <1>2, LenProperties DEF ImportInv, Shape
<1>4. /\ \A i \in 1 .. Len(queue) : queue[i] \in Place /\ queue[i][1] <= at
      /\ failed = BadAmong(at) /\ failed \in Nat
  BY <1>2 DEF ImportInv, Shape, Reading
(* An entry of the new queue is an old one or one of this file.            *)
<1>5. \A i \in 1 .. Len(queue') :
        \/ i \in 1 .. Len(queue)
        \/ i - Len(queue) \in 1 .. m /\ queue'[i] = <<at + 1, i - Len(queue)>>
  <2> SUFFICES ASSUME NEW i \in 1 .. Len(queue'), i \notin 1 .. Len(queue)
               PROVE  i - Len(queue) \in 1 .. m /\ queue'[i] = <<at + 1, i - Len(queue)>>
    OBVIOUS
  <2>1. i - Len(queue) \in 1 .. m /\ Len(queue) + (i - Len(queue)) = i
    BY <1>1, <1>3
  <2> QED
    BY <1>1, <2>1
<1>6. Shape'
  <2>1. ASSUME NEW i \in 1 .. Len(queue'), NEW k \in 1 .. Len(queue'), queue'[i] = queue'[k]
        PROVE  i = k
    <3>1. CASE i \in 1 .. Len(queue) /\ k \in 1 .. Len(queue)
      BY <1>1, <2>1, <3>1 DEF ImportInv, Shape
    <3>2. CASE i \in 1 .. Len(queue) /\ k \notin 1 .. Len(queue)
      <4>1. queue'[i][1] <= at
        BY <1>1, <1>4, <3>2
      <4>2. queue'[k][1] = at + 1
        BY <1>5, <3>2
      <4> QED
        BY <1>2, <2>1, <4>1, <4>2
    <3>3. CASE i \notin 1 .. Len(queue) /\ k \in 1 .. Len(queue)
      <4>1. queue'[k][1] <= at
        BY <1>1, <1>4, <3>3
      <4>2. queue'[i][1] = at + 1
        BY <1>5, <3>3
      <4> QED
        BY <1>2, <2>1, <4>1, <4>2
    <3>4. CASE i \notin 1 .. Len(queue) /\ k \notin 1 .. Len(queue)
      <4>1. i - Len(queue) = k - Len(queue)
        BY <1>5, <2>1, <3>4
      <4> QED
        BY <1>1, <1>3, <4>1
    <3> QED
      BY <3>1, <3>2, <3>3, <3>4
  <2>2. ASSUME NEW i \in 1 .. Len(queue')
        PROVE  queue'[i][2] \in Kept(files'[queue'[i][1]])
    <3>1. CASE i \in 1 .. Len(queue)
      BY <1>1, <1>2, <3>1 DEF ImportInv, Shape
    <3>2. CASE i \notin 1 .. Len(queue)
      <4>1. queue'[i][1] = at + 1 /\ queue'[i][2] \in 1 .. m
        BY <1>5, <3>2
      <4> QED
        BY <1>1, <1>2, <4>1
    <3> QED
      BY <3>1, <3>2
  <2>3. \A f \in 1 .. 2 : files'[f] \in Seq(Entry)
    BY <1>2 DEF ImportInv, Shape
  <2>4. at' \in Nat /\ inserted' \in Nat /\ updated' \in Nat /\ skipped' \in Nat /\ failed' \in Nat
    BY <1>2, <1>4
  <2> QED
    BY <1>1, <2>1, <2>2, <2>3, <2>4 DEF Shape
<1>7. Reading'
  <2>1. at \in Nat
    BY <1>2
  <2>2. BadAmong(at)' = BadAmong(at + 1)
    BY <1>2 DEF BadAmong
  <2>3. failed' = BadAmong(at)'
    BY <1>2, <1>4, <2>1, <2>2, BadAmongOneMore
  <2>4. step' = "parse" /\ options.failFast => failed' = 0
    BY <1>2, <1>4 DEF ImportInv, Reading
  <2>5. \A i \in 1 .. Len(queue') : queue'[i][1] <= at'
    <3> SUFFICES ASSUME NEW i \in 1 .. Len(queue')
                 PROVE  queue'[i][1] <= at'
      OBVIOUS
    <3>1. CASE i \in 1 .. Len(queue)
      <4>1. queue'[i] = queue[i] /\ queue[i][1] \in 1 .. 2 /\ queue[i][1] <= at
        BY <1>1, <1>4, <3>1 DEF Place
      <4> QED
        BY <1>2, <4>1
    <3>2. CASE i \notin 1 .. Len(queue)
      <4>1. queue'[i][1] = at + 1
        BY <1>5, <3>2
      <4> QED
        BY <1>2, <4>1
    <3> QED
      BY <3>1, <3>2
  <2>6. ASSUME NEW f \in 1 .. at', ~Bad(files'[f])
        PROVE  WhollyQueued(f)'
    <3> SUFFICES ASSUME NEW i \in DOMAIN files[f]
                 PROVE  \E k \in 1 .. Len(queue') : queue'[k] = <<f, i>>
      BY <1>2 DEF WhollyQueued
    <3>1. CASE f = at + 1
      <4>1. i \in 1 .. m
        BY <1>1, <1>2, <1>3, <2>6, <3>1
      <4>2. Len(queue) + i \in 1 .. Len(queue') /\ queue'[Len(queue) + i] = <<f, i>>
        BY <1>1, <1>3, <3>1, <4>1
      <4> QED
        BY <4>2
    <3>2. CASE f # at + 1
      <4>1. f \in 1 .. at
        BY <1>2, <3>2
      <4>2. WhollyQueued(f)
        BY <1>2, <2>6, <4>1 DEF ImportInv, Reading
      <4>3. PICK k \in 1 .. Len(queue) : queue[k] = <<f, i>>
        BY <4>2 DEF WhollyQueued
      <4>4. k \in 1 .. Len(queue') /\ queue'[k] = <<f, i>>
        BY <1>1, <1>3, <4>3
      <4> QED
        BY <4>4
    <3> QED
      BY <3>1, <3>2
  <2>7. at' \in 0 .. 2 /\ step' # "collect"
    BY <1>2
  <2> QED
    BY <1>2, <2>3, <2>4, <2>5, <2>6, <2>7 DEF Reading
<1>8. Writing'
  BY <1>2 DEF Writing
<1>9. Accounts'
  <2>1. failed' \in Nat
    BY <1>2, <1>4
  <2> QED
    BY <1>2, <2>1, NothingIsSettledNext
<1> QED
  BY <1>6, <1>7, <1>8, <1>9 DEF ImportInv

-----------------------------------------------------------------------------
(* A batch. *)

(* The next batch are the entries from the first one not sent on.          *)
LEMMA ChunkFollowsSent ==
  ASSUME Shape, at * BatchSize < Len(queue)
  PROVE  \E n \in Nat \ {0} :
            /\ Sent \in Nat /\ Sent + n <= Len(queue)
            /\ UpTo((at + 1) * BatchSize) = Sent + n
            /\ DOMAIN Chunk(at) = 1 .. n /\ Len(Chunk(at)) = n
            /\ \A i \in 1 .. n : /\ Sent + i \in 1 .. Len(queue)
                                 /\ Chunk(at)[i] = queue[Sent + i]
<1> DEFINE a == at * BatchSize
           b == UpTo((at + 1) * BatchSize)
           n == b - a
<1>1. /\ a \in Nat /\ Len(queue) \in Nat /\ a < Len(queue)
      /\ (at + 1) * BatchSize = a + BatchSize /\ BatchSize \in Nat \ {0}
  BY LenProperties, ImportAssumptions DEF Shape
<1>2. Sent = a
  BY <1>1 DEF Sent, UpTo
<1>3. b \in Nat /\ a < b /\ b <= Len(queue)
  <2>1. b = IF a + BatchSize < Len(queue) THEN a + BatchSize ELSE Len(queue)
    BY <1>1 DEF UpTo
  <2> HIDE DEF a, b
  <2> QED
    BY <1>1, <2>1
<1>4. Chunk(at) = SubSeq(queue, a + 1, b)
  BY DEF Chunk
<1> HIDE DEF a, b
<1>5. n \in Nat \ {0} /\ a + n = b /\ b - (a + 1) + 1 = n /\ a + 1 <= b
  BY <1>1, <1>3
<1>6. /\ Chunk(at) \in Seq(Place) /\ Len(Chunk(at)) = n
      /\ \A i \in 1 .. n : Chunk(at)[i] = queue[a + 1 + i - 1]
  <2>1. \A i \in a + 1 .. b : queue[i] \in Place
    BY <1>1, <1>3 DEF Shape
  <2>2. /\ SubSeq(queue, a + 1, b) \in Seq(Place)
        /\ Len(SubSeq(queue, a + 1, b)) = IF a + 1 <= b THEN b - (a + 1) + 1 ELSE 0
        /\ \A i \in 1 .. b - (a + 1) + 1 : SubSeq(queue, a + 1, b)[i] = queue[a + 1 + i - 1]
    BY <1>1, <1>3, <2>1, SubSeqProperties, a + 1 \in Int, b \in Int
  <2> QED
    BY <1>4, <1>5, <2>2
<1>7. \A i \in 1 .. n : a + 1 + i - 1 = a + i /\ a + i \in 1 .. Len(queue)
  BY <1>1, <1>3, <1>5
<1>8. DOMAIN Chunk(at) = 1 .. n
  BY <1>6, LenProperties
<1>9. \A i \in 1 .. n : /\ Sent + i \in 1 .. Len(queue)
                        /\ Chunk(at)[i] = queue[Sent + i]
  BY <1>2, <1>6, <1>7
<1> HIDE DEF n
<1>10. Sent \in Nat /\ Sent + n <= Len(queue) /\ b = Sent + n
  BY <1>1, <1>2, <1>3, <1>5
<1> QED
  BY <1>5, <1>6, <1>8, <1>9, <1>10 DEF b

(* What a batch does to the index, and to the summary.                     *)
LEMMA CommitSettles ==
  ASSUME ImportInv, step = "write", NEW n \in Nat,
         DOMAIN Chunk(at) = 1 .. n,
         Sent \in Nat,
         \A i \in 1 .. n : Sent + i \in 1 .. Len(queue) /\ Chunk(at)[i] = queue[Sent + i],
         Commits(Chunk(at))
  PROVE  /\ settled' = settled \cup Outcomes(Chunk(at))
         /\ settled' \subseteq Triple /\ IsFiniteSet(settled')
         /\ Cardinality(settled') = Cardinality(settled) + n
         /\ \A st \in Status :
               Cardinality({s \in settled' : s[3] = st})
                 = Cardinality({s \in settled : s[3] = st}) + Count(Chunk(at), st)
         /\ \A i \in 1 .. n : <<queue[Sent + i][1], queue[Sent + i][2],
                                StatusOf(queue[Sent + i])>> \in settled'
         /\ \A s \in settled' : s \in settled \/ \E i \in 1 .. n : queue[Sent + i] = <<s[1], s[2]>>
<1> DEFINE batch == Chunk(at)
<1>1. settled' = settled \cup Outcomes(batch)
  BY DEF Commits, Outcomes
<1>2. settled \in SUBSET Triple /\ IsFiniteSet(settled)
  BY DEF ImportInv, Accounts, Triple
<1> HIDE DEF batch
<1>3. /\ DOMAIN batch = 1 .. n
      /\ \A i \in 1 .. n : Sent + i \in 1 .. Len(queue) /\ batch[i] = queue[Sent + i]
  BY DEF batch
<1>4. \A i \in 1 .. n : batch[i] \in Place
  BY <1>3 DEF ImportInv, Shape
<1>5. ASSUME NEW i \in 1 .. n, NEW k \in 1 .. n, batch[i] = batch[k]
      PROVE  i = k
  <2>1. queue[Sent + i] = queue[Sent + k]
    BY <1>3, <1>5
  <2>2. Sent + i = Sent + k
    BY <1>3, <2>1 DEF ImportInv, Shape
  <2> QED
    BY <2>2
<1>6. ASSUME NEW i \in 1 .. n, NEW s \in settled
      PROVE  batch[i] # <<s[1], s[2]>>
  <2>1. ~options.dryRun
    BY DEF ImportInv, Writing
  <2>2. PICK k \in 1 .. Sent : queue[k] = <<s[1], s[2]>>
    BY <2>1 DEF ImportInv, Writing
  <2>3. k \in 1 .. Len(queue) /\ k # Sent + i
    <3>1. Sent + i \in 1 .. Len(queue) /\ Len(queue) \in Nat
      BY <1>3, LenProperties DEF ImportInv, Shape
    <3> QED
      BY <3>1
  <2>4. queue[k] # queue[Sent + i]
    BY <1>3, <2>3 DEF ImportInv, Shape
  <2> QED
    BY <1>3, <2>2, <2>4
<1>7. AddsOutcomes(settled, n, batch)
  <2>1. FreshBatch(settled, n, batch)
    BY <1>2, <1>3, <1>4, <1>5, <1>6 DEF FreshBatch
  <2> QED
    BY <2>1, CommitAddsOutcomes
<1>8. settled' \subseteq Triple /\ IsFiniteSet(settled') /\ Cardinality(settled') = Cardinality(settled) + n
  BY <1>1, <1>2, <1>7 DEF AddsOutcomes
<1>9. \A st \in Status :
         Cardinality({s \in settled' : s[3] = st})
           = Cardinality({s \in settled : s[3] = st}) + Count(batch, st)
  BY <1>1, <1>7 DEF AddsOutcomes
<1>10. \A i \in 1 .. n : <<queue[Sent + i][1], queue[Sent + i][2], StatusOf(queue[Sent + i])>> \in settled'
  BY <1>1, <1>3, <1>7 DEF AddsOutcomes
<1>11. \A s \in settled' : s \in settled \/ \E i \in 1 .. n : queue[Sent + i] = <<s[1], s[2]>>
  BY <1>1, <1>3, <1>7 DEF AddsOutcomes
<1> QED
  BY <1>1, <1>8, <1>9, <1>10, <1>11 DEF batch

LEMMA WriteKeeps == ASSUME ImportInv, Write PROVE ImportInv'
<1> DEFINE batch == Chunk(at)
           ins == Count(batch, "inserted")
           upd == Count(batch, "updated")
           skip == Count(batch, "skipped")
<1>1. PICK n \in Nat \ {0} :
         /\ Sent \in Nat /\ Sent + n <= Len(queue)
         /\ UpTo((at + 1) * BatchSize) = Sent + n
         /\ DOMAIN batch = 1 .. n /\ Len(batch) = n
         /\ \A i \in 1 .. n : Sent + i \in 1 .. Len(queue) /\ batch[i] = queue[Sent + i]
  BY ChunkFollowsSent DEF ImportInv, Write
<1>2. /\ step = "write" /\ at' = at + 1 /\ step' \in {"write", "thrown"}
      /\ UNCHANGED <<files, options, queue, others>>
  BY DEF Write, BatchSucceeds, BatchFails
<1>3. /\ at \in Nat /\ inserted \in Nat /\ updated \in Nat /\ skipped \in Nat /\ failed \in Nat
      /\ BadAmong(2) \in Nat /\ BadAmong(2) <= failed /\ ~options.dryRun
      /\ options.failFast => BadAmong(2) = 0
      /\ Sent = inserted + updated + skipped + (failed - BadAmong(2))
      /\ failed = 0 => \A i \in 1 .. Sent : IsSettled(queue[i])
      /\ \A s \in settled : \E i \in 1 .. Sent : queue[i] = <<s[1], s[2]>>
      /\ \A f \in 1 .. 2 : ~Bad(files[f]) => WhollyQueued(f)
  BY <1>2, BadAmongOneMore, 2 \in Nat DEF ImportInv, Shape, Writing
<1>4. ins \in Nat /\ upd \in Nat /\ skip \in Nat /\ ins + upd + skip = n
  BY <1>1, CountsAddUp DEF Status
<1>5. \/ /\ Commits(batch)
         /\ inserted' = inserted + ins /\ updated' = updated + upd /\ skipped' = skipped + skip
         /\ step' = "write" /\ failed' = failed
      \/ /\ Commits(batch) \/ settled' = settled
         /\ inserted' = inserted /\ updated' = updated /\ skipped' = skipped
         /\ failed' = failed + n
  BY <1>1, <1>2 DEF Write, BatchSucceeds, BatchFails, Rejected, summary
<1>6. Commits(batch) =>
         /\ settled' \subseteq Triple /\ IsFiniteSet(settled')
         /\ Cardinality(settled') = Cardinality(settled) + n
         /\ \A st \in Status :
               Cardinality({s \in settled' : s[3] = st})
                 = Cardinality({s \in settled : s[3] = st}) + Count(batch, st)
         /\ \A i \in 1 .. n : <<queue[Sent + i][1], queue[Sent + i][2],
                                StatusOf(queue[Sent + i])>> \in settled'
         /\ \A s \in settled' : s \in settled \/ \E i \in 1 .. n : queue[Sent + i] = <<s[1], s[2]>>
         /\ settled \subseteq settled'
  <2> SUFFICES ASSUME Commits(batch)
               PROVE  /\ settled' \subseteq Triple /\ IsFiniteSet(settled')
                      /\ Cardinality(settled') = Cardinality(settled) + n
                      /\ \A st \in Status :
                            Cardinality({s \in settled' : s[3] = st})
                              = Cardinality({s \in settled : s[3] = st}) + Count(batch, st)
                      /\ \A i \in 1 .. n : <<queue[Sent + i][1], queue[Sent + i][2],
                                             StatusOf(queue[Sent + i])>> \in settled'
                      /\ \A s \in settled' :
                            s \in settled \/ \E i \in 1 .. n : queue[Sent + i] = <<s[1], s[2]>>
                      /\ settled \subseteq settled'
    OBVIOUS
  <2>1. settled \subseteq settled'
    BY DEF Commits
  <2> QED
    BY <1>1, <1>2, <2>1, CommitSettles
<1>7. /\ settled \subseteq Triple /\ IsFiniteSet(settled) /\ Cardinality(settled) \in Nat
      /\ \A st \in Status : Cardinality({s \in settled : s[3] = st}) \in Nat
  <2>1. settled \subseteq Triple /\ IsFiniteSet(settled)
    BY DEF ImportInv, Accounts, Triple
  <2>2. ASSUME NEW st \in Status
        PROVE  Cardinality({s \in settled : s[3] = st}) \in Nat
    <3>1. IsFiniteSet({s \in settled : s[3] = st})
      BY <2>1, FS_Subset
    <3> QED
      BY <3>1, FS_CardinalityType
  <2> QED
    BY <2>1, <2>2, FS_CardinalityType
<1> HIDE DEF batch, ins, upd, skip
<1>8. Shape'
  <2>1. at' \in Nat /\ inserted' \in Nat /\ updated' \in Nat /\ skipped' \in Nat /\ failed' \in Nat
    BY <1>2, <1>3, <1>4, <1>5
  <2> QED
    BY <1>2, <2>1 DEF ImportInv, Shape
<1>9. Reading'
  BY <1>2 DEF Reading
<1>10. Sent' = Sent + n /\ BadAmong(2)' = BadAmong(2)
  BY <1>1, <1>2 DEF Sent, UpTo, BadAmong
<1>11. settled \subseteq settled'
  BY <1>5, <1>6
<1>12. \A s \in settled' : \E i \in 1 .. Sent + n : queue[i] = <<s[1], s[2]>>
  <2> SUFFICES ASSUME NEW s \in settled'
               PROVE  \E i \in 1 .. Sent + n : queue[i] = <<s[1], s[2]>>
    OBVIOUS
  <2>1. CASE s \in settled
    <3>1. PICK i \in 1 .. Sent : queue[i] = <<s[1], s[2]>>
      BY <1>3, <2>1
    <3>2. i \in 1 .. Sent + n
      BY <1>1
    <3> QED
      BY <3>1, <3>2
  <2>2. CASE s \notin settled
    <3>1. PICK i \in 1 .. n : queue[Sent + i] = <<s[1], s[2]>>
      BY <1>5, <1>6, <2>2
    <3>2. Sent + i \in 1 .. Sent + n
      BY <1>1
    <3> QED
      BY <3>1, <3>2
  <2> QED
    BY <2>1, <2>2
<1>13. Writing'
  <2>1. step' # "done" /\ (step' = "write" => ~options'.dryRun)
    BY <1>2, <1>3
  <2>2. \A f \in 1 .. 2 : ~Bad(files'[f]) => WhollyQueued(f)'
    BY <1>2, <1>3 DEF WhollyQueued
  <2>3. /\ BadAmong(2) <= failed'
        /\ Sent + n = inserted' + updated' + skipped' + (failed' - BadAmong(2))
    <3>1. \/ /\ inserted' + updated' + skipped' = inserted + updated + skipped + n
             /\ failed' = failed
          \/ /\ inserted' = inserted /\ updated' = updated /\ skipped' = skipped
             /\ failed' = failed + n
      BY <1>3, <1>4, <1>5
    <3>2. Sent = inserted + updated + skipped + (failed - BadAmong(2)) /\ Sent \in Nat
      BY <1>1, <1>3
    <3> QED
      BY <1>3, <3>1, <3>2
  <2>4. ASSUME failed' = 0, NEW i \in 1 .. Sent + n
        PROVE  IsSettled(queue[i])'
    <3>1. failed = 0 /\ Commits(batch)
      BY <1>3, <1>5, <2>4
    <3>2. CASE i \in 1 .. Sent
      <4>1. IsSettled(queue[i])
        BY <1>3, <3>1, <3>2
      <4> QED
        BY <1>2, <1>11, <4>1 DEF IsSettled
    <3>3. CASE i \notin 1 .. Sent
      <4>1. i - Sent \in 1 .. n /\ Sent + (i - Sent) = i
        BY <1>1, <3>3
      <4>2. <<queue[i][1], queue[i][2], StatusOf(queue[i])>> \in settled'
        BY <1>6, <3>1, <4>1
      <4>3. StatusOf(queue[i]) \in Status
        BY DEF StatusOf, Status
      <4> QED
        BY <1>2, <4>2, <4>3 DEF IsSettled
    <3> QED
      BY <3>2, <3>3
  <2> QED
    BY <1>2, <1>3, <1>10, <1>12, <2>1, <2>2, <2>3, <2>4 DEF Writing
<1>14. settled' \subseteq (1 .. 2) \X (Nat \ {0}) \X Status /\ IsFiniteSet(settled')
  BY <1>5, <1>6, <1>7 DEF Triple
<1>15. NothingMadeUp'
  <2>1. /\ inserted <= Cardinality({s \in settled : s[3] = "inserted"})
        /\ updated <= Cardinality({s \in settled : s[3] = "updated"})
        /\ skipped <= Cardinality({s \in settled : s[3] = "skipped"})
        /\ Cardinality(settled) <= inserted + updated + skipped + failed
    BY DEF ImportInv, Accounts, NothingMadeUp, Settled
  <2>2. /\ inserted' <= Cardinality({s \in settled' : s[3] = "inserted"})
        /\ updated' <= Cardinality({s \in settled' : s[3] = "updated"})
        /\ skipped' <= Cardinality({s \in settled' : s[3] = "skipped"})
        /\ Cardinality(settled') <= inserted' + updated' + skipped' + failed'
    <3> DEFINE kind(S, st) == Cardinality({s \in S : s[3] = st})
    <3>1. \A st \in Status : kind(settled, st) \in Nat
      BY <1>7
    <3>2. /\ inserted <= kind(settled, "inserted") /\ updated <= kind(settled, "updated")
          /\ skipped <= kind(settled, "skipped")
      BY <2>1
    <3>3. Commits(batch) =>
             /\ kind(settled', "inserted") = kind(settled, "inserted") + ins
             /\ kind(settled', "updated") = kind(settled, "updated") + upd
             /\ kind(settled', "skipped") = kind(settled, "skipped") + skip
             /\ Cardinality(settled') = Cardinality(settled) + n
      BY <1>6 DEF Status, ins, upd, skip
    <3> SUFFICES /\ inserted' <= kind(settled', "inserted")
                 /\ updated' <= kind(settled', "updated")
                 /\ skipped' <= kind(settled', "skipped")
                 /\ Cardinality(settled') <= inserted' + updated' + skipped' + failed'
      OBVIOUS
    <3> HIDE DEF kind
    <3>4. /\ kind(settled, "inserted") \in Nat /\ kind(settled, "updated") \in Nat
          /\ kind(settled, "skipped") \in Nat
      BY <3>1 DEF Status
    <3>5. CASE Commits(batch)
      BY <1>3, <1>4, <1>5, <1>7, <2>1, <3>2, <3>3, <3>4, <3>5
    <3>6. CASE ~Commits(batch)
      <4>1. settled' = settled
        BY <1>5, <3>6
      <4>2. /\ inserted' = inserted /\ updated' = updated /\ skipped' = skipped
            /\ failed' = failed + n
        BY <1>5, <3>6
      <4>3. Cardinality(settled) <= inserted + updated + skipped + (failed + n)
        BY <1>3, <1>7, <2>1
      <4> QED
        BY <2>1, <3>2, <4>1, <4>2, <4>3
    <3> QED
      BY <3>5, <3>6
  <2> QED
    BY <2>2 DEF NothingMadeUp, Settled
<1>16. NothingUnwanted'
  <2>1. ASSUME NEW s \in settled'
        PROVE  s[2] \in Kept(files'[s[1]])
    <3>1. PICK i \in 1 .. Sent + n : queue[i] = <<s[1], s[2]>>
      BY <1>12
    <3>2. i \in 1 .. Len(queue)
      <4>1. Len(queue) \in Nat
        BY LenProperties DEF ImportInv, Shape
      <4> QED
        BY <1>1, <4>1
    <3>3. queue[i][2] \in Kept(files[queue[i][1]])
      BY <3>2 DEF ImportInv, Shape
    <3> QED
      BY <1>2, <3>1, <3>3
  <2>2. ~options'.dryRun /\ ~(options'.failFast /\ BadFiles' > 0)
    <3>1. BadFiles' = BadAmong(2)
      BY <1>2 DEF BadFiles, BadAmong
    <3> QED
      BY <1>2, <1>3, <3>1
  <2> QED
    BY <2>1, <2>2 DEF NothingUnwanted
<1> QED
  BY <1>8, <1>9, <1>13, <1>14, <1>15, <1>16 DEF ImportInv, Accounts

-----------------------------------------------------------------------------
(* What the invariant says of an import that is done. *)

LEMMA DoneIsTrue == ASSUME ImportInv PROVE ImportIsTrue
<1>1. NothingMadeUp /\ NothingUnwanted
  BY DEF ImportInv, Accounts
<1>2. AddsUp
  BY BadAmongNone DEF ImportInv, Writing, AddsUp
<1>3. SuccessIsComplete
  <2> SUFFICES ASSUME step = "done", failed = 0, ~options.dryRun,
                      NEW f \in 1 .. 2, NEW i \in DOMAIN files[f]
               PROVE  \E status \in Status : <<f, i, status>> \in settled
    BY DEF SuccessIsComplete
  <2>1. /\ BadAmong(2) <= 0 /\ Sent = Len(queue)
        /\ \A k \in 1 .. Sent : IsSettled(queue[k])
        /\ ~Bad(files[f]) => WhollyQueued(f)
    BY DEF ImportInv, Writing
  <2>2. ~Bad(files[f])
    <3> DEFINE S == {g \in 1 .. 2 : Bad(files[g])}
    <3>1. IsFiniteSet(S)
      <4>1. IsFiniteSet(1 .. 2)
        BY FS_Interval, 1 \in Int, 2 \in Int
      <4> QED
        BY <4>1, FS_Subset
    <3>2. Cardinality(S) \in Nat /\ Cardinality(S) <= 0
      BY <2>1, <3>1, FS_CardinalityType DEF BadAmong
    <3> HIDE DEF S
    <3>3. S = {}
      BY <3>1, <3>2, FS_EmptySet
    <3> QED
      BY <3>3 DEF S
  <2>3. PICK k \in 1 .. Len(queue) : queue[k] = <<f, i>>
    BY <2>1, <2>2 DEF WhollyQueued
  <2>4. IsSettled(queue[k])
    BY <2>1
  <2> QED
    BY <2>3, <2>4 DEF IsSettled
<1> QED
  BY <1>1, <1>2, <1>3 DEF ImportIsTrue

LEMMA ImportKeeps == ASSUME ImportInv, [ImportNext]_importVars PROVE ImportInv'
BY CollectKeeps, ParseFileKeeps, ParsedKeeps, WriteKeeps, FinishKeeps, OthersKeep,
   ImportRests DEF ImportNext

(* The summary of an import accounts for every record that was read, names *)
(* no outcome that did not happen, and an exit status of 0 means that all  *)
(* of every file is in the index: for files, batches and foreign writes of *)
(* any number.                                                             *)
THEOREM ImportsAreTrue == ImportSpec => []ImportIsTrue
<1>1. ImportInit => ImportInv
  BY ImportStarts
<1>2. ImportInv /\ [ImportNext]_importVars => ImportInv'
  BY ImportKeeps
<1>3. ImportInv => ImportIsTrue
  BY DoneIsTrue
<1> QED
  BY <1>1, <1>2, <1>3, PTL DEF ImportSpec
=============================================================================
