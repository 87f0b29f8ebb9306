---------------------------- MODULE HybridSearch ----------------------------
(***************************************************************************)
(* Reciprocal rank fusion: hybrid_search_records takes the best candidates *)
(* of a keyword and of a vector search, scores them by their ranks, and    *)
(* returns the best of both.                                               *)
(***************************************************************************)
EXTENDS Naturals, Sequences, FiniteSets, SequencesExt

CONSTANTS
    MaxHit,         \* bound: records 1 .. MaxHit, in the order of their ids
    MaxScore,       \* bound: an arm tells this many scores apart
    MaxK,           \* bound on k, which smooths the ranks
    MaxWeight,      \* weights 0 .. 1 are the quotients 0 .. MaxWeight by MaxWeight
    MaxResults,     \* bound on limit and candidateLimit
    Scale           \* a common multiple of all k + rank: scores times this

ASSUME HybridAssumptions ==
    /\ MaxHit \in Nat \ {0} /\ MaxScore \in Nat /\ MaxK \in Nat
    /\ MaxWeight \in Nat \ {0} /\ MaxResults \in Nat \ {0}
    /\ Scale \in Nat \ {0} /\ \A n \in 1 .. MaxK + MaxHit : n * (Scale \div n) = Scale

Hit == 1 .. MaxHit

VARIABLES
    fulltext,   \* fulltext[i]: BM25 score of record i, 0 if it does not match
    semantic,   \* semantic[i]: similarity, 0 if no vector or under the threshold
    query,      \* the last query
    result      \* its answer, best first

hybridVars == <<fulltext, semantic, query, result>>

Query == [k : 0 .. MaxK, candidateLimit : 1 .. MaxResults, limit : 1 .. MaxResults,
          fulltextWeight : 0 .. MaxWeight, semanticWeight : 0 .. MaxWeight]

NoQuery == [k |-> 0, candidateLimit |-> 0, limit |-> 0,
            fulltextWeight |-> 0, semanticWeight |-> 0]

HybridTypeOK ==
    /\ fulltext \in [Hit -> 0 .. MaxScore] /\ semantic \in [Hit -> 0 .. MaxScore]
    /\ query \in Query \cup {NoQuery}
    /\ result \in SeqOf(Hit, query.limit)

HybridInit ==
    /\ fulltext \in [Hit -> 0 .. MaxScore] /\ semantic \in [Hit -> 0 .. MaxScore]
    /\ query = NoQuery /\ result = <<>>

-----------------------------------------------------------------------------
(* row_number() over (order by score desc, id) *)
Rank(arm, i) ==
    1 + Cardinality({j \in Hit : arm[j] > arm[i] \/ (arm[j] = arm[i] /\ j < i)})

(* search_records of one arm: the best n of the records that match.        *)
Best(arm, n) == {i \in Hit : arm[i] > 0 /\ Rank(arm, i) <= n}

AsAsked(q) == q.candidateLimit

(* greatest(candidateLimit, limit) *)
Candidates(q) == IF q.candidateLimit < q.limit THEN q.limit ELSE q.candidateLimit

(* weight / (k + rank), times Scale. *)
Share(arm, i, weight, q) ==
    IF i \in Best(arm, Candidates(q))
    THEN weight * (Scale \div (q.k + Rank(arm, i)))
    ELSE 0

Score(i, q) ==
    Share(fulltext, i, q.fulltextWeight, q) + Share(semantic, i, q.semanticWeight, q)

(* full outer join of the two arms *)
Fused(q) == Best(fulltext, Candidates(q)) \cup Best(semantic, Candidates(q))

(* order by score desc, id *)
Sooner(i, j, q) == Score(i, q) > Score(j, q) \/ (Score(i, q) = Score(j, q) /\ i < j)

Position(i, q) == 1 + Cardinality({j \in Fused(q) : Sooner(j, i, q)})

(* limit _lim *)
Returned(q) ==
    IF q.limit < Cardinality(Fused(q)) THEN q.limit ELSE Cardinality(Fused(q))

HybridSearch(q) ==
    /\ query' = q
    /\ result' = [n \in 1 .. Returned(q) |-> CHOOSE i \in Fused(q) : Position(i, q) = n]
    /\ UNCHANGED <<fulltext, semantic>>

HybridNext == query = NoQuery /\ \E q \in Query : HybridSearch(q)

HybridSpec == HybridInit /\ [][HybridNext]_hybridVars

-----------------------------------------------------------------------------
Matches == {i \in Hit : fulltext[i] > 0 \/ semantic[i] > 0}

(* A search returns as many records as its limit allows and either arm     *)
(* matches, however small a candidateLimit was asked for.                  *)
FillsTheLimit ==
    query # NoQuery =>
        Len(result) = (IF query.limit < Cardinality(Matches)
                       THEN query.limit ELSE Cardinality(Matches))

Found(arm, i) == i \in Best(arm, Candidates(query))

NoWorse(arm, weight, i, j) ==
    weight = 0 \/ ~Found(arm, j) \/ (Found(arm, i) /\ Rank(arm, i) <= Rank(arm, j))

Better(arm, weight, i, j) ==
    weight > 0 /\ Found(arm, i) /\ (Found(arm, j) => Rank(arm, i) < Rank(arm, j))

(* Fusion respects both arms: a record that one arm prefers to another and *)
(* the other arm (if it has any weight) does not mind comes first, and is  *)
(* there when the other is: for k = 0, ties, unequal weights and records   *)
(* only one arm knows.                                                     *)
FusionRespectsArms ==
    \A n \in 1 .. Len(result) : \A i \in Hit :
        LET j == result[n] IN
        /\ NoWorse(fulltext, query.fulltextWeight, i, j)
        /\ NoWorse(semantic, query.semanticWeight, i, j)
        /\ \/ Better(fulltext, query.fulltextWeight, i, j)
           \/ Better(semantic, query.semanticWeight, i, j)
        => \E m \in 1 .. n - 1 : result[m] = i

(* The fused list is as long as it can be and ranked as its arms rank.     *)
HybridIsExact == FillsTheLimit /\ FusionRespectsArms
=============================================================================
