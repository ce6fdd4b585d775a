--------------------------- MODULE Retrieval_proofs ---------------------------
(***************************************************************************)
(* The safety properties of four parts of retrieval: the iterative         *)
(* retriever, for any judge, any inner retriever and any others that spend *)
(* from its budget; the way of a query to the index; evaluation runs; and  *)
(* the ranking of what is found.                                           *)
(***************************************************************************)
EXTENDS Iterative, Ranking, Routing, Evaluation, Totals_proofs, SequenceTheorems

-----------------------------------------------------------------------------
(***************************************************************************)
(* The iterative retriever.  What it retrieves, and pays for, is counted   *)
(* by the hop it is in, whatever others do to the budget meanwhile.        *)
(***************************************************************************)

Found == UNION {Range(hits) : hits \in HitLists}

\* A candidate is told by its chunk and its score.
LEMMA CandidatesPlain ==
  \A c \in Found : c.score \in Int /\ \A d \in Found : (c.chunk = d.chunk /\ c.score = d.score) => c = d
<1>1. \A c \in Found : c = [chunk |-> c.chunk, score |-> c.score] /\ c.score \in Int
  BY IterativeAssumption DEF Found
<1> QED BY <1>1

\* Of two chunks with the same best score the one met first comes first.
LEMMA BeforeOrders ==
  ASSUME NEW ev \in Seq(Found)
  PROVE  /\ IsFiniteSet(BestOf(ev)) /\ BestOf(ev) \in SUBSET (1 .. Len(ev))
         /\ StrictOrder(BestOf(ev), Before(ev))
         /\ \A i, j \in BestOf(ev) : i # j => ev[i].chunk # ev[j].chunk
         /\ \A i, j \in BestOf(ev) : <<i, j>> \in Before(ev) => ev[i].score >= ev[j].score
<1> DEFINE best == BestOf(ev)
           met(i) == Met(ev, i)
<1>1. /\ best \in SUBSET (1 .. Len(ev)) /\ DOMAIN ev = 1 .. Len(ev) /\ Len(ev) \in Nat
      /\ best \subseteq Int
  BY DEF BestOf
<1>2. IsFiniteSet(1 .. Len(ev))
  <2>1. 1 \in Int /\ Len(ev) \in Int
    BY <1>1
  <2> QED BY <2>1, FS_Interval
<1>3. IsFiniteSet(best)
  BY <1>1, <1>2, FS_Subset
<1>4. \A i \in DOMAIN ev : ev[i] \in Found
  BY <1>1
<1>5. \A i \in DOMAIN ev : ev[i].score \in Int
  BY <1>4, CandidatesPlain
<1>6. ASSUME NEW i \in best, NEW j \in best, ev[i].chunk = ev[j].chunk
      PROVE  i = j
  <2>1. /\ ev[j].score < ev[i].score \/ (ev[j].score = ev[i].score /\ i <= j)
        /\ ev[i].score < ev[j].score \/ (ev[j].score = ev[i].score /\ j <= i)
    BY <1>6 DEF BestOf
  <2>2. ev[i].score \in Int /\ ev[j].score \in Int /\ i \in Int /\ j \in Int
    BY <1>1, <1>5
  <2> QED BY <2>1, <2>2
<1>7. ASSUME NEW i \in best PROVE met(i) \in DOMAIN ev /\ ev[met(i)].chunk = ev[i].chunk
  <2> DEFINE same == {j \in DOMAIN ev : ev[j].chunk = ev[i].chunk}
  <2>1. same \in SUBSET (1 .. Len(ev)) /\ same \in SUBSET Int /\ i \in same
    BY <1>1
  <2>2. IsFiniteSet(same)
    BY <1>2, <2>1, FS_Subset
  <2>3. Min(same) \in same
    <3> HIDE DEF same
    <3> QED BY <2>1, <2>2, FiniteMin
  <2> QED BY <2>3 DEF Met
<1>8. \A i \in best : met(i) \in Int /\ ev[i].score \in Int
  BY <1>1, <1>5, <1>7
<1>9. \A i, j \in best : i # j => met(i) # met(j)
  BY <1>6, <1>7
<1>10. \A i, j \in best :
         <<i, j>> \in Before(ev) <=>
           (ev[i].score > ev[j].score \/ (ev[i].score = ev[j].score /\ met(i) < met(j)))
  BY DEF Before
<1> HIDE DEF met, best
<1>11. StrictOrder(best, Before(ev))
  <2>1. \A x \in best : <<x, x>> \notin Before(ev)
    BY <1>8, <1>10
  <2>2. ASSUME NEW x \in best, NEW y \in best, NEW z \in best,
               <<x, y>> \in Before(ev), <<y, z>> \in Before(ev)
        PROVE  <<x, z>> \in Before(ev)
    <3>1. /\ met(x) \in Int /\ met(y) \in Int /\ met(z) \in Int
          /\ ev[x].score \in Int /\ ev[y].score \in Int /\ ev[z].score \in Int
      BY <1>8
    <3>2. ev[x].score > ev[y].score \/ (ev[x].score = ev[y].score /\ met(x) < met(y))
      BY <1>10, <2>2
    <3>3. ev[y].score > ev[z].score \/ (ev[y].score = ev[z].score /\ met(y) < met(z))
      BY <1>10, <2>2
    <3>4. ev[x].score > ev[z].score \/ (ev[x].score = ev[z].score /\ met(x) < met(z))
      BY <3>1, <3>2, <3>3
    <3> QED BY <1>10, <3>4
  <2>3. \A x, y \in best : x # y => (<<x, y>> \in Before(ev) \/ <<y, x>> \in Before(ev))
    BY <1>8, <1>9, <1>10
  <2> QED BY <2>1, <2>2, <2>3 DEF StrictOrder
<1>12. \A i, j \in best : <<i, j>> \in Before(ev) => ev[i].score >= ev[j].score
  BY <1>8, <1>10
<1> QED BY <1>1, <1>3, <1>6, <1>11, <1>12 DEF best

\* Deduplication keeps every chunk once, with its best score, the best first.
LEMMA RankedRight ==
  ASSUME NEW ev \in Seq(Found)
  PROVE  /\ DedupAndRank(ev) \in Seq(Found)
         /\ Range(DedupAndRank(ev)) =
              {c \in Range(ev) : \A d \in Range(ev) : d.chunk = c.chunk => d.score <= c.score}
         /\ \A i, j \in DOMAIN DedupAndRank(ev) : i < j =>
              /\ DedupAndRank(ev)[i].chunk # DedupAndRank(ev)[j].chunk
              /\ DedupAndRank(ev)[i].score >= DedupAndRank(ev)[j].score
<1> DEFINE best == BestOf(ev)
           R == Before(ev)
           order == InOrder(best, R)
           ranked == DedupAndRank(ev)
<1>1. /\ best \in SUBSET (1 .. Len(ev)) /\ DOMAIN ev = 1 .. Len(ev) /\ Len(ev) \in Nat
      /\ \A i \in DOMAIN ev : ev[i] \in Found
  BY BeforeOrders
<1>2. Enumerates(order, best, R) /\ Cardinality(best) \in Nat
  BY BeforeOrders, InOrderEnumerates, FS_CardinalityType
<1>3. ranked = [n \in DOMAIN order |-> ev[order[n]]]
  BY DEF DedupAndRank
<1>4. \A i \in best : \A j \in DOMAIN ev : ev[j].chunk = ev[i].chunk =>
        (ev[j].score < ev[i].score \/ (ev[j].score = ev[i].score /\ i <= j))
  BY DEF BestOf
<1>5. \A i, j \in best : (i # j => ev[i].chunk # ev[j].chunk)
                         /\ (<<i, j>> \in R => ev[i].score >= ev[j].score)
  BY BeforeOrders
<1> HIDE DEF order, ranked, R, best
<1>6. /\ DOMAIN order = 1 .. Cardinality(best)
      /\ \A n \in DOMAIN order : order[n] \in best
      /\ \A i \in best : \E n \in DOMAIN order : order[n] = i
      /\ \A m, n \in DOMAIN order : m < n => <<order[m], order[n]>> \in R
      /\ \A m, n \in DOMAIN order : m # n => order[m] # order[n]
  <2>1. order \in Seq(best) /\ Len(order) = Cardinality(best)
    BY <1>2 DEF Enumerates
  <2>2. \A n \in 1 .. Len(order) : order[n] \in best
    BY <2>1
  <2> QED BY <1>2, <2>1, <2>2 DEF Enumerates
<1>7. \A n \in DOMAIN order : ranked[n] = ev[order[n]] /\ order[n] \in DOMAIN ev
  BY <1>1, <1>3, <1>6
<1>8. ranked \in Seq(Found)
  <2>1. ranked \in [1 .. Cardinality(best) -> Found]
    BY <1>1, <1>3, <1>6
  <2> QED BY <1>2, <2>1
<1>9. ASSUME NEW c \in Range(ranked)
      PROVE  c \in Range(ev) /\ \A d \in Range(ev) : d.chunk = c.chunk => d.score <= c.score
  <2>1. PICK n \in DOMAIN order : c = ev[order[n]]
    BY <1>3, <1>7 DEF Range
  <2>2. c \in Range(ev)
    BY <1>7, <2>1 DEF Range
  <2>3. ASSUME NEW d \in Range(ev), d.chunk = c.chunk PROVE d.score <= c.score
    <3>1. PICK j \in DOMAIN ev : d = ev[j]
      BY DEF Range
    <3>2. d.score < c.score \/ d.score = c.score
      BY <1>4, <1>6, <2>1, <2>3, <3>1
    <3>3. d.score \in Int /\ c.score \in Int
      BY <1>1, <1>7, <2>1, <3>1, CandidatesPlain
    <3> QED BY <3>2, <3>3
  <2> QED BY <2>2, <2>3
<1>10. ASSUME NEW c \in Range(ev), \A d \in Range(ev) : d.chunk = c.chunk => d.score <= c.score
       PROVE  c \in Range(ranked)
  <2> DEFINE where == {i \in DOMAIN ev : ev[i] = c}
  <2>1. where # {} /\ where \in SUBSET (1 .. Len(ev)) /\ where \in SUBSET Int
    BY <1>1 DEF Range
  <2>2. IsFiniteSet(where)
    <3>1. 1 \in Int /\ Len(ev) \in Int
      BY <1>1
    <3>2. IsFiniteSet(1 .. Len(ev))
      BY <3>1, FS_Interval
    <3> QED BY <2>1, <3>2, FS_Subset
  <2>3. Min(where) \in where /\ \A j \in where : Min(where) <= j
    <3> HIDE DEF where
    <3> QED BY <2>1, <2>2, FiniteMin
  <2>4. PICK first \in DOMAIN ev : ev[first] = c /\ \A j \in where : first <= j
    BY <2>3
  <2>5. ASSUME NEW j \in DOMAIN ev, ev[j].chunk = ev[first].chunk
        PROVE  ev[j].score < ev[first].score \/ (ev[j].score = ev[first].score /\ first <= j)
    <3>1. ev[j].score <= c.score
      BY <1>10, <2>4, <2>5 DEF Range
    <3>2. ev[j] \in Found /\ c \in Found
      BY <1>1, <2>4
    <3>3. ev[j].score \in Int /\ c.score \in Int /\ (ev[j].score = c.score => ev[j] = c)
      BY <2>4, <2>5, <3>2, CandidatesPlain
    <3> QED BY <2>4, <3>1, <3>3
  <2>6. first \in best
    BY <2>5 DEF best, BestOf
  <2>7. PICK n \in DOMAIN order : order[n] = first
    BY <1>6, <2>6
  <2> QED BY <1>3, <2>4, <2>7 DEF Range
<1>11. Range(ranked) = {c \in Range(ev) : \A d \in Range(ev) : d.chunk = c.chunk => d.score <= c.score}
  BY <1>9, <1>10
<1>12. ASSUME NEW i \in DOMAIN ranked, NEW j \in DOMAIN ranked, i < j
       PROVE  ranked[i].chunk # ranked[j].chunk /\ ranked[i].score >= ranked[j].score
  <2>1. /\ i \in DOMAIN order /\ j \in DOMAIN order /\ i # j
        /\ ranked[i] = ev[order[i]] /\ ranked[j] = ev[order[j]]
    BY <1>3, <1>6, <1>7, <1>12
  <2>2. /\ order[i] \in best /\ order[j] \in best /\ order[i] # order[j]
        /\ <<order[i], order[j]>> \in R
    BY <1>6, <1>12, <2>1
  <2> QED BY <1>5, <2>1, <2>2
<1> QED BY <1>8, <1>11, <1>12 DEF ranked
-----------------------------------------------------------------------------
HuntRecords ==
  [pc : {"ready", "retrieving", "judging", "done", "raised"}, hop : 0 .. MaxHops - 1, query : Queries,
   seen : SUBSET Queries, evidence : Seq(Found), ranked : Seq(Found)]

HuntShape ==
  /\ hunt \in HuntRecords
  /\ spent \in Nat /\ held \in Nat /\ paid \in Nat
  /\ asked \in Seq(Queries)

\* Every query sent was entered among the issued ones before; the one that is to be
\* sent next was not sent yet, in whatever case.
AskedOnce ==
  /\ Lower[hunt.query] \in hunt.seen
  /\ \A i \in DOMAIN asked : Lower[asked[i]] \in hunt.seen
  /\ \A i, j \in DOMAIN asked : i # j => Lower[asked[i]] # Lower[asked[j]]
  /\ hunt.pc = "ready" => \A i \in DOMAIN asked : Lower[asked[i]] # Lower[hunt.query]

\* One query in each hop, and no judge after the last one.
HopsCounted ==
  /\ Len(asked) <= hunt.hop + 1
  /\ hunt.pc = "ready" => Len(asked) = hunt.hop
  /\ hunt.pc \in {"retrieving", "judging"} => Len(asked) = hunt.hop + 1
  /\ hunt.pc = "judging" => hunt.hop # MaxHops - 1

\* The hop under way has its grant; those before are paid for.
PaidUp ==
  /\ hunt.pc \in {"ready", "judging", "done"} => paid = Len(asked)
  /\ hunt.pc = "retrieving" => paid = Len(asked) - 1 /\ held >= 1
  /\ hunt.pc = "raised" => \/ paid = Len(asked)
                           \/ paid = Len(asked) - 1 /\ held >= 1 /\ spent + held > HopBudget

RankedAtTheEnd == hunt.pc = "done" => hunt.ranked = DedupAndRank(hunt.evidence)

HuntInv == HuntShape /\ AskedOnce /\ HopsCounted /\ PaidUp /\ RankedAtTheEnd

\* The answer is made of the evidence.
LEMMA FinishEnds ==
  ASSUME hunt \in HuntRecords, NEW ev \in Seq(Found)
  PROVE  /\ Finish(ev) \in HuntRecords
         /\ Finish(ev).pc = "done" /\ Finish(ev).hop = hunt.hop
         /\ Finish(ev).query = hunt.query /\ Finish(ev).seen = hunt.seen
         /\ Finish(ev).evidence = ev /\ Finish(ev).ranked = DedupAndRank(ev)
<1> DEFINE ranked == DedupAndRank(ev)
<1>1. ranked \in Seq(Found)
  BY RankedRight
<1>2. Finish(ev) = [hunt EXCEPT !.pc = "done", !.evidence = ev, !.ranked = ranked]
  BY DEF Finish
<1> HIDE DEF ranked
<1>3. /\ Finish(ev) \in HuntRecords
      /\ Finish(ev).pc = "done" /\ Finish(ev).hop = hunt.hop
      /\ Finish(ev).query = hunt.query /\ Finish(ev).seen = hunt.seen
      /\ Finish(ev).evidence = ev /\ Finish(ev).ranked = ranked
  BY <1>1, <1>2 DEF HuntRecords
<1> QED BY <1>3 DEF ranked

\* What a settlement does: the grant is turned into spending, or stays.
LEMMA PayPays ==
  ASSUME HuntShape, PaidUp, hunt.pc = "retrieving", Pay
  PROVE  /\ spent' \in Nat /\ held' \in Nat /\ paid' \in Nat
         /\ Covered => paid' = Len(asked)
         /\ ~Covered => paid' = Len(asked) - 1 /\ held' >= 1 /\ spent' + held' > HopBudget
<1>1. /\ spent \in Nat /\ held \in Nat /\ paid \in Nat /\ Len(asked) \in Nat /\ HopBudget \in Nat
      /\ held >= 1 /\ paid = Len(asked) - 1
  BY IterativeAssumption DEF HuntShape, PaidUp
<1>2. CASE Covered
  BY <1>1, <1>2 DEF Pay
<1>3. CASE ~Covered
  BY <1>1, <1>3 DEF Pay, Covered
<1> QED BY <1>2, <1>3

LEMMA HuntInit == IterativeInit => HuntInv
<1> SUFFICES ASSUME IterativeInit PROVE HuntInv
  OBVIOUS
<1>1. PICK q \in Queries : hunt = Start(q)
  BY DEF IterativeInit
<1>2. Lower[q] \in Queries /\ 0 \in 0 .. MaxHops - 1
  BY IterativeAssumption
<1>3. << >> \in Seq(Found) /\ asked = << >> /\ DOMAIN asked = {} /\ Len(asked) = 0
  BY DEF IterativeInit
<1>4. HuntShape
  BY <1>1, <1>2, <1>3 DEF HuntShape, HuntRecords, Start, IterativeInit
<1>5. AskedOnce
  BY <1>1, <1>3 DEF AskedOnce, Start
<1>6. HopsCounted /\ PaidUp /\ RankedAtTheEnd
  BY <1>1, <1>3 DEF HopsCounted, PaidUp, RankedAtTheEnd, Start, IterativeInit
<1> QED BY <1>4, <1>5, <1>6 DEF HuntInv

LEMMA HuntStep == HuntInv /\ [IterativeNext]_huntVars => HuntInv'
<1> SUFFICES ASSUME HuntInv, [IterativeNext]_huntVars PROVE HuntInv'
  OBVIOUS
<1> USE DEF HuntInv
<1>0. /\ hunt.pc \in {"ready", "retrieving", "judging", "done", "raised"}
      /\ hunt.hop \in 0 .. MaxHops - 1 /\ hunt.query \in Queries /\ hunt.seen \in SUBSET Queries
      /\ hunt.evidence \in Seq(Found) /\ Len(asked) \in Nat /\ DOMAIN asked = 1 .. Len(asked)
      /\ MaxHops \in Nat \ {0} /\ HopBudget \in Nat
      /\ \A q \in Queries : Lower[q] \in Queries
  BY IterativeAssumption DEF HuntShape, HuntRecords
\* Wherever the retrieval ends, what was asked stays as it is.
<1>1. ASSUME hunt' \in HuntRecords, UNCHANGED asked, hunt'.pc \in {"done", "raised"},
             hunt'.hop = hunt.hop, hunt'.query = hunt.query, hunt'.seen = hunt.seen
      PROVE  AskedOnce' /\ HopsCounted'
  BY <1>1 DEF AskedOnce, HopsCounted
<1>2. CASE Begin /\ Free >= 1
  <2>1. /\ hunt.pc = "ready" /\ held' = held + 1 /\ UNCHANGED <<spent, paid>>
        /\ hunt' = [hunt EXCEPT !.pc = "retrieving"]
        /\ asked' = Append(asked, hunt.query)
    BY <1>2 DEF Begin
  <2>2. /\ hunt' \in HuntRecords /\ hunt'.pc = "retrieving" /\ hunt'.hop = hunt.hop
        /\ hunt'.query = hunt.query /\ hunt'.seen = hunt.seen
    BY <2>1 DEF HuntShape, HuntRecords
  <2>3. /\ asked' \in Seq(Queries) /\ Len(asked') = Len(asked) + 1
        /\ DOMAIN asked' = 1 .. Len(asked) + 1
        /\ \A i \in DOMAIN asked : asked'[i] = asked[i]
        /\ asked'[Len(asked) + 1] = hunt.query
    BY <1>0, <2>1 DEF HuntShape
  <2>4. HuntShape'
    BY <2>1, <2>2, <2>3 DEF HuntShape
  <2>5. AskedOnce'
    <3>1. \A i \in DOMAIN asked' : i \in DOMAIN asked \/ i = Len(asked) + 1
      BY <1>0, <2>3
    <3>2. \A i \in DOMAIN asked' : Lower[asked'[i]] \in hunt'.seen
      BY <2>2, <2>3, <3>1 DEF AskedOnce
    <3>3. \A i, j \in DOMAIN asked' : i # j => Lower[asked'[i]] # Lower[asked'[j]]
      BY <2>1, <2>3, <3>1 DEF AskedOnce
    <3> QED BY <2>2, <3>2, <3>3 DEF AskedOnce
  <2>6. HopsCounted' /\ PaidUp' /\ RankedAtTheEnd'
    BY <1>0, <2>1, <2>2, <2>3 DEF HuntShape, HopsCounted, PaidUp, RankedAtTheEnd
  <2> QED BY <2>4, <2>5, <2>6
<1>3. CASE Begin /\ ~(Free >= 1)
  <2>1. /\ hunt.pc = "ready" /\ hunt' = Finish(hunt.evidence)
        /\ UNCHANGED <<spent, held, asked, paid>>
    BY <1>3 DEF Begin
  <2> QED BY <1>0, <1>1, <2>1, FinishEnds DEF HuntShape, PaidUp, RankedAtTheEnd
<1>4. CASE RetrieveFails
  <2>1. /\ hunt.pc = "retrieving" /\ Pay /\ UNCHANGED asked
        /\ hunt' = [hunt EXCEPT !.pc = "raised"]
    BY <1>4 DEF RetrieveFails
  <2>2. /\ hunt' \in HuntRecords /\ hunt'.pc = "raised" /\ hunt'.hop = hunt.hop
        /\ hunt'.query = hunt.query /\ hunt'.seen = hunt.seen
    BY <2>1 DEF HuntShape, HuntRecords
  <2>3. HuntShape'
    BY <2>1, <2>2, PayPays DEF HuntShape
  <2>4. PaidUp' /\ RankedAtTheEnd'
    BY <2>1, <2>2, PayPays DEF PaidUp, RankedAtTheEnd
  <2> QED BY <1>1, <2>1, <2>2, <2>3, <2>4
<1>5. ASSUME NEW hits \in HitLists, Retrieved(hits) PROVE HuntInv'
  <2> DEFINE evidence == hunt.evidence \o hits
  <2>1. /\ hunt.pc = "retrieving" /\ Pay /\ UNCHANGED asked
        /\ hunt' = IF ~Covered THEN [hunt EXCEPT !.pc = "raised"]
                   ELSE IF hunt.hop = MaxHops - 1 THEN Finish(evidence)
                   ELSE [hunt EXCEPT !.pc = "judging", !.evidence = evidence]
    BY <1>5 DEF Retrieved
  <2>2. hits \in Seq(Found)
    <3>1. hits \in Seq(Range(hits)) /\ Range(hits) \subseteq Found
      BY IterativeAssumption DEF Found
    <3>2. \A i \in 1 .. Len(hits) : hits[i] \in Found
      BY <3>1
    <3>3. hits \in [1 .. Len(hits) -> Found] /\ Len(hits) \in Nat
      BY <3>1, <3>2
    <3> QED BY <3>3
  <2>3. evidence \in Seq(Found)
    BY <1>0, <2>2
  <2> HIDE DEF evidence
  <2>4. CASE ~Covered
    <3>1. /\ hunt' \in HuntRecords /\ hunt'.pc = "raised" /\ hunt'.hop = hunt.hop
          /\ hunt'.query = hunt.query /\ hunt'.seen = hunt.seen
      BY <2>1, <2>4 DEF HuntShape, HuntRecords
    <3>2. HuntShape'
      BY <2>1, <3>1, PayPays DEF HuntShape
    <3>3. PaidUp' /\ RankedAtTheEnd'
      BY <2>1, <2>4, <3>1, PayPays DEF PaidUp, RankedAtTheEnd
    <3> QED BY <1>1, <2>1, <3>1, <3>2, <3>3
  <2>5. CASE Covered /\ hunt.hop = MaxHops - 1
    <3>1. /\ hunt' \in HuntRecords /\ hunt'.pc = "done" /\ hunt'.hop = hunt.hop
          /\ hunt'.query = hunt.query /\ hunt'.seen = hunt.seen
          /\ hunt'.ranked = DedupAndRank(hunt'.evidence)
      BY <2>1, <2>3, <2>5, FinishEnds DEF HuntShape
    <3>2. HuntShape'
      BY <2>1, <3>1, PayPays DEF HuntShape
    <3>3. PaidUp' /\ RankedAtTheEnd'
      BY <2>1, <2>5, <3>1, PayPays DEF PaidUp, RankedAtTheEnd
    <3> QED BY <1>1, <2>1, <3>1, <3>2, <3>3
  <2>6. CASE Covered /\ hunt.hop # MaxHops - 1
    <3>1. /\ hunt' \in HuntRecords /\ hunt'.pc = "judging" /\ hunt'.hop = hunt.hop
          /\ hunt'.query = hunt.query /\ hunt'.seen = hunt.seen
      BY <2>1, <2>3, <2>6 DEF HuntShape, HuntRecords
    <3>2. HuntShape'
      BY <2>1, <3>1, PayPays DEF HuntShape
    <3>3. Len(asked) = hunt.hop + 1
      BY <1>0, <2>1 DEF HopsCounted
    <3>4. AskedOnce'
      BY <2>1, <3>1 DEF AskedOnce
    <3>5. HopsCounted' /\ PaidUp' /\ RankedAtTheEnd'
      BY <2>1, <2>6, <3>1, <3>3, PayPays DEF HopsCounted, PaidUp, RankedAtTheEnd
    <3> QED BY <3>2, <3>4, <3>5
  <2> QED BY <2>4, <2>5, <2>6
<1>6. ASSUME NEW q \in Queries, Follow(q) PROVE HuntInv'
  <2>1. hunt.pc = "judging" /\ UNCHANGED <<spent, held, asked, paid>>
    BY <1>6 DEF Follow
  <2>2. CASE Lower[q] \in hunt.seen
    <3>1. hunt' = Finish(hunt.evidence)
      BY <1>6, <2>2 DEF Follow
    <3> QED BY <1>0, <1>1, <2>1, <3>1, FinishEnds DEF HuntShape, PaidUp, RankedAtTheEnd
  <2>3. CASE Lower[q] \notin hunt.seen
    <3>1. hunt' = [hunt EXCEPT !.pc = "ready", !.hop = @ + 1, !.query = q, !.seen = @ \cup {Lower[q]}]
      BY <1>6, <2>3 DEF Follow
    <3>2. hunt.hop + 1 \in 0 .. MaxHops - 1 /\ hunt.seen \cup {Lower[q]} \in SUBSET Queries
          /\ Len(asked) = hunt.hop + 1
      BY <1>0, <2>1 DEF HopsCounted
    <3>3. /\ hunt' \in HuntRecords /\ hunt'.pc = "ready" /\ hunt'.hop = hunt.hop + 1
          /\ hunt'.query = q /\ hunt'.seen = hunt.seen \cup {Lower[q]}
      BY <3>1, <3>2 DEF HuntShape, HuntRecords
    <3>4. HuntShape'
      BY <2>1, <3>3 DEF HuntShape
    <3>5. AskedOnce'
      BY <2>1, <2>3, <3>3 DEF AskedOnce
    <3>6. HopsCounted' /\ PaidUp' /\ RankedAtTheEnd'
      BY <1>0, <2>1, <3>2, <3>3 DEF HopsCounted, PaidUp, RankedAtTheEnd
    <3> QED BY <3>4, <3>5, <3>6
  <2> QED BY <2>2, <2>3
<1>7. CASE Enough
  <2>1. /\ hunt.pc = "judging" /\ hunt' = Finish(hunt.evidence)
        /\ UNCHANGED <<spent, held, asked, paid>>
    BY <1>7 DEF Enough
  <2> QED BY <1>0, <1>1, <2>1, FinishEnds DEF HuntShape, PaidUp, RankedAtTheEnd
<1>8. CASE JudgeRaises
  <2>1. /\ hunt.pc = "judging" /\ hunt' = [hunt EXCEPT !.pc = "raised"]
        /\ UNCHANGED <<spent, held, asked, paid>>
    BY <1>8 DEF JudgeRaises
  <2>2. /\ hunt' \in HuntRecords /\ hunt'.pc = "raised" /\ hunt'.hop = hunt.hop
        /\ hunt'.query = hunt.query /\ hunt'.seen = hunt.seen
    BY <2>1 DEF HuntShape, HuntRecords
  <2> QED BY <1>1, <2>1, <2>2 DEF HuntShape, PaidUp, RankedAtTheEnd
<1>9. CASE Others
  <2>1. UNCHANGED <<hunt, asked, paid>> /\ hunt.pc \in {"ready", "retrieving", "judging"}
    BY <1>9 DEF Others
  <2>2. spent' \in Nat /\ held' \in Nat /\ (hunt.pc = "retrieving" => held' >= 1)
    <3>1. spent \in Nat /\ held \in Nat /\ (hunt.pc = "retrieving" => held >= 1)
      BY DEF HuntShape, PaidUp
    <3> QED BY <1>9, <3>1 DEF Others
  <2> QED BY <2>1, <2>2 DEF HuntShape, AskedOnce, HopsCounted, PaidUp, RankedAtTheEnd
<1>10. CASE UNCHANGED huntVars
  BY <1>10 DEF huntVars, HuntShape, AskedOnce, HopsCounted, PaidUp, RankedAtTheEnd
<1> QED BY <1>2, <1>3, <1>4, <1>5, <1>6, <1>7, <1>8, <1>9, <1>10 DEF IterativeNext

LEMMA HuntSafe == HuntInv => HuntSound
<1> SUFFICES ASSUME HuntInv PROVE HuntSound
  OBVIOUS
<1>1. /\ hunt.hop \in 0 .. MaxHops - 1 /\ MaxHops \in Nat /\ Len(asked) \in Nat /\ paid \in Nat
      /\ hunt.evidence \in Seq(Found)
      /\ hunt.pc \in {"ready", "retrieving", "judging", "done", "raised"}
  BY IterativeAssumption DEF HuntInv, HuntShape, HuntRecords
<1>2. NoQueryTwice
  BY <1>1 DEF HuntInv, AskedOnce, HopsCounted, NoQueryTwice
<1>3. HopsPaid
  BY <1>1 DEF HuntInv, PaidUp, HopsPaid
<1>4. BestKept
  BY <1>1, RankedRight DEF HuntInv, RankedAtTheEnd, BestKept
<1> QED BY <1>2, <1>3, <1>4 DEF HuntSound

\* Whatever the judge wants next, whichever retrievals fail and whatever others spend
\* of the budget meanwhile, no query is sent twice, every hop is paid for, and the
\* answer has each chunk of the evidence once, with its best score, the best first.
THEOREM HuntHolds == IterativeSpec => []HuntSound
<1>1. IterativeSpec => []HuntInv
  BY HuntInit, HuntStep, PTL DEF IterativeSpec
<1> QED BY <1>1, HuntSafe, PTL
-----------------------------------------------------------------------------
(***************************************************************************)
(* The way of a query to the index.  A route keeps what it started with:   *)
(* the signals it shows, its own filters and its text.                     *)
(***************************************************************************)

\* A further sign of a lookup adds its weight to the corpus tools' and to nothing else.
LEMMA SignsAdd ==
  ASSUME NEW w \in Weightings, NEW seen \in SUBSET Signals, NEW s \in DciSigns
  PROVE  /\ Weigh(seen, DciSigns, w) \in Nat /\ Weigh(seen \cup {s}, DciSigns, w) \in Nat
         /\ Weigh(seen, DciSigns, w) <= Weigh(seen \cup {s}, DciSigns, w)
         /\ Weigh(seen, {"long"}, w) \in Nat
         /\ Weigh(seen \cup {s}, {"long"}, w) = Weigh(seen, {"long"}, w)
         /\ Weigh(seen, {"bridge"}, w) \in Nat
         /\ Weigh(seen \cup {s}, {"bridge"}, w) = Weigh(seen, {"bridge"}, w)
<1> DEFINE D == Signals \cup {"threshold"}
           lookup == seen \cap DciSigns
           long == seen \cap {"long"}
           bridge == seen \cap {"bridge"}
<1>1. w \in [D -> Nat]
  BY RoutingAssumption
<1>2. /\ IsFiniteSet({"quoted", "backticked"}) /\ IsFiniteSet({"identifier", "keyword"})
      /\ IsFiniteSet({"long"}) /\ IsFiniteSet({"bridge"})
  <2>1. \A x, y : IsFiniteSet({x} \cup {y})
    BY FS_Singleton, FS_Union
  <2>2. \A x, y : {x} \cup {y} = {x, y}
    OBVIOUS
  <2>3. IsFiniteSet({"quoted"} \cup {"backticked"}) /\ IsFiniteSet({"identifier"} \cup {"keyword"})
    BY <2>1
  <2>4. IsFiniteSet({"long"}) /\ IsFiniteSet({"bridge"})
    BY FS_Singleton
  <2>5. /\ {"quoted"} \cup {"backticked"} = {"quoted", "backticked"}
        /\ {"identifier"} \cup {"keyword"} = {"identifier", "keyword"}
    BY <2>2
  <2> QED BY <2>3, <2>4, <2>5
<1>3. IsFiniteSet(DciSigns)
  <2>1. DciSigns = {"quoted", "backticked"} \cup {"identifier", "keyword"}
    BY DEF DciSigns
  <2> QED BY <1>2, <2>1, FS_Union
<1>4. /\ lookup \in SUBSET D /\ long \in SUBSET D /\ bridge \in SUBSET D
      /\ s \in D /\ lookup \cup {s} \in SUBSET D /\ s # "long" /\ s # "bridge"
  BY DEF DciSigns, Signals
<1>5. IsFiniteSet(lookup) /\ IsFiniteSet(long) /\ IsFiniteSet(bridge)
  BY <1>2, <1>3, FS_Subset
<1>6. IsFiniteSet(lookup \cup {s})
  BY <1>5, FS_Singleton, FS_Union
<1>7. /\ (seen \cup {s}) \cap DciSigns = lookup \cup {s}
      /\ (seen \cup {s}) \cap {"long"} = long /\ (seen \cup {s}) \cap {"bridge"} = bridge
  BY <1>4
<1> HIDE DEF D, lookup, long, bridge
<1>8. /\ Total(w, lookup) \in Nat /\ Total(w, lookup \cup {s}) \in Nat
      /\ Total(w, long) \in Nat /\ Total(w, bridge) \in Nat
  BY <1>1, <1>4, <1>5, <1>6, TotalNat
<1>9. Total(w, lookup) <= Total(w, lookup \cup {s})
  <2>1. CASE s \in lookup
    <3>1. lookup \cup {s} = lookup
      BY <2>1
    <3> QED BY <1>8, <3>1
  <2>2. CASE s \notin lookup
    <3>1. Total(w, lookup \cup {s}) = Total(w, lookup) + w[s]
      BY <1>1, <1>4, <1>5, <2>2, TotalAdd
    <3>2. w[s] \in Nat
      BY <1>1, <1>4
    <3> QED BY <1>8, <3>1, <3>2
  <2> QED BY <2>1, <2>2
<1> QED BY <1>7, <1>8, <1>9 DEF Weigh, lookup, long, bridge

\* More weight for the corpus tools, the rest being equal, never leads away from them.
LEMMA MoreLookupPicked ==
  ASSUME NEW dci \in Nat, NEW more \in Nat, dci <= more, NEW vector \in Nat, NEW bridge \in Nat,
         NEW w \in Weightings, Pick(dci, vector, bridge, w) \in DciStrategies
  PROVE  Pick(more, vector, bridge, w) \in DciStrategies
<1>1. w.threshold \in Nat
  BY RoutingAssumption
<1>2. CASE bridge >= w.threshold
  <2>1. CASE more > 0 /\ vector > 0
    <3>1. Pick(more, vector, bridge, w) = IF more >= vector THEN "dci_then_vector" ELSE "vector_then_dci"
      BY <1>1, <1>2, <2>1 DEF Pick
    <3> QED BY <3>1 DEF DciStrategies
  <2>2. CASE ~(more > 0 /\ vector > 0)
    <3>1. Pick(more, vector, bridge, w) = "dci_then_vector"
      BY <1>1, <1>2, <2>2 DEF Pick
    <3> QED BY <3>1 DEF DciStrategies
  <2> QED BY <2>1, <2>2
<1>3. CASE ~(bridge >= w.threshold)
  <2>1. dci >= w.threshold /\ dci >= vector
    <3>1. ASSUME ~(dci >= w.threshold /\ dci >= vector) PROVE Pick(dci, vector, bridge, w) = "hybrid"
      BY <1>1, <1>3, <3>1 DEF Pick
    <3> QED BY <3>1 DEF DciStrategies
  <2>2. Pick(more, vector, bridge, w) = "dci"
    <3>1. /\ more >= w.threshold /\ more >= vector /\ bridge < w.threshold
      BY <1>1, <1>3, <2>1
    <3> QED BY <1>1, <3>1 DEF Pick
  <2> QED BY <2>2 DEF DciStrategies
<1> QED BY <1>2, <1>3

-----------------------------------------------------------------------------
Fields ==
  {"stage", "shown", "weights", "raw", "filters", "own", "ops", "variant", "rewrites", "hyde", "subs", "sent"}

\* A sequence of different texts, none of them empty.
Texts(s) == /\ s \in Seq(Phrases) /\ Blank \notin Range(s)
            /\ \A i, j \in DOMAIN s : i # j => s[i] # s[j]

RouteShape ==
  /\ DOMAIN route = Fields
  /\ route.stage \in {"route", "transform", "sent"}
  /\ route.shown \in SUBSET Signals /\ route.weights \in Weightings
  /\ route.own \in FilterSets

\* The query's own filters are in force from the start.
FiltersKept ==
  /\ route.stage = "route" => route.filters = route.own
  /\ \A key \in DOMAIN route.own : key \in DOMAIN route.filters /\ route.filters[key] = "query"
  /\ route.stage = "sent" => route.sent.filters = SearchFilters(route.filters, "session")

TextsNew ==
  /\ Texts(route.rewrites) /\ Texts(route.hyde) /\ Texts(route.subs)
  /\ route.raw \notin Range(route.rewrites)

RouteInv == RouteShape /\ FiltersKept /\ TextsNew

LEMMA OneTextMore ==
  ASSUME NEW s, Texts(s), NEW text \in Phrases, text # Blank, text \notin Range(s)
  PROVE  Texts(Append(s, text)) /\ Range(Append(s, text)) = Range(s) \cup {text}
<1> DEFINE t == Append(s, text)
<1>1. s \in Seq(Phrases) /\ Len(s) \in Nat /\ DOMAIN s = 1 .. Len(s)
  BY DEF Texts
<1>2. /\ t \in Seq(Phrases) /\ DOMAIN t = 1 .. Len(s) + 1
      /\ \A i \in DOMAIN s : t[i] = s[i]
      /\ t[Len(s) + 1] = text
  BY <1>1
<1>3. \A i \in DOMAIN t : i \in DOMAIN s \/ i = Len(s) + 1
  BY <1>1, <1>2
<1>4. Len(s) + 1 \in DOMAIN t /\ \A i \in DOMAIN s : i \in DOMAIN t /\ i # Len(s) + 1
  BY <1>1, <1>2
<1> HIDE DEF t
<1>5. Range(t) = Range(s) \cup {text}
  BY <1>2, <1>3, <1>4 DEF Range
<1>6. \A i, j \in DOMAIN t : i # j => t[i] # t[j]
  BY <1>2, <1>3 DEF Texts, Range
<1>7. Texts(t)
  BY <1>2, <1>5, <1>6 DEF Texts
<1> QED BY <1>5, <1>7 DEF t

\* The new ones of further texts, none of them empty, can follow.
LEMMA NewTextsMore ==
  ASSUME NEW s, Texts(s), NEW lines \in Seq(Phrases), Blank \notin Range(lines)
  PROVE  Texts(s \o NewOf(lines, Range(s)))
<1> DEFINE new == NewOf(lines, Range(s))
           t == s \o new
<1>1. /\ new \in Seq(Phrases)
      /\ \A n \in DOMAIN new : new[n] \notin Range(s) /\ \E i \in DOMAIN lines : new[n] = lines[i]
      /\ \A m, n \in DOMAIN new : m # n => new[m] # new[n]
  BY NewOfIsNew
<1>2. s \in Seq(Phrases) /\ Len(s) \in Nat /\ DOMAIN s = 1 .. Len(s)
  BY DEF Texts
<1> HIDE DEF new
<1>3. /\ t \in Seq(Phrases) /\ DOMAIN t = 1 .. Len(s) + Len(new)
      /\ \A i \in 1 .. Len(s) + Len(new) : t[i] = IF i <= Len(s) THEN s[i] ELSE new[i - Len(s)]
      /\ Len(new) \in Nat /\ DOMAIN new = 1 .. Len(new)
  BY <1>1, <1>2
<1> HIDE DEF t
<1>4. \A i \in DOMAIN t :
        \/ i \in DOMAIN s /\ t[i] = s[i]
        \/ i \notin DOMAIN s /\ i - Len(s) \in DOMAIN new /\ t[i] = new[i - Len(s)]
  BY <1>2, <1>3
<1>5. \A i, j \in DOMAIN t : i # j => i - Len(s) # j - Len(s)
  BY <1>2, <1>3
<1>6. \A n \in DOMAIN new : new[n] # Blank
  BY <1>1 DEF Range
<1>7. \A i \in DOMAIN s : s[i] # Blank /\ s[i] \in Range(s)
  BY DEF Texts, Range
<1>8. \A i \in DOMAIN t : t[i] # Blank
  BY <1>4, <1>6, <1>7
<1>9. ASSUME NEW i \in DOMAIN t, NEW j \in DOMAIN t, i # j PROVE t[i] # t[j]
  <2>1. CASE i \in DOMAIN s /\ j \in DOMAIN s
    BY <1>4, <1>9, <2>1 DEF Texts
  <2>2. CASE i \in DOMAIN s /\ j \notin DOMAIN s
    BY <1>1, <1>4, <1>7, <2>2
  <2>3. CASE i \notin DOMAIN s /\ j \in DOMAIN s
    BY <1>1, <1>4, <1>7, <2>3
  <2>4. CASE i \notin DOMAIN s /\ j \notin DOMAIN s
    BY <1>1, <1>4, <1>5, <1>9, <2>4
  <2> QED BY <2>1, <2>2, <2>3, <2>4
<1>10. Texts(t)
  BY <1>3, <1>8, <1>9 DEF Texts, Range
<1> QED BY <1>10 DEF t, new

LEMMA RouteInit == RoutingInit => RouteInv
<1> SUFFICES ASSUME RoutingInit PROVE RouteInv
  OBVIOUS
<1>1. PICK seen \in SUBSET Signals, w \in Weightings, raw \in Phrases \ {Blank}, filters \in FilterSets, ops \in QueryOps :
        route = [stage |-> "route", shown |-> seen, weights |-> w, raw |-> raw, filters |-> filters, own |-> filters, ops |-> ops,
                 variant |-> "", rewrites |-> << >>, hyde |-> << >>, subs |-> << >>, sent |-> << >>]
  BY DEF RoutingInit
<1>2. RouteShape
  BY <1>1 DEF RouteShape, Fields
<1>3. \A key \in DOMAIN filters : filters[key] = "query"
  BY DEF FilterSets
<1>4. FiltersKept
  BY <1>1, <1>3 DEF FiltersKept
<1>5. Texts(<< >>) /\ Range(<< >>) = {}
  BY DEF Texts, Range
<1>6. TextsNew
  BY <1>1, <1>5 DEF TextsNew
<1> QED BY <1>2, <1>4, <1>6 DEF RouteInv

LEMMA RouteStep == RouteInv /\ [RoutingNext]_route => RouteInv'
<1> SUFFICES ASSUME RouteInv, [RoutingNext]_route PROVE RouteInv'
  OBVIOUS
<1> USE DEF RouteInv
<1>0. DOMAIN route = Fields
  BY DEF RouteShape
<1>1. CASE Routed
  <2>1. PICK keys \in SUBSET FilterKeys :
          route' = [route EXCEPT !.stage = "transform", !.variant = Select(Decide(route.shown, route.weights)),
                                 !.filters = Merged([key \in keys |-> "router"], @)]
    BY <1>1 DEF Routed
  <2> DEFINE merged == Merged([key \in keys |-> "router"], route.filters)
  <2>2. /\ DOMAIN route' = Fields /\ route'.stage = "transform"
        /\ route'.shown = route.shown /\ route'.weights = route.weights /\ route'.own = route.own
        /\ route'.raw = route.raw /\ route'.rewrites = route.rewrites /\ route'.hyde = route.hyde
        /\ route'.subs = route.subs
        /\ route'.filters = merged
    <3> HIDE DEF merged
    <3>1. route' = [route EXCEPT !.stage = "transform", !.variant = Select(Decide(route.shown, route.weights)),
                                 !.filters = merged]
      BY <2>1 DEF merged
    <3> QED BY <1>0, <3>1 DEF Fields
  <2>3. \A key \in DOMAIN route.own : key \in DOMAIN merged /\ merged[key] = "query"
    BY DEF FiltersKept, Merged
  <2> HIDE DEF merged
  <2> QED BY <2>2, <2>3 DEF RouteShape, FiltersKept, TextsNew
<1>2. ASSUME NEW text \in Phrases, route.stage = "transform",
             route' = [route EXCEPT !.ops = Tail(@), !.rewrites = AddRewrite(@, route.raw, text)]
      PROVE  RouteInv'
  <2>1. /\ DOMAIN route' = Fields /\ route'.stage = route.stage /\ route'.sent = route.sent
        /\ route'.shown = route.shown /\ route'.weights = route.weights /\ route'.own = route.own
        /\ route'.raw = route.raw /\ route'.hyde = route.hyde
        /\ route'.subs = route.subs /\ route'.filters = route.filters
        /\ route'.rewrites = AddRewrite(route.rewrites, route.raw, text)
    BY <1>0, <1>2 DEF Fields
  <2>2. Texts(route'.rewrites) /\ route.raw \notin Range(route'.rewrites)
    <3>1. CASE text \in {Blank, route.raw} \cup Range(route.rewrites)
      BY <2>1, <3>1 DEF AddRewrite, TextsNew
    <3>2. CASE text \notin {Blank, route.raw} \cup Range(route.rewrites)
      <4>1. route'.rewrites = Append(route.rewrites, text)
        BY <2>1, <3>2 DEF AddRewrite
      <4> QED BY <3>2, <4>1, OneTextMore DEF TextsNew
    <3> QED BY <3>1, <3>2
  <2> QED BY <2>1, <2>2 DEF RouteShape, FiltersKept, TextsNew
<1>3. ASSUME NEW text \in Phrases, route.stage = "transform",
             route' = [route EXCEPT !.ops = Tail(@), !.hyde = AddHyde(@, text)]
      PROVE  RouteInv'
  <2>1. /\ DOMAIN route' = Fields /\ route'.stage = route.stage /\ route'.sent = route.sent
        /\ route'.shown = route.shown /\ route'.weights = route.weights /\ route'.own = route.own
        /\ route'.raw = route.raw /\ route'.rewrites = route.rewrites
        /\ route'.subs = route.subs /\ route'.filters = route.filters
        /\ route'.hyde = AddHyde(route.hyde, text)
    BY <1>0, <1>3 DEF Fields
  <2>2. Texts(route'.hyde)
    <3>1. CASE text \in {Blank} \cup Range(route.hyde)
      BY <2>1, <3>1 DEF AddHyde, TextsNew
    <3>2. CASE text \notin {Blank} \cup Range(route.hyde)
      <4>1. route'.hyde = Append(route.hyde, text)
        BY <2>1, <3>2 DEF AddHyde
      <4> QED BY <3>2, <4>1, OneTextMore DEF TextsNew
    <3> QED BY <3>1, <3>2
  <2> QED BY <2>1, <2>2 DEF RouteShape, FiltersKept, TextsNew
<1>4. ASSUME NEW lines \in SeqOf(Phrases, MaxLines), route.stage = "transform",
             route' = [route EXCEPT !.ops = Tail(@), !.subs = AddSubQueries(@, route.raw, lines)]
      PROVE  RouteInv'
  <2>1. /\ DOMAIN route' = Fields /\ route'.stage = route.stage /\ route'.sent = route.sent
        /\ route'.shown = route.shown /\ route'.weights = route.weights /\ route'.own = route.own
        /\ route'.raw = route.raw /\ route'.rewrites = route.rewrites
        /\ route'.hyde = route.hyde /\ route'.filters = route.filters
        /\ route'.subs = AddSubQueries(route.subs, route.raw, lines)
    BY <1>0, <1>4 DEF Fields
  <2> DEFINE new == NewOf(lines, {Blank})
  <2>2. lines \in Seq(Phrases)
    BY RoutingAssumption DEF SeqOf
  <2>3. new \in Seq(Phrases) /\ Blank \notin Range(new)
    <3>1. new \in Seq(Phrases) /\ \A n \in DOMAIN new : new[n] \notin {Blank}
      BY <2>2, NewOfIsNew
    <3> HIDE DEF new
    <3> QED BY <3>1 DEF Range
  <2>4. Texts(route'.subs)
    <3>1. route'.subs = IF new = << >> \/ new = <<route.raw>> THEN route.subs
                        ELSE route.subs \o NewOf(new, Range(route.subs))
      BY <2>1 DEF AddSubQueries
    <3> HIDE DEF new
    <3>2. Texts(route.subs \o NewOf(new, Range(route.subs)))
      BY <2>3, NewTextsMore DEF TextsNew
    <3> QED BY <3>1, <3>2 DEF TextsNew
  <2> QED BY <2>1, <2>4 DEF RouteShape, FiltersKept, TextsNew
<1>5. CASE Transform
  BY <1>2, <1>3, <1>4, <1>5 DEF Transform
<1>6. CASE Send
  <2> DEFINE sent == [dense |-> DenseText(route), sparse |-> route.raw,
                      filters |-> SearchFilters(route.filters, "session")]
  <2>1. route' = [route EXCEPT !.stage = "sent", !.sent = sent] /\ route.stage = "transform"
    BY <1>6 DEF Send
  <2>2. sent.filters = SearchFilters(route.filters, "session")
    OBVIOUS
  <2> HIDE DEF sent
  <2>3. /\ DOMAIN route' = Fields /\ route'.stage = "sent" /\ route'.sent = sent
        /\ route'.shown = route.shown /\ route'.weights = route.weights /\ route'.own = route.own
        /\ route'.raw = route.raw /\ route'.rewrites = route.rewrites /\ route'.hyde = route.hyde
        /\ route'.subs = route.subs /\ route'.filters = route.filters
    BY <1>0, <2>1 DEF Fields
  <2> QED BY <2>2, <2>3 DEF RouteShape, FiltersKept, TextsNew
<1>7. CASE UNCHANGED route
  BY <1>7 DEF RouteShape, FiltersKept, TextsNew
<1> QED BY <1>1, <1>5, <1>6, <1>7 DEF RoutingNext

LEMMA RouteSafe == RouteInv => RoutingSound
<1> SUFFICES ASSUME RouteInv PROVE RoutingSound
  OBVIOUS
<1> USE DEF RouteInv
<1>1. MoreSignsMoreLookup
  <2>1. route.shown \in SUBSET Signals /\ route.weights \in Weightings
    BY DEF RouteShape
  <2>2. ASSUME NEW s \in DciSigns, Decide(route.shown, route.weights) \in DciStrategies
        PROVE  Decide(route.shown \cup {s}, route.weights) \in DciStrategies
    BY <2>1, <2>2, SignsAdd, MoreLookupPicked DEF Decide
  <2> QED BY <2>2 DEF MoreSignsMoreLookup
<1>2. SessionDecides
  <2> SUFFICES ASSUME route.stage = "sent"
               PROVE  LET sent == route.sent.filters
                          trusted == DOMAIN route.own \ {"acl", "user_principals"} IN
                      /\ sent["acl"] = "session" /\ "user_principals" \notin DOMAIN sent
                      /\ \A key \in trusted : key \in DOMAIN sent /\ sent[key] = "query"
    BY DEF SessionDecides
  <2>1. route.sent.filters = SearchFilters(route.filters, "session")
    BY DEF FiltersKept
  <2> QED BY <2>1 DEF FiltersKept, SearchFilters
<1>3. ReformulationsNew
  <2> DEFINE all == route.rewrites \o route.hyde \o route.subs
  <2>1. /\ route.rewrites \in Seq(Phrases) /\ route.hyde \in Seq(Phrases) /\ route.subs \in Seq(Phrases)
        /\ Blank \notin Range(route.rewrites) /\ Blank \notin Range(route.hyde) /\ Blank \notin Range(route.subs)
    BY DEF TextsNew, Texts
  <2>2. Blank \notin Range(all)
    <3> DEFINE first == route.rewrites \o route.hyde
    <3>1. first \in Seq(Phrases)
      BY <2>1
    <3>2. Range(first) = Range(route.rewrites) \cup Range(route.hyde)
      BY <2>1, RangeConcatenation
    <3>3. all = first \o route.subs
      OBVIOUS
    <3> HIDE DEF first, all
    <3>4. Range(all) = Range(first) \cup Range(route.subs)
      BY <2>1, <3>1, <3>3, RangeConcatenation
    <3> QED BY <2>1, <3>2, <3>4
  <2> QED BY <2>2 DEF ReformulationsNew, TextsNew, Texts
<1> QED BY <1>1, <1>2, <1>3 DEF RoutingSound

\* However the router's weights are tuned and whatever a model makes of the query, a
\* further sign of a lookup never leads away from the corpus tools, the filters that
\* reach the index are the caller's session and the query's own, and every
\* reformulation is a new text.
THEOREM RoutingHolds == RoutingSpec => []RoutingSound
<1>1. RoutingSpec => []RouteInv
  BY RouteInit, RouteStep, PTL DEF RoutingSpec
<1> QED BY <1>1, RouteSafe, PTL
-----------------------------------------------------------------------------
(***************************************************************************)
(* Evaluation runs.  Tasks first: a context that is in a block, its own or *)
(* the one it was started in, has the mode set.                            *)
(***************************************************************************)

\* The values the mode was set to in a context, and the blocks around the context c:
\* its own, and those of the contexts of S it was started in.
Values(m) == m \in Seq(BOOLEAN) /\ Len(m) >= 1 /\ \A i \in 2 .. Len(m) : m[i] = TRUE

InBlocks(m, around, c, S) ==
  \A b \in around :
    /\ b = <<b[1], b[2]>> /\ b[1] \in S
    /\ b[1] = c => b[2] \in 1 .. Len(m) - 1
    /\ b[1] # c => m[1] = TRUE

FrozenInv ==
  /\ DOMAIN blocks = Started
  /\ \A c \in Started : Values(mode[c]) /\ InBlocks(mode[c], blocks[c], c, Started)
  /\ FrozenUnseen

\* Out of the mode there is no block around.
LEMMA InBlockEvolving ==
  ASSUME NEW m, Values(m), NEW around, NEW c, NEW S, InBlocks(m, around, c, S), around # {}
  PROVE  Last(m) = TRUE
<1> DEFINE n == Len(m)
<1>1. n \in Nat /\ n >= 1 /\ \A i \in 2 .. n : m[i] = TRUE
  BY DEF Values
<1>2. Last(m) = m[n]
  BY DEF Last
<1>3. PICK b \in around : (b[1] = c => b[2] \in 1 .. n - 1) /\ (b[1] # c => m[1] = TRUE)
  BY DEF InBlocks
<1> HIDE DEF n
<1>4. CASE n = 1
  BY <1>2, <1>3, <1>4
<1>5. CASE n # 1
  <2>1. n \in 2 .. n
    BY <1>1, <1>5
  <2> QED BY <1>1, <1>2, <2>1
<1> QED BY <1>4, <1>5

\* Into a block: the mode is set once more.
LEMMA IntoBlock ==
  ASSUME NEW m, Values(m), NEW around, NEW S, NEW c \in S, InBlocks(m, around, c, S)
  PROVE  /\ Values(Append(m, TRUE))
         /\ InBlocks(Append(m, TRUE), around \cup {<<c, Len(m)>>}, c, S)
<1> DEFINE n == Len(m)
           longer == Append(m, TRUE)
<1>1. m \in Seq(BOOLEAN) /\ n \in Nat /\ n >= 1 /\ \A i \in 2 .. n : m[i] = TRUE
  BY DEF Values
<1>2. /\ longer \in Seq(BOOLEAN) /\ Len(longer) = n + 1
      /\ \A i \in 1 .. n : longer[i] = m[i]
      /\ longer[n + 1] = TRUE
  <2> DEFINE B == BOOLEAN
             set == TRUE
  <2>1. set \in B /\ m \in Seq(B)
    BY <1>1
  <2> HIDE DEF B, set
  <2>2. /\ Append(m, set) \in Seq(B) /\ Len(Append(m, set)) = Len(m) + 1
        /\ \A i \in 1 .. Len(m) : Append(m, set)[i] = m[i]
        /\ Append(m, set)[Len(m) + 1] = set
    BY <2>1, AppendProperties
  <2> QED BY <2>2 DEF B, set
<1>3. \A b \in around : /\ b = <<b[1], b[2]>> /\ b[1] \in S
                        /\ b[1] = c => b[2] \in 1 .. n - 1
                        /\ b[1] # c => m[1] = TRUE
  BY DEF InBlocks
<1> HIDE DEF n, longer
<1>4. Values(longer)
  <2>1. \A i \in 2 .. n + 1 : i = n + 1 \/ (i \in 1 .. n /\ i \in 2 .. n)
    BY <1>1
  <2>2. \A i \in 2 .. Len(longer) : longer[i] = TRUE
    BY <1>1, <1>2, <2>1
  <2> QED BY <1>1, <1>2, <2>2 DEF Values
<1>5. longer[1] = m[1] /\ n \in 1 .. Len(longer) - 1 /\ \A k \in 1 .. n - 1 : k \in 1 .. Len(longer) - 1
  BY <1>1, <1>2
<1>6. <<c, n>> = <<<<c, n>>[1], <<c, n>>[2]>> /\ <<c, n>>[1] = c /\ <<c, n>>[2] = n
  OBVIOUS
<1>7. ASSUME NEW b \in around \cup {<<c, n>>}
      PROVE  /\ b = <<b[1], b[2]>> /\ b[1] \in S
             /\ b[1] = c => b[2] \in 1 .. Len(longer) - 1
             /\ b[1] # c => longer[1] = TRUE
  <2>1. CASE b = <<c, n>>
    BY <1>5, <1>6, <2>1
  <2>2. CASE b \in around
    BY <1>3, <1>5, <2>2
  <2> QED BY <1>7, <2>1, <2>2
<1>8. InBlocks(longer, around \cup {<<c, n>>}, c, S)
  BY <1>7 DEF InBlocks
<1> QED BY <1>4, <1>8 DEF n, longer

\* Out of a block: the value from before is back.
LEMMA OutOfBlock ==
  ASSUME NEW m, Values(m), NEW around, NEW S, NEW c \in S, InBlocks(m, around, c, S), Len(m) > 1
  PROVE  /\ Values(Front(m))
         /\ InBlocks(Front(m), around \ {<<c, Len(m) - 1>>}, c, S)
<1> DEFINE n == Len(m)
           shorter == Front(m)
<1>1. m \in Seq(BOOLEAN) /\ n \in Nat /\ n > 1 /\ \A i \in 2 .. n : m[i] = TRUE
  BY DEF Values
<1>2. /\ shorter \in Seq(BOOLEAN) /\ Len(shorter) = n - 1
      /\ \A i \in 1 .. n - 1 : shorter[i] = m[i]
  <2>1. shorter = SubSeq(m, 1, n - 1)
    BY DEF Front
  <2>2. \A i \in 1 .. n : m[i] \in BOOLEAN
    BY <1>1
  <2> HIDE DEF n, shorter
  <2>3. \A i \in 1 .. n - 1 : m[i] \in BOOLEAN
    <3>1. \A i \in 1 .. n - 1 : i \in 1 .. n
      BY <1>1
    <3> QED BY <2>2, <3>1
  <2>4. 1 \in Int /\ n - 1 \in Int
    BY <1>1
  <2>5. /\ SubSeq(m, 1, n - 1) \in Seq(BOOLEAN)
        /\ Len(SubSeq(m, 1, n - 1)) = IF 1 <= n - 1 THEN (n - 1) - 1 + 1 ELSE 0
        /\ \A i \in 1 .. (n - 1) - 1 + 1 : SubSeq(m, 1, n - 1)[i] = m[1 + i - 1]
    <3> DEFINE B == BOOLEAN
    <3>1. \A i \in 1 .. n - 1 : m[i] \in B
      BY <2>3
    <3> HIDE DEF B
    <3>2. /\ SubSeq(m, 1, n - 1) \in Seq(B)
          /\ Len(SubSeq(m, 1, n - 1)) = IF 1 <= n - 1 THEN (n - 1) - 1 + 1 ELSE 0
          /\ \A i \in 1 .. (n - 1) - 1 + 1 : SubSeq(m, 1, n - 1)[i] = m[1 + i - 1]
      BY <2>4, <3>1, SubSeqProperties
    <3> QED BY <3>2 DEF B
  <2>6. (n - 1) - 1 + 1 = n - 1 /\ 1 <= n - 1 /\ \A i \in 1 .. n - 1 : 1 + i - 1 = i
    BY <1>1
  <2> QED BY <2>1, <2>5, <2>6
<1>3. \A b \in around : /\ b = <<b[1], b[2]>> /\ b[1] \in S
                        /\ b[1] = c => b[2] \in 1 .. n - 1
                        /\ b[1] # c => m[1] = TRUE
  BY DEF InBlocks
<1> HIDE DEF n, shorter
<1>4. Values(shorter)
  <2>1. \A i \in 2 .. n - 1 : i \in 1 .. n - 1 /\ i \in 2 .. n
    BY <1>1
  <2>2. \A i \in 2 .. Len(shorter) : shorter[i] = TRUE
    BY <1>1, <1>2, <2>1
  <2>3. Len(shorter) >= 1
    BY <1>1, <1>2
  <2> QED BY <1>2, <2>2, <2>3 DEF Values
<1>5. shorter[1] = m[1] /\ \A k \in 1 .. n - 1 : k # n - 1 => k \in 1 .. Len(shorter) - 1
  BY <1>1, <1>2
<1>6. ASSUME NEW b \in around \ {<<c, n - 1>>}
      PROVE  /\ b = <<b[1], b[2]>> /\ b[1] \in S
             /\ b[1] = c => b[2] \in 1 .. Len(shorter) - 1
             /\ b[1] # c => shorter[1] = TRUE
  <2>1. /\ b = <<b[1], b[2]>> /\ b[1] \in S
        /\ b[1] = c => b[2] \in 1 .. n - 1
        /\ b[1] # c => m[1] = TRUE
    BY <1>3
  <2>2. ASSUME b[1] = c PROVE b[2] # n - 1
    BY <2>1, <2>2
  <2> QED BY <1>5, <2>1, <2>2
<1>7. InBlocks(shorter, around \ {<<c, n - 1>>}, c, S)
  BY <1>6 DEF InBlocks
<1> QED BY <1>4, <1>7 DEF n, shorter

\* A task that is started in a block has the mode set, and all of its blocks are the
\* starter's.
LEMMA StartedInBlock ==
  ASSUME NEW m, Values(m), NEW around, NEW c, NEW S, InBlocks(m, around, c, S), NEW new, new \notin S
  PROVE  Values(<<Last(m)>>) /\ InBlocks(<<Last(m)>>, around, new, S \cup {new})
<1> DEFINE value == Last(m)
<1>1. value \in BOOLEAN
  <2>1. Len(m) \in 1 .. Len(m) /\ m \in Seq(BOOLEAN)
    BY DEF Values
  <2> QED BY <2>1 DEF Last
<1>2. around # {} => value = TRUE
  BY InBlockEvolving
<1> HIDE DEF value
<1>3. /\ <<value>> \in Seq(BOOLEAN) /\ Len(<<value>>) = 1 /\ <<value>>[1] = value
      /\ 2 .. Len(<<value>>) = {}
  BY <1>1
<1>4. \A b \in around : b = <<b[1], b[2]>> /\ b[1] \in S /\ b[1] # new
  BY DEF InBlocks
<1>5. Values(<<value>>)
  <2>1. Len(<<value>>) >= 1
    BY <1>3
  <2> QED BY <1>3, <2>1 DEF Values
<1>6. InBlocks(<<value>>, around, new, S \cup {new})
  BY <1>2, <1>3, <1>4 DEF InBlocks
<1> QED BY <1>5, <1>6 DEF value

LEMMA FrozenInit == EvaluationInit => FrozenInv
<1> SUFFICES ASSUME EvaluationInit PROVE FrozenInv
  OBVIOUS
<1>1. /\ \A c \in Started : mode[c] = <<FALSE>> /\ blocks[c] = {}
      /\ DOMAIN blocks = Started /\ shown = {}
  BY DEF EvaluationInit, Started
<1>2. Values(<<FALSE>>)
  <2>1. <<FALSE>> \in Seq(BOOLEAN) /\ Len(<<FALSE>>) = 1
    OBVIOUS
  <2>2. 2 .. Len(<<FALSE>>) = {} /\ Len(<<FALSE>>) >= 1
    BY <2>1
  <2> QED BY <2>1, <2>2 DEF Values
<1>3. \A c, S : InBlocks(<<FALSE>>, {}, c, S)
  BY DEF InBlocks
<1> QED BY <1>1, <1>2, <1>3 DEF FrozenInv, FrozenUnseen

LEMMA FrozenStep == FrozenInv /\ [EvaluationNext]_evaluationVars => FrozenInv'
<1> SUFFICES ASSUME FrozenInv, [EvaluationNext]_evaluationVars PROVE FrozenInv'
  OBVIOUS
<1> USE DEF FrozenInv
<1>1. ASSUME UNCHANGED <<mode, blocks, shown>> PROVE FrozenInv'
  BY <1>1 DEF FrozenUnseen, Started
<1>2. ASSUME NEW c \in Contexts, Evolve(c) PROVE FrozenInv'
  <2>1. /\ c \in Started /\ UNCHANGED shown
        /\ mode' = [mode EXCEPT ![c] = Append(@, TRUE)]
        /\ blocks' = [blocks EXCEPT ![c] = @ \cup {<<c, Len(mode[c])>>}]
    BY <1>2 DEF Evolve
  <2>2. /\ Values(Append(mode[c], TRUE))
        /\ InBlocks(Append(mode[c], TRUE), blocks[c] \cup {<<c, Len(mode[c])>>}, c, Started)
    BY <2>1, IntoBlock
  <2>3. /\ Started' = Started /\ DOMAIN blocks' = Started
        /\ mode'[c] = Append(mode[c], TRUE) /\ blocks'[c] = blocks[c] \cup {<<c, Len(mode[c])>>}
        /\ \A d \in Started : d # c => mode'[d] = mode[d] /\ blocks'[d] = blocks[d]
    BY <2>1 DEF Started
  <2>4. ASSUME NEW d \in Started PROVE Values(mode'[d]) /\ InBlocks(mode'[d], blocks'[d], d, Started)
    BY <2>2, <2>3
  <2>5. FrozenUnseen'
    BY <2>1 DEF FrozenUnseen
  <2>6. \A d \in Started' : Values(mode'[d]) /\ InBlocks(mode'[d], blocks'[d], d, Started')
    BY <2>3, <2>4, Zenon
  <2> QED BY <2>3, <2>5, <2>6, Zenon
<1>3. ASSUME NEW c \in Contexts, EndEvolution(c) PROVE FrozenInv'
  <2>1. /\ c \in Started /\ UNCHANGED shown /\ Len(mode[c]) > 1
        /\ mode' = [mode EXCEPT ![c] = Front(@)]
        /\ blocks' = [blocks EXCEPT ![c] = @ \ {<<c, Len(mode[c]) - 1>>}]
    BY <1>3 DEF EndEvolution
  <2>2. /\ Values(Front(mode[c]))
        /\ InBlocks(Front(mode[c]), blocks[c] \ {<<c, Len(mode[c]) - 1>>}, c, Started)
    BY <2>1, OutOfBlock
  <2>3. /\ Started' = Started /\ DOMAIN blocks' = Started
        /\ mode'[c] = Front(mode[c]) /\ blocks'[c] = blocks[c] \ {<<c, Len(mode[c]) - 1>>}
        /\ \A d \in Started : d # c => mode'[d] = mode[d] /\ blocks'[d] = blocks[d]
    BY <2>1 DEF Started
  <2>4. ASSUME NEW d \in Started PROVE Values(mode'[d]) /\ InBlocks(mode'[d], blocks'[d], d, Started)
    BY <2>2, <2>3
  <2>5. FrozenUnseen'
    BY <2>1 DEF FrozenUnseen
  <2>6. \A d \in Started' : Values(mode'[d]) /\ InBlocks(mode'[d], blocks'[d], d, Started')
    BY <2>3, <2>4, Zenon
  <2> QED BY <2>3, <2>5, <2>6, Zenon
<1>4. ASSUME NEW c \in Contexts, LoadFrozen(c) PROVE FrozenInv'
  <2>1. /\ c \in Started /\ ~Evolving(c) /\ UNCHANGED <<mode, blocks>>
        /\ shown' = shown \cup {blocks[c]}
    BY <1>4 DEF LoadFrozen
  <2>2. blocks[c] = {}
    BY <2>1, InBlockEvolving DEF Evolving
  <2>3. FrozenUnseen'
    BY <2>1, <2>2 DEF FrozenUnseen
  <2> QED BY <2>1, <2>3 DEF Started
<1>5. ASSUME NEW c \in Contexts, NEW new \in Contexts, StartTask(c, new) PROVE FrozenInv'
  <2>1. /\ c \in Started /\ new \notin Started /\ UNCHANGED shown
        /\ mode' = [d \in Started \cup {new} |-> IF d = new THEN <<Evolving(c)>> ELSE mode[d]]
        /\ blocks' = [d \in Started \cup {new} |-> IF d = new THEN blocks[c] ELSE blocks[d]]
    BY <1>5 DEF StartTask
  <2>2. Values(<<Evolving(c)>>) /\ InBlocks(<<Evolving(c)>>, blocks[c], new, Started \cup {new})
    BY <2>1, StartedInBlock DEF Evolving
  <2>3. /\ Started' = Started \cup {new} /\ DOMAIN blocks' = Started \cup {new}
        /\ mode'[new] = <<Evolving(c)>> /\ blocks'[new] = blocks[c]
        /\ \A d \in Started : d # new /\ mode'[d] = mode[d] /\ blocks'[d] = blocks[d]
    BY <2>1 DEF Started
  <2>4. ASSUME NEW d \in Started PROVE InBlocks(mode[d], blocks[d], d, Started \cup {new})
    BY DEF InBlocks
  <2>5. ASSUME NEW d \in Started' PROVE Values(mode'[d]) /\ InBlocks(mode'[d], blocks'[d], d, Started')
    BY <2>2, <2>3, <2>4
  <2> QED BY <2>1, <2>3, <2>5 DEF FrozenUnseen
<1>6. CASE ReportNext
  BY <1>1, <1>6 DEF ReportNext, Report, Enter, Leave
<1>7. CASE UNCHANGED evaluationVars
  BY <1>1, <1>7 DEF evaluationVars
<1> QED BY <1>2, <1>3, <1>4, <1>5, <1>6, <1>7 DEF EvaluationNext, FrozenNext
-----------------------------------------------------------------------------
(***************************************************************************)
(* Reports.  A score depends on the ranking alone, so that whatever order  *)
(* the queries finish in, each has its own.                                *)
(***************************************************************************)

\* Every place is worth something.
LEMMA GainPositive ==
  ASSUME NEW places \in SUBSET (1 .. CutOff)
  PROVE  /\ IsFiniteSet(places) /\ Gain(places) \in Nat
         /\ \A i \in places : Discounts[i] >= 1 /\ Discounts[i] <= Gain(places)
<1>1. 1 \in Int /\ CutOff \in Int /\ Discounts \in [1 .. CutOff -> Nat] /\ \A i \in 1 .. CutOff : Discounts[i] >= 1
  BY EvaluationAssumption
<1>2. IsFiniteSet(1 .. CutOff)
  BY <1>1, FS_Interval
<1>3. IsFiniteSet(places)
  BY <1>2, FS_Subset
<1>4. Total(Discounts, places) \in Nat
  BY <1>1, <1>3, TotalNat
<1>5. ASSUME NEW i \in places PROVE Discounts[i] <= Total(Discounts, places)
  <2>1. Total(Discounts, places) = Total(Discounts, places \ {i}) + Discounts[i]
    BY <1>1, <1>3, TotalRemove
  <2>2. IsFiniteSet(places \ {i}) /\ places \ {i} \in SUBSET (1 .. CutOff)
    BY <1>3, FS_Subset
  <2>3. Total(Discounts, places \ {i}) \in Nat
    BY <1>1, <2>2, TotalNat
  <2> QED BY <1>1, <2>1, <2>3
<1> QED BY <1>1, <1>3, <1>4, <1>5 DEF Gain

\* The labels of a query, and the places an ideal ranking fills.
LEMMA TargetsCounted ==
  ASSUME NEW gold \in Range(Golds)
  PROVE  /\ Cardinality(gold.chunks) \in Nat /\ Cardinality(gold.docs) \in Nat
         /\ Targets(gold) \in Nat /\ Targets(gold) <= Whole
<1>1. IsFiniteSet(gold.chunks) /\ IsFiniteSet(gold.docs)
  BY EvaluationAssumption
<1>2. Cardinality(gold.chunks) \in Nat /\ Cardinality(gold.docs) \in Nat
  BY <1>1, FS_CardinalityType
<1> QED BY <1>2, EvaluationAssumption DEF Targets

Ideal(gold) == IF Targets(gold) < CutOff THEN Targets(gold) ELSE CutOff

LEMMA IdealGain ==
  ASSUME NEW gold \in Range(Golds), Targets(gold) # 0
  PROVE  /\ Ideal(gold) \in 1 .. CutOff
         /\ Gain(1 .. Ideal(gold)) \in Nat /\ Gain(1 .. Ideal(gold)) >= 1
<1>1. Targets(gold) \in Nat /\ CutOff \in Nat /\ CutOff >= 1
  BY TargetsCounted, EvaluationAssumption
<1>2. Ideal(gold) \in 1 .. CutOff
  BY <1>1 DEF Ideal
<1>3. 1 .. Ideal(gold) \in SUBSET (1 .. CutOff) /\ 1 \in 1 .. Ideal(gold)
  BY <1>1, <1>2
<1>4. /\ Gain(1 .. Ideal(gold)) \in Nat
      /\ Discounts[1] >= 1 /\ Discounts[1] <= Gain(1 .. Ideal(gold)) /\ Discounts[1] \in Nat
  BY <1>1, <1>3, GainPositive, EvaluationAssumption
<1> QED BY <1>2, <1>4

LEMMA NothingFound ==
  ASSUME NEW gold \in Range(Golds)
  PROVE  Recall(gold, << >>) = 0 /\ NDCG(gold, << >>) = 0 /\ ReciprocalRank(gold, << >>) = 0
<1>1. Targets(gold) \in Nat /\ Whole \in Nat
  BY TargetsCounted, EvaluationAssumption
<1>2. Len(<< >>) = 0 /\ DOMAIN << >> = {} /\ Range(<< >>) = {} /\ CutOff \in Nat \ {0}
  BY EvaluationAssumption DEF Range
<1>3. TopK(<< >>) = << >>
  <2>1. TopK(<< >>) = SubSeq(<< >>, 1, 0)
    BY <1>2 DEF TopK
  <2> QED BY <2>1, SubSeqEmpty
<1>4. HitTargets(gold, << >>) = 0
  <2> DEFINE a == gold.chunks \cap Range(<< >>)
             b == gold.docs \cap {DocOfChunk[c] : c \in Range(<< >>)}
  <2>1. a = {} /\ b = {}
    BY <1>2
  <2>2. HitTargets(gold, << >>) = Cardinality(a) + Cardinality(b)
    BY DEF HitTargets
  <2> HIDE DEF a, b
  <2>3. Cardinality(a) = 0 /\ Cardinality(b) = 0
    BY <2>1, FS_EmptySet
  <2> QED BY <2>2, <2>3
<1>5. Hits(gold, << >>) = {}
  BY <1>2 DEF Hits
<1>6. \A t \in Nat \ {0} : (0 * Whole) \div t = 0
  BY <1>1
<1>7. Recall(gold, << >>) = 0
  BY <1>1, <1>3, <1>4, <1>6 DEF Recall
<1>8. NDCG(gold, << >>) = 0
  <2>1. CASE Targets(gold) = 0
    BY <2>1 DEF NDCG
  <2>2. CASE Targets(gold) # 0
    <3>1. Gain({}) = 0
      BY TotalEmpty DEF Gain
    <3>2. NDCG(gold, << >>) = (0 * Whole) \div Gain(1 .. Ideal(gold))
      BY <1>3, <1>5, <2>2, <3>1 DEF NDCG, Ideal
    <3>3. Gain(1 .. Ideal(gold)) \in Nat \ {0}
      BY <2>2, IdealGain
    <3> QED BY <1>6, <3>2, <3>3
  <2> QED BY <2>1, <2>2
<1>9. ReciprocalRank(gold, << >>) = 0
  BY <1>5 DEF ReciprocalRank
<1> QED BY <1>7, <1>8, <1>9

-----------------------------------------------------------------------------
Answered == [state : {"done"}, failed : {FALSE}, ranking : Rankings, latency : Latencies]
Outcomes == {Waiting, Running, Failed} \cup Answered

\* Once there is a report nothing is under way any more.
ReportInv ==
  /\ running \in [Asked -> Outcomes]
  /\ report # << >> => /\ \A q \in Asked : running[q].state = "done"
                       /\ report = [q \in Asked |-> Score(q, running[q])]

LEMMA ReportInit == EvaluationInit => ReportInv
BY DEF EvaluationInit, ReportInv, Outcomes

LEMMA ReportStep == ReportInv /\ [EvaluationNext]_evaluationVars => ReportInv'
<1> SUFFICES ASSUME ReportInv, [EvaluationNext]_evaluationVars PROVE ReportInv'
  OBVIOUS
<1> USE DEF ReportInv
<1>1. ASSUME NEW q \in Asked, Enter(q) PROVE ReportInv'
  <2>1. /\ running[q] = Waiting /\ running' = [running EXCEPT ![q] = Running] /\ UNCHANGED report
    BY <1>1 DEF Enter
  <2>2. running[q].state = "waiting"
    BY <2>1 DEF Waiting
  <2>3. report = << >>
    BY <2>2
  <2>4. Running \in Outcomes
    BY DEF Outcomes
  <2> QED BY <2>1, <2>3, <2>4
<1>2. ASSUME NEW q \in Asked, Leave(q) PROVE ReportInv'
  <2>1. running[q] = Running /\ UNCHANGED report
    BY <1>2 DEF Leave
  <2>2. PICK outcome \in {Failed} \cup Answered : running' = [running EXCEPT ![q] = outcome]
    BY <1>2 DEF Leave, Answered
  <2>3. running[q].state = "running"
    BY <2>1 DEF Running
  <2>4. report = << >>
    BY <2>3
  <2>5. outcome \in Outcomes
    BY DEF Outcomes
  <2> QED BY <2>1, <2>2, <2>4, <2>5
<1>3. CASE Report
  <2>1. /\ Finished = Asked /\ UNCHANGED running
        /\ report' = [q \in Asked |-> Score(q, running[q])]
    BY <1>3 DEF Report
  <2>2. \A q \in Asked : running[q].state = "done"
    BY <2>1 DEF Finished
  <2> QED BY <2>1, <2>2
<1>4. CASE FrozenNext
  BY <1>4 DEF FrozenNext, Evolve, EndEvolution, LoadFrozen, StartTask
<1>5. CASE UNCHANGED evaluationVars
  BY <1>5 DEF evaluationVars
<1> QED BY <1>1, <1>2, <1>3, <1>4, <1>5 DEF EvaluationNext, ReportNext

\* What is in the report is the score of an answer or of a failure.
LEMMA Reported ==
  ASSUME ReportInv, report # << >>
  PROVE  /\ DOMAIN report = Asked /\ Asked = 1 .. Len(Golds) /\ Len(Golds) \in Nat /\ Len(report) = Len(Golds)
         /\ \A q \in Asked : /\ report[q] = Score(q, running[q])
                             /\ Golds[q] \in Range(Golds)
                             /\ running[q] = Failed \/ running[q] \in Answered
<1>1. Golds \in Seq(Range(Golds))
  BY EvaluationAssumption
<1>2. Asked = 1 .. Len(Golds) /\ Len(Golds) \in Nat
  BY <1>1 DEF Asked
<1>3. report = [q \in Asked |-> Score(q, running[q])]
  BY DEF ReportInv
<1>4. DOMAIN report = 1 .. Len(Golds) /\ \A q \in Asked : report[q] = Score(q, running[q])
  BY <1>2, <1>3
<1>5. Len(report) = Len(Golds)
  <2> DEFINE n == Len(Golds)
             score(q) == Score(q, running[q])
  <2>1. report = [q \in 1 .. n |-> score(q)] /\ n \in Nat
    BY <1>2, <1>3
  <2> HIDE DEF n, score
  <2>2. Len(report) = n
    BY <2>1
  <2> QED BY <2>2 DEF n
<1>6. ASSUME NEW q \in Asked PROVE running[q] = Failed \/ running[q] \in Answered
  <2>1. running[q] \in Outcomes /\ running[q].state = "done"
    BY DEF ReportInv
  <2>2. Waiting.state = "waiting" /\ Running.state = "running"
    BY DEF Waiting, Running
  <2> QED BY <2>1, <2>2 DEF Outcomes
<1>7. \A q \in Asked : Golds[q] \in Range(Golds)
  BY DEF Asked, Range
<1> QED BY <1>2, <1>4, <1>5, <1>6, <1>7

LEMMA ReportSafe == ReportInv => ReportComplete
<1> SUFFICES ASSUME ReportInv, report # << >> PROVE ReportComplete
  BY DEF ReportComplete
<1>1. ASSUME NEW q \in Asked PROVE report[q].query = q /\ report[q].failed = running[q].failed
  <2>1. report[q] = Score(q, running[q])
    BY Reported
  <2> QED BY <2>1 DEF Score
<1>2. ASSUME NEW q \in Asked, report[q].failed PROVE report[q].recall + report[q].ndcg + report[q].mrr = 0
  <2>1. running[q] = Failed \/ running[q] \in Answered
    BY Reported
  <2>2. running[q] \notin Answered
    BY <1>1, <1>2 DEF Answered
  <2>3. running[q].ranking = << >>
    BY <2>1, <2>2 DEF Failed
  <2>4. report[q] = Score(q, running[q]) /\ Golds[q] \in Range(Golds)
    BY Reported
  <2>5. /\ report[q].recall = Recall(Golds[q], << >>) /\ report[q].ndcg = NDCG(Golds[q], << >>)
        /\ report[q].mrr = ReciprocalRank(Golds[q], << >>)
    BY <2>3, <2>4 DEF Score
  <2> QED BY <2>4, <2>5, NothingFound
<1> QED BY <1>1, <1>2, Reported DEF ReportComplete

-----------------------------------------------------------------------------
\* The value at a rank in order has that many values within it, itself among them,
\* and fewer below.
LEMMA PercentileExact ==
  ASSUME NEW values \in Seq(Nat), values # << >>, NEW pct \in 1 .. 100
  PROVE  LET v == Percentile(values, pct) IN
         /\ Cardinality({i \in DOMAIN values : values[i] <= v}) * 100 >= pct * Len(values)
         /\ Cardinality({i \in DOMAIN values : values[i] < v}) * 100 < pct * Len(values)
<1> DEFINE S == DOMAIN values
           R == Sooner(values)
           order == InOrder(S, R)
           n == Len(values)
           rank == (pct * n + 99) \div 100
           v == Percentile(values, pct)
           within == {i \in S : values[i] <= v}
           below == {i \in S : values[i] < v}
<1>1. /\ S = 1 .. n /\ n \in Nat /\ n # 0 /\ S \subseteq Int
      /\ \A i \in S : values[i] \in Nat
  BY EmptySeq
<1>2. IsFiniteSet(S) /\ Cardinality(S) = n
  <2>1. 1 \in Int /\ n \in Int
    BY <1>1
  <2>2. /\ IsFiniteSet(1 .. n)
        /\ Cardinality(1 .. n) = IF 1 > n THEN 0 ELSE n - 1 + 1
    BY <2>1, FS_Interval
  <2>3. n >= 1 /\ n - 1 + 1 = n
    BY <1>1
  <2> HIDE DEF n, S
  <2> QED BY <1>1, <2>2, <2>3
<1>3. \A i, j \in S : <<i, j>> \in R <=> (values[i] < values[j] \/ (values[i] = values[j] /\ i < j))
  BY DEF Sooner
<1>4. v = values[order[IF rank < 1 THEN 1 ELSE rank]]
  BY DEF Percentile
<1> HIDE DEF S, R, n, v
<1>5. StrictOrder(S, R)
  <2>1. \A x \in S : <<x, x>> \notin R
    BY <1>1, <1>3
  <2>2. ASSUME NEW x \in S, NEW y \in S, NEW z \in S, <<x, y>> \in R, <<y, z>> \in R
        PROVE  <<x, z>> \in R
    <3>1. /\ x \in Int /\ y \in Int /\ z \in Int
          /\ values[x] \in Nat /\ values[y] \in Nat /\ values[z] \in Nat
      BY <1>1
    <3>2. values[x] < values[y] \/ (values[x] = values[y] /\ x < y)
      BY <1>3, <2>2
    <3>3. values[y] < values[z] \/ (values[y] = values[z] /\ y < z)
      BY <1>3, <2>2
    <3>4. values[x] < values[z] \/ (values[x] = values[z] /\ x < z)
      BY <3>1, <3>2, <3>3
    <3> QED BY <1>3, <3>4
  <2>3. \A x, y \in S : x # y => (<<x, y>> \in R \/ <<y, x>> \in R)
    BY <1>1, <1>3
  <2> QED BY <2>1, <2>2, <2>3 DEF StrictOrder
<1>6. Enumerates(order, S, R)
  BY <1>2, <1>5, InOrderEnumerates
<1> HIDE DEF order
<1>7. /\ \A m \in 1 .. n : order[m] \in S
      /\ \A i \in S : \E m \in 1 .. n : order[m] = i
      /\ \A k, m \in 1 .. n : k < m => <<order[k], order[m]>> \in R
      /\ \A k, m \in 1 .. n : k # m => order[k] # order[m]
  <2>1. order \in Seq(S) /\ Len(order) = n
    BY <1>2, <1>6 DEF Enumerates
  <2>2. \A m \in 1 .. n : order[m] \in S
    BY <2>1
  <2> QED BY <1>2, <1>6, <2>2 DEF Enumerates
<1>8. /\ rank \in 1 .. n /\ rank * 100 >= pct * n /\ (rank - 1) * 100 < pct * n
      /\ pct * n \in Nat
  <2> DEFINE a == pct * n
  <2>1. a \in Nat /\ a >= 1 /\ a <= 100 * n
    <3>1. pct \in Nat /\ pct >= 1 /\ pct <= 100 /\ n >= 1
      BY <1>1
    <3> QED BY <1>1, <3>1
  <2> HIDE DEF a
  <2>2. LET r == (a + 99) \div 100 IN r \in 1 .. n /\ r * 100 >= a /\ (r - 1) * 100 < a
    BY <1>1, <2>1
  <2> QED BY <2>1, <2>2 DEF a
<1> HIDE DEF rank
<1>9. v = values[order[rank]] /\ v \in Nat
  <2>1. ~(rank < 1)
    BY <1>1, <1>8
  <2>2. v = values[order[rank]]
    BY <1>4, <2>1
  <2> QED BY <1>1, <1>7, <1>8, <2>2
\* The places up to the rank are within, and only those before it are below.
<1>10. \A m \in 1 .. rank : order[m] \in within
  <2> SUFFICES ASSUME NEW m \in 1 .. rank PROVE order[m] \in within
    OBVIOUS
  <2>1. m \in 1 .. n /\ (m = rank \/ m < rank)
    BY <1>1, <1>8
  <2>2. values[order[m]] <= values[order[rank]]
    <3>1. /\ order[m] \in S /\ order[rank] \in S
          /\ values[order[m]] \in Nat /\ values[order[rank]] \in Nat
      BY <1>1, <1>7, <1>8, <2>1
    <3>2. CASE m = rank
      BY <3>1, <3>2
    <3>3. CASE m < rank
      <4>1. <<order[m], order[rank]>> \in R
        BY <1>7, <1>8, <2>1, <3>3
      <4>2. \/ values[order[m]] < values[order[rank]]
            \/ values[order[m]] = values[order[rank]]
        BY <1>3, <3>1, <4>1
      <4> QED BY <3>1, <4>2
    <3> QED BY <2>1, <3>2, <3>3
  <2> QED BY <1>7, <1>9, <2>1, <2>2
<1>11. \A i \in below : \E m \in 1 .. rank - 1 : order[m] = i
  <2> SUFFICES ASSUME NEW i \in below PROVE \E m \in 1 .. rank - 1 : order[m] = i
    OBVIOUS
  <2>1. PICK m \in 1 .. n : order[m] = i
    BY <1>7
  <2>2. values[order[m]] < values[order[rank]] /\ order[m] \in S /\ order[rank] \in S
    BY <1>7, <1>8, <1>9, <2>1
  <2>3. /\ values[order[m]] \in Nat /\ values[order[rank]] \in Nat
    BY <1>1, <2>2
  <2>4. m # rank
    BY <2>2, <2>3
  <2>5. ~(rank < m)
    <3>1. ASSUME rank < m PROVE FALSE
      <4>1. <<order[rank], order[m]>> \in R
        BY <1>7, <1>8, <3>1
      <4>2. \/ values[order[rank]] < values[order[m]]
            \/ values[order[rank]] = values[order[m]] /\ order[rank] < order[m]
        BY <1>3, <2>2, <4>1
      <4> HIDE DEF below, within
      <4> QED BY <2>2, <2>3, <4>2
    <3> QED BY <3>1
  <2>6. m \in 1 .. rank - 1
    BY <1>1, <1>8, <2>4, <2>5
  <2> QED BY <2>1, <2>6
<1>12. IsFiniteSet(within) /\ IsFiniteSet(below)
  BY <1>2, FS_Subset
<1>13. Cardinality(within) \in Nat /\ Cardinality(below) \in Nat
  BY <1>12, FS_CardinalityType
<1>14. Cardinality(within) >= rank
  <2> DEFINE f == [m \in 1 .. rank |-> order[m]]
  <2>1. \A k, m \in 1 .. rank : k # m => order[k] # order[m]
    <3>1. \A m \in 1 .. rank : m \in 1 .. n
      BY <1>1, <1>8
    <3> QED BY <1>7, <3>1
  <2>2. f \in Injection(1 .. rank, within)
    <3> HIDE DEF within
    <3> QED BY <1>10, <2>1 DEF Injection, IsInjective
  <2>3. Cardinality(1 .. rank) <= Cardinality(within)
    BY <1>12, <2>2, FS_Injection
  <2>4. Cardinality(1 .. rank) = rank
    <3>1. 1 \in Int /\ rank \in Int
      BY <1>8
    <3>2. Cardinality(1 .. rank) = IF 1 > rank THEN 0 ELSE rank - 1 + 1
      BY <3>1, FS_Interval
    <3> QED BY <1>8, <3>2
  <2> QED BY <2>3, <2>4
<1>15. Cardinality(below) <= rank - 1
  <2> DEFINE earlier == {order[m] : m \in 1 .. rank - 1}
             f == [m \in 1 .. rank - 1 |-> order[m]]
  <2>1. f \in Surjection(1 .. rank - 1, earlier)
    BY DEF Surjection
  <2>2. /\ IsFiniteSet(1 .. rank - 1) /\ Cardinality(1 .. rank - 1) = rank - 1
    <3>1. 1 \in Int /\ rank - 1 \in Int
      BY <1>8
    <3>2. /\ IsFiniteSet(1 .. rank - 1)
          /\ Cardinality(1 .. rank - 1) = IF 1 > rank - 1 THEN 0 ELSE (rank - 1) - 1 + 1
      BY <3>1, FS_Interval
    <3> QED BY <1>8, <3>2
  <2>3. IsFiniteSet(earlier) /\ Cardinality(earlier) <= rank - 1
    <3> HIDE DEF earlier, f
    <3> QED BY <2>1, <2>2, FS_Surjection
  <2>4. below \in SUBSET earlier
    BY <1>11
  <2> HIDE DEF earlier, below
  <2>5. Cardinality(below) <= Cardinality(earlier) /\ Cardinality(earlier) \in Nat
    BY <2>3, <2>4, FS_Subset, FS_CardinalityType
  <2> QED BY <1>8, <1>13, <2>3, <2>5 DEF below
<1>16. Cardinality(within) * 100 >= pct * n /\ Cardinality(below) * 100 < pct * n
  BY <1>8, <1>13, <1>14, <1>15
<1> QED BY <1>16 DEF n, v, S

LEMMA PercentilesSafe == ReportInv => PercentilesExact
<1> SUFFICES ASSUME ReportInv, report # << >> PROVE PercentilesExact
  BY DEF PercentilesExact
<1> DEFINE values == [i \in DOMAIN report |-> report[i].latency]
           n == Len(Golds)
<1>1. DOMAIN report = 1 .. n /\ n \in Nat /\ Asked = 1 .. n
  BY Reported
<1>2. ASSUME NEW i \in 1 .. n PROVE report[i].latency \in Nat
  <2>1. report[i] = Score(i, running[i]) /\ (running[i] = Failed \/ running[i] \in Answered)
    BY <1>1, Reported
  <2>2. report[i].latency = running[i].latency
    BY <2>1 DEF Score
  <2>3. CASE running[i] = Failed
    BY <2>2, <2>3 DEF Failed
  <2>4. CASE running[i] \in Answered
    BY <2>2, <2>4, EvaluationAssumption DEF Answered
  <2> QED BY <2>1, <2>3, <2>4
<1>3. values \in Seq(Nat)
  <2> HIDE DEF n
  <2>1. values \in [1 .. n -> Nat]
    BY <1>1, <1>2
  <2> HIDE DEF values
  <2> QED BY <1>1, <2>1
<1>4. values # << >>
  <2>1. n # 0
    <3>1. Len(report) = n /\ report \in Seq(Range(report))
      <4>1. report \in [1 .. n -> Range(report)]
        <5>1. report = [q \in Asked |-> Score(q, running[q])]
          BY DEF ReportInv
        <5> QED BY <1>1, <5>1 DEF Range
      <4> HIDE DEF n
      <4> QED BY <1>1, <4>1
    <3> HIDE DEF n
    <3> QED BY <3>1, EmptySeq
  <2>2. 1 \in DOMAIN values
    <3> HIDE DEF n
    <3> QED BY <1>1, <2>1
  <2> HIDE DEF values
  <2> QED BY <2>2
<1>5. \A pct \in {50, 95} : pct \in 1 .. 100
  OBVIOUS
<1> HIDE DEF values
<1>6. \A pct \in {50, 95} :
        LET v == Percentile(values, pct) IN
        /\ Cardinality({i \in DOMAIN values : values[i] <= v}) * 100 >= pct * Len(values)
        /\ Cardinality({i \in DOMAIN values : values[i] < v}) * 100 < pct * Len(values)
  BY <1>3, <1>4, <1>5, PercentileExact
<1> QED BY <1>6 DEF PercentilesExact, values
-----------------------------------------------------------------------------
(***************************************************************************)
(* The metrics of one query.                                               *)
(***************************************************************************)

LEMMA ProductMono ==
  ASSUME NEW a \in Nat, NEW b \in Nat, NEW c \in Nat, a <= b
  PROVE  a * c <= b * c /\ a * c \in Nat /\ b * c \in Nat
<1>1. PICK d \in Nat : b = a + d
  <2>1. b - a \in Nat /\ b = a + (b - a)
    OBVIOUS
  <2> QED BY <2>1
<1>2. b * c = a * c + d * c
  BY <1>1
<1>3. a * c \in Nat /\ d * c \in Nat
  OBVIOUS
<1> QED BY <1>2, <1>3

\* A share is more than nothing if the part reaches the whole it is divided by, and no
\* more than w if the part is no more than w times that.
LEMMA Shares ==
  ASSUME NEW a \in Nat, NEW b \in Nat \ {0}
  PROVE  /\ a \div b \in Nat
         /\ (a \div b) * b <= a
         /\ (a \div b) > 0 <=> a >= b
         /\ \A w \in Nat : a <= w * b => a \div b <= w
<1> DEFINE q == a \div b
<1>1. q \in Int /\ b * q <= a /\ a < b * q + b
  OBVIOUS
<1> HIDE DEF q
<1>2. q >= 0
  <2>1. ASSUME q <= 0 - 1 PROVE FALSE
    <3>1. 0 - q - 1 \in Nat /\ b * (0 - q - 1) \in Nat
      BY <1>1, <2>1
    <3>2. b * (0 - q - 1) = 0 - (b * q) - b
      BY <1>1
    <3>3. b * q \in Int
      BY <1>1
    <3> QED BY <1>1, <3>1, <3>2, <3>3
  <2> QED BY <1>1, <2>1
<1>3. q \in Nat /\ q * b <= a /\ a < q * b + b /\ q * b \in Nat
  <2>1. q \in Nat
    BY <1>1, <1>2
  <2>2. b * q = q * b /\ q * b \in Nat
    BY <2>1
  <2> QED BY <1>1, <2>1, <2>2
<1>4. q > 0 => a >= b
  <2>1. ASSUME q > 0 PROVE a >= b
    <3>1. 1 * b <= q * b
      BY <1>3, <2>1, ProductMono
    <3> QED BY <1>3, <3>1
  <2> QED BY <2>1
<1>5. a >= b => q > 0
  <2>1. ASSUME q = 0 PROVE a < b
    <3>1. q * b = 0
      BY <2>1
    <3> QED BY <1>3, <3>1
  <2> QED BY <1>3, <2>1
<1>6. ASSUME NEW w \in Nat, a <= w * b PROVE q <= w
  <2>1. ASSUME w + 1 <= q PROVE FALSE
    <3>1. (w + 1) * b <= q * b
      BY <1>3, <2>1, ProductMono
    <3>2. (w + 1) * b = w * b + b /\ w * b \in Nat
      OBVIOUS
    <3> QED BY <1>3, <1>6, <3>1, <3>2
  <2> QED BY <1>3, <2>1
<1> QED BY <1>3, <1>4, <1>5, <1>6 DEF q

\* Whole is a multiple of every place, and so none of them exceeds it.
LEMMA WholeOfPlaces ==
  ASSUME NEW i \in 1 .. CutOff
  PROVE  i <= Whole /\ (Whole \div i) * i = Whole
<1>1. Whole \in Nat \ {0} /\ i \in Nat \ {0}
  BY EvaluationAssumption
<1>2. Whole \div i \in Nat
  BY <1>1, Shares
<1>3. (Whole \div i) * i = Whole
  BY EvaluationAssumption
<1>4. Whole \div i > 0
  <2>1. ASSUME Whole \div i = 0 PROVE FALSE
    <3>1. (Whole \div i) * i = 0
      BY <1>1, <2>1
    <3> QED BY <1>1, <1>3, <3>1
  <2> QED BY <1>2, <2>1
<1>5. i <= Whole
  BY <1>1, <1>4, Shares
<1> QED BY <1>3, <1>5

\* Rankings have no chunk twice; a failed query's is empty.
Ranked(r) == r \in Seq(Range(r)) /\ \A i, j \in DOMAIN r : i # j => r[i] # r[j]

LEMMA TopPlain ==
  ASSUME NEW r, Ranked(r)
  PROVE  /\ Len(TopK(r)) \in 0 .. CutOff /\ DOMAIN TopK(r) = 1 .. Len(TopK(r))
         /\ r # << >> => Len(TopK(r)) >= 1
         /\ \A i \in DOMAIN TopK(r) : i \in DOMAIN r /\ TopK(r)[i] = r[i]
         /\ \A i \in DOMAIN r : i <= CutOff => i \in DOMAIN TopK(r)
<1> DEFINE n == IF Len(r) < CutOff THEN Len(r) ELSE CutOff
           top == TopK(r)
           T == Range(r)
<1>1. r \in Seq(T) /\ Len(r) \in Nat /\ DOMAIN r = 1 .. Len(r) /\ CutOff \in Nat /\ CutOff >= 1
  BY EvaluationAssumption DEF Ranked
<1>2. n \in Nat /\ n <= Len(r) /\ n <= CutOff /\ \A i \in 1 .. Len(r) : i <= CutOff => i \in 1 .. n
  BY <1>1
<1>3. r # << >> => n >= 1
  <2>1. r # << >> => Len(r) # 0
    BY <1>1, EmptySeq
  <2> QED BY <1>1, <2>1
<1>4. top = SubSeq(r, 1, n)
  BY DEF TopK
<1> HIDE DEF n, top, T
<1>5. \A i \in 1 .. n : i \in DOMAIN r /\ r[i] \in T
  <2>1. \A i \in 1 .. n : i \in 1 .. Len(r)
    BY <1>1, <1>2
  <2> QED BY <1>1, <2>1
<1>6. /\ top \in Seq(T) /\ Len(top) = n
      /\ \A i \in 1 .. n : top[i] = r[i]
  <2>1. 1 \in Int /\ n \in Int
    BY <1>2
  <2>2. /\ SubSeq(r, 1, n) \in Seq(T)
        /\ Len(SubSeq(r, 1, n)) = IF 1 <= n THEN n - 1 + 1 ELSE 0
        /\ \A i \in 1 .. n - 1 + 1 : SubSeq(r, 1, n)[i] = r[1 + i - 1]
    BY <1>5, <2>1, SubSeqProperties
  <2>3. (IF 1 <= n THEN n - 1 + 1 ELSE 0) = n /\ n - 1 + 1 = n /\ \A i \in 1 .. n : 1 + i - 1 = i
    BY <1>2
  <2> QED BY <1>4, <2>2, <2>3
<1>7. DOMAIN top = 1 .. n
  BY <1>6
<1> QED BY <1>1, <1>2, <1>3, <1>5, <1>6, <1>7 DEF top

\* A label is found among the first exactly if one of them is relevant; all that is
\* found was labelled.
LEMMA FoundLabels ==
  ASSUME NEW gold \in Range(Golds), NEW r, Ranked(r)
  PROVE  /\ HitTargets(gold, TopK(r)) \in Nat /\ HitTargets(gold, TopK(r)) <= Targets(gold)
         /\ HitTargets(gold, TopK(r)) > 0 <=> Hits(gold, TopK(r)) # {}
<1> DEFINE top == TopK(r)
           a == gold.chunks \cap Range(top)
           b == gold.docs \cap {DocOfChunk[c] : c \in Range(top)}
<1>1. IsFiniteSet(gold.chunks) /\ IsFiniteSet(gold.docs)
  BY EvaluationAssumption
<1>2. a \in SUBSET gold.chunks /\ b \in SUBSET gold.docs
  OBVIOUS
<1>3. HitTargets(gold, top) = Cardinality(a) + Cardinality(b)
  BY DEF HitTargets
<1>4. (a # {} \/ b # {}) <=> Hits(gold, top) # {}
  <2>1. (a # {} \/ b # {}) <=> \E c \in Range(top) : Relevant(gold, c)
    BY DEF Relevant
  <2>2. (\E c \in Range(top) : Relevant(gold, c)) <=> \E i \in DOMAIN top : Relevant(gold, top[i])
    <3> HIDE DEF top
    <3> QED BY DEF Range
  <2>3. Hits(gold, top) = {i \in DOMAIN top : Relevant(gold, top[i])}
    BY DEF Hits
  <2> HIDE DEF top, a, b
  <2> QED BY <2>1, <2>2, <2>3
<1> HIDE DEF a, b, top
<1>5. /\ IsFiniteSet(a) /\ IsFiniteSet(b)
      /\ Cardinality(a) <= Cardinality(gold.chunks) /\ Cardinality(b) <= Cardinality(gold.docs)
  BY <1>1, <1>2, FS_Subset
<1>6. /\ Cardinality(a) \in Nat /\ Cardinality(b) \in Nat
      /\ Cardinality(gold.chunks) \in Nat /\ Cardinality(gold.docs) \in Nat
      /\ Cardinality(a) = 0 <=> a = {}
      /\ Cardinality(b) = 0 <=> b = {}
  BY <1>1, <1>5, FS_CardinalityType, FS_EmptySet
<1>7. /\ HitTargets(gold, top) \in Nat /\ HitTargets(gold, top) <= Targets(gold)
      /\ HitTargets(gold, top) > 0 <=> (a # {} \/ b # {})
  BY <1>3, <1>5, <1>6 DEF Targets
<1> QED BY <1>4, <1>7 DEF top

\* The first places are worth the most: no places are worth more than the first as many.
LEMMA FirstPlacesBest ==
  ASSUME NEW places \in SUBSET (1 .. CutOff), NEW n \in 0 .. CutOff, Cardinality(places) <= n
  PROVE  Gain(places) <= Gain(1 .. n)
<1> DEFINE R == {p \in places \X places : p[1] < p[2]}
           Rank(i) == Cardinality(Ahead(places, R, i)) + 1
           U == Units(Discounts, places)
           V == Units(Discounts, 1 .. n)
           move == [u \in U |-> <<Rank(u[1]), u[2]>>]
<1>1. /\ CutOff \in Nat /\ n \in Nat /\ n <= CutOff /\ places \in SUBSET Int
      /\ Discounts \in [1 .. CutOff -> Nat]
      /\ \A i, j \in 1 .. CutOff : i < j => Discounts[i] > Discounts[j]
  BY EvaluationAssumption
<1>2. IsFiniteSet(places) /\ Cardinality(places) \in Nat
  BY GainPositive, FS_CardinalityType
<1>3. \A i, j \in places : <<i, j>> \in R <=> i < j
  OBVIOUS
<1> HIDE DEF R
<1>4. StrictOrder(places, R)
  BY <1>1, <1>3 DEF StrictOrder
<1>5. ASSUME NEW i \in places
      PROVE  Rank(i) \in 1 .. n /\ Rank(i) <= i
  <2> DEFINE ahead == Ahead(places, R, i)
  <2>1. ahead \in SUBSET (places \ {i}) /\ ahead \in SUBSET (1 .. i - 1) /\ i \in Int /\ i >= 1
    <3>1. i \in Int /\ i >= 1 /\ \A j \in places : j \in Int /\ j >= 1
      BY <1>1
    <3>2. \A j \in ahead : j \in places /\ j < i
      BY <1>3 DEF Ahead
    <3> HIDE DEF ahead
    <3>3. ASSUME NEW j \in ahead PROVE j \in 1 .. i - 1 /\ j # i
      <4>1. j \in Int /\ j >= 1 /\ j < i /\ i \in Int
        BY <3>1, <3>2
      <4> QED BY <4>1
    <3> QED BY <3>1, <3>2, <3>3
  <2>2. IsFiniteSet(places \ {i}) /\ Cardinality(places \ {i}) = Cardinality(places) - 1
    BY <1>2, FS_RemoveElement
  <2>3. IsFiniteSet(1 .. i - 1) /\ Cardinality(1 .. i - 1) = i - 1
    <3>1. 1 \in Int /\ i - 1 \in Int
      BY <2>1
    <3>2. /\ IsFiniteSet(1 .. i - 1)
          /\ Cardinality(1 .. i - 1) = IF 1 > i - 1 THEN 0 ELSE (i - 1) - 1 + 1
      BY <3>1, FS_Interval
    <3> QED BY <2>1, <3>2
  <2> HIDE DEF ahead
  <2>4. /\ IsFiniteSet(ahead) /\ Cardinality(ahead) <= Cardinality(places) - 1
        /\ Cardinality(ahead) <= i - 1
    <3>1. IsFiniteSet(ahead) /\ Cardinality(ahead) <= Cardinality(places \ {i})
      BY <2>1, <2>2, FS_Subset
    <3>2. Cardinality(ahead) <= Cardinality(1 .. i - 1)
      BY <2>1, <2>3, FS_Subset
    <3> QED BY <2>2, <2>3, <3>1, <3>2
  <2>5. Cardinality(ahead) \in Nat
    BY <2>4, FS_CardinalityType
  <2>6. Cardinality(ahead) + 1 \in 1 .. n /\ Cardinality(ahead) + 1 <= i
    BY <1>1, <1>2, <2>1, <2>4, <2>5
  <2> QED BY <2>6 DEF ahead
<1>6. ASSUME NEW i \in places, NEW j \in places, i < j PROVE Rank(i) # Rank(j)
  <2>1. <<i, j>> \in R
    BY <1>3, <1>6
  <2>2. Cardinality(Ahead(places, R, i)) < Cardinality(Ahead(places, R, j))
    BY <1>2, <1>4, <2>1, FewerAhead
  <2>3. Rank(i) \in Int /\ Rank(j) \in Int
    BY <1>5
  <2> DEFINE x == Cardinality(Ahead(places, R, i))
             y == Cardinality(Ahead(places, R, j))
  <2>4. x < y /\ x + 1 \in Int /\ y + 1 \in Int
    BY <2>2, <2>3
  <2>5. IsFiniteSet(Ahead(places, R, i)) /\ IsFiniteSet(Ahead(places, R, j))
    <3>1. Ahead(places, R, i) \in SUBSET places /\ Ahead(places, R, j) \in SUBSET places
      BY DEF Ahead
    <3> QED BY <1>2, <3>1, FS_Subset
  <2>6. x \in Nat /\ y \in Nat
    BY <2>5, FS_CardinalityType
  <2> HIDE DEF x, y
  <2>7. x + 1 # y + 1
    BY <2>4, <2>6
  <2> QED BY <2>7 DEF x, y
<1>7. \A i, j \in places : i # j => Rank(i) # Rank(j)
  <2>1. \A i, j \in places : i # j => (i < j \/ j < i)
    BY <1>1
  <2> QED BY <1>6, <2>1
<1> HIDE DEF Rank
\* A unit of a place is one of the place it moves forward to.
<1>8. \A u : u \in U <=> \E i \in places : u \in {i} \X (1 .. Discounts[i])
  BY DEF Units
<1>9. ASSUME NEW u \in U
      PROVE  u = <<u[1], u[2]>> /\ u[1] \in places /\ u[2] \in 1 .. Discounts[u[1]]
  BY <1>8
<1>10. ASSUME NEW u \in U PROVE <<Rank(u[1]), u[2]>> \in V
  <2>1. u[1] \in places /\ u[2] \in 1 .. Discounts[u[1]]
    BY <1>9
  <2>2. Rank(u[1]) \in 1 .. n /\ Rank(u[1]) <= u[1] /\ u[1] \in Int
    BY <1>1, <1>5, <2>1
  <2>3. Rank(u[1]) \in 1 .. CutOff /\ u[1] \in 1 .. CutOff
    BY <1>1, <2>1, <2>2
  <2>4. Discounts[u[1]] \in Nat /\ Discounts[Rank(u[1])] \in Nat
    BY <1>1, <2>3
  <2>5. Discounts[u[1]] <= Discounts[Rank(u[1])]
    <3>1. CASE Rank(u[1]) = u[1]
      BY <2>4, <3>1
    <3>2. CASE Rank(u[1]) # u[1]
      <4>1. Rank(u[1]) < u[1]
        BY <2>2, <2>3, <3>2
      <4>2. Discounts[Rank(u[1])] > Discounts[u[1]]
        BY <1>1, <2>3, <4>1
      <4> QED BY <2>4, <4>2
    <3> QED BY <3>1, <3>2
  <2>6. u[2] \in 1 .. Discounts[Rank(u[1])]
    BY <2>1, <2>4, <2>5
  <2> QED BY <2>2, <2>6 DEF Units
<1>11. IsFiniteSet(V)
  <2>1. IsFiniteSet(1 .. n) /\ 1 .. n \in SUBSET (1 .. CutOff)
    <3>1. 1 .. n \in SUBSET (1 .. CutOff)
      BY <1>1
    <3> QED BY <3>1, GainPositive
  <2> QED BY <1>1, <2>1, UnitsFinite
<1> HIDE DEF U, V
<1>12. move \in Injection(U, V)
  <2>1. move \in [U -> V]
    BY <1>10
  <2>2. ASSUME NEW u \in U, NEW w \in U, move[u] = move[w] PROVE u = w
    <3>1. move[u] = <<Rank(u[1]), u[2]>> /\ move[w] = <<Rank(w[1]), w[2]>>
      OBVIOUS
    <3>2. Rank(u[1]) = Rank(w[1]) /\ u[2] = w[2]
      BY <2>2, <3>1
    <3>3. u[1] = w[1]
      BY <1>7, <1>9, <3>2
    <3> QED BY <1>9, <3>2, <3>3
  <2> HIDE DEF move
  <2> QED BY <2>1, <2>2 DEF Injection, IsInjective
<1>13. Cardinality(U) <= Cardinality(V)
  BY <1>11, <1>12, FS_Injection
<1> QED BY <1>13 DEF U, V, Gain, Total
\* With labels of chunks only, no more places are hits than there are labels.
LEMMA HitsLabelled ==
  ASSUME NEW gold \in Range(Golds), NEW r, Ranked(r), gold.docs = {}
  PROVE  Cardinality(Hits(gold, TopK(r))) <= Cardinality(gold.chunks)
<1> DEFINE top == TopK(r)
           hits == Hits(gold, top)
           f == [i \in hits |-> top[i]]
<1>1. IsFiniteSet(gold.chunks)
  BY EvaluationAssumption
<1>2. \A i \in hits : i \in DOMAIN top /\ top[i] \in gold.chunks
  BY DEF Hits, Relevant
<1>3. \A i, j \in DOMAIN top : i # j => top[i] # top[j]
  BY TopPlain DEF Ranked
<1> HIDE DEF top, hits
<1>4. f \in Injection(hits, gold.chunks)
  BY <1>2, <1>3 DEF Injection, IsInjective
<1>5. Cardinality(hits) <= Cardinality(gold.chunks)
  BY <1>1, <1>4, FS_Injection
<1> QED BY <1>5 DEF hits, top

\* The metrics of a ranking, told by whether a hit is among the first.
LEMMA MetricsTell ==
  ASSUME NEW gold \in Range(Golds), NEW r, Ranked(r)
  PROVE  LET found == Hits(gold, TopK(r)) # {} IN
         /\ HitRate(gold, r) = Whole <=> found
         /\ Recall(gold, r) > 0 <=> found
         /\ Precision(gold, r) > 0 <=> found
         /\ NDCG(gold, r) > 0 <=> found
         /\ ReciprocalRank(gold, r) * CutOff >= Whole <=> found
         /\ Recall(gold, r) <= Whole /\ Precision(gold, r) <= Whole
         /\ gold.docs = {} => NDCG(gold, r) <= Whole
<1> DEFINE top == TopK(r)
           H == Hits(gold, top)
           HR == Hits(gold, r)
           t == Targets(gold)
           h == HitTargets(gold, top)
           c == Cardinality(H)
           n == Len(top)
           k == Ideal(gold)
<1>0. Whole \in Nat /\ Whole >= 1 /\ CutOff \in Nat /\ CutOff >= 1 /\ CutOff <= Whole
  <2>1. Whole \in Nat /\ Whole >= 1 /\ CutOff \in Nat /\ CutOff >= 1
    BY EvaluationAssumption
  <2>2. CutOff \in 1 .. CutOff
    BY <2>1
  <2> QED BY <2>1, <2>2, WholeOfPlaces
<1>1. /\ n \in 0 .. CutOff /\ DOMAIN top = 1 .. n
      /\ r # << >> => n >= 1
      /\ \A i \in DOMAIN top : i \in DOMAIN r /\ top[i] = r[i]
      /\ \A i \in DOMAIN r : i <= CutOff => i \in DOMAIN top
      /\ DOMAIN r \subseteq Nat
  <2>1. DOMAIN r = 1 .. Len(r) /\ Len(r) \in Nat
    BY DEF Ranked
  <2>2. DOMAIN r \subseteq Nat
    BY <2>1
  <2> QED BY <2>2, TopPlain
<1>2. t \in Nat /\ t <= Whole /\ h \in Nat /\ h <= t /\ (h > 0 <=> H # {})
  BY TargetsCounted, FoundLabels
<1>3. H \in SUBSET (1 .. n) /\ H \in SUBSET (1 .. CutOff)
  <2>1. H \in SUBSET (DOMAIN top)
    BY DEF Hits
  <2> HIDE DEF H, n, top
  <2> QED BY <1>0, <1>1, <2>1
<1>4. IsFiniteSet(H) /\ c \in Nat /\ c <= n /\ (c = 0 <=> H = {})
  <2>1. IsFiniteSet(1 .. n) /\ Cardinality(1 .. n) = n
    <3> HIDE DEF n
    <3>1. 1 \in Int /\ n \in Int
      BY <1>0, <1>1
    <3>2. IsFiniteSet(1 .. n) /\ Cardinality(1 .. n) = IF 1 > n THEN 0 ELSE n - 1 + 1
      BY <3>1, FS_Interval
    <3> QED BY <1>0, <1>1, <3>2
  <2> HIDE DEF H, n
  <2>2. IsFiniteSet(H) /\ Cardinality(H) <= n
    BY <1>3, <2>1, FS_Subset
  <2> QED BY <2>2, FS_CardinalityType, FS_EmptySet
<1>5. H = {i \in HR : i <= CutOff} /\ HR \subseteq Nat
  <2>1. H = {i \in DOMAIN top : Relevant(gold, top[i])} /\ HR = {i \in DOMAIN r : Relevant(gold, r[i])}
    BY DEF Hits
  <2>2. \A i \in DOMAIN top : i <= CutOff
    <3> HIDE DEF top, n
    <3> QED BY <1>0, <1>1
  <2> HIDE DEF H, HR, top, n
  <2>3. \A i \in HR : i \in DOMAIN r /\ Relevant(gold, r[i])
    BY <2>1
  <2>4. \A i \in H : i \in HR /\ i <= CutOff
    BY <1>1, <2>1, <2>2
  <2>5. \A i \in HR : i <= CutOff => i \in H
    BY <1>1, <2>1
  <2> QED BY <1>1, <2>3, <2>4, <2>5
<1>6. HitRate(gold, r) = Whole <=> H # {}
  <2>1. HitRate(gold, r) = IF H # {} THEN Whole ELSE 0
    BY DEF HitRate
  <2> HIDE DEF H
  <2> QED BY <1>0, <2>1
<1>7. (Recall(gold, r) > 0 <=> H # {}) /\ Recall(gold, r) <= Whole
  <2>1. Recall(gold, r) = IF t = 0 THEN 0 ELSE (h * Whole) \div t
    BY DEF Recall
  <2> HIDE DEF H, h, t
  <2>2. CASE t = 0
    BY <1>0, <1>2, <2>1, <2>2
  <2>3. CASE t # 0
    <3>1. t \in Nat \ {0} /\ h * Whole \in Nat
      BY <1>0, <1>2, <2>3
    <3>2. Recall(gold, r) = (h * Whole) \div t
      BY <2>1, <2>3
    <3>3. (h * Whole) \div t > 0 <=> h * Whole >= t
      BY <3>1, Shares
    <3>4. h > 0 => h * Whole >= t
      <4>1. ASSUME h > 0 PROVE h * Whole >= t
        <5>1. 1 * Whole <= h * Whole
          BY <1>0, <1>2, <4>1, ProductMono
        <5> QED BY <1>0, <1>2, <3>1, <5>1
      <4> QED BY <4>1
    <3>5. h = 0 => ~(h * Whole >= t)
      <4>1. ASSUME h = 0 PROVE h * Whole = 0
        BY <1>0, <4>1
      <4> QED BY <3>1, <4>1
    <3>6. h * Whole <= Whole * t
      <4>1. h * Whole <= t * Whole
        BY <1>0, <1>2, ProductMono
      <4>2. t * Whole = Whole * t
        BY <1>0, <1>2
      <4> QED BY <4>1, <4>2
    <3>7. (h * Whole) \div t <= Whole
      BY <1>0, <3>1, <3>6, Shares
    <3> QED BY <1>2, <3>2, <3>3, <3>4, <3>5, <3>7
  <2> QED BY <2>2, <2>3
<1>8. (Precision(gold, r) > 0 <=> H # {}) /\ Precision(gold, r) <= Whole
  <2>1. Precision(gold, r) = IF r = << >> THEN 0 ELSE (c * Whole) \div n
    BY DEF Precision
  <2>2. CASE r = << >>
    <3>1. DOMAIN r = {}
      BY <2>2
    <3>2. H = {}
      <4> HIDE DEF H, top, n
      <4> QED BY <1>1, <1>3, <3>1
    <3> HIDE DEF H, c, n
    <3> QED BY <1>0, <2>1, <2>2, <3>2
  <2>3. CASE r # << >>
    <3> HIDE DEF H, c, n, top
    <3>1. n \in Nat \ {0} /\ n <= Whole /\ c * Whole \in Nat
      BY <1>0, <1>1, <1>4, <2>3
    <3>2. Precision(gold, r) = (c * Whole) \div n
      BY <2>1, <2>3
    <3>3. (c * Whole) \div n > 0 <=> c * Whole >= n
      BY <3>1, Shares
    <3>4. c > 0 => c * Whole >= n
      <4>1. ASSUME c > 0 PROVE c * Whole >= n
        <5>1. 1 * Whole <= c * Whole
          BY <1>0, <1>4, <4>1, ProductMono
        <5> QED BY <1>0, <3>1, <5>1
      <4> QED BY <4>1
    <3>5. c = 0 => ~(c * Whole >= n)
      <4>1. ASSUME c = 0 PROVE c * Whole = 0
        BY <1>0, <4>1
      <4> QED BY <3>1, <4>1
    <3>6. c * Whole <= Whole * n
      <4>1. c * Whole <= n * Whole
        BY <1>0, <1>4, <3>1, ProductMono
      <4>2. n * Whole = Whole * n
        BY <1>0, <3>1
      <4> QED BY <4>1, <4>2
    <3>7. (c * Whole) \div n <= Whole
      BY <1>0, <3>1, <3>6, Shares
    <3> QED BY <1>4, <3>2, <3>3, <3>4, <3>5, <3>7
  <2> QED BY <2>2, <2>3
<1>9. (NDCG(gold, r) > 0 <=> H # {}) /\ (gold.docs = {} => NDCG(gold, r) <= Whole)
  <2> DEFINE g == Gain(H)
             best == Gain(1 .. k)
  <2>1. NDCG(gold, r) = IF t = 0 THEN 0 ELSE (g * Whole) \div best
    BY DEF NDCG, Ideal
  <2>2. CASE t = 0
    <3> HIDE DEF t, h, H
    <3> QED BY <1>0, <1>2, <2>1, <2>2
  <2>3. CASE t # 0
    <3>1. k \in 1 .. CutOff /\ best \in Nat /\ best >= 1
      BY <2>3, IdealGain
    <3>2. g \in Nat /\ g * Whole \in Nat
      <4>1. g \in Nat
        BY <1>3, GainPositive
      <4> HIDE DEF g
      <4> QED BY <1>0, <4>1
    <3>3. NDCG(gold, r) = (g * Whole) \div best
      BY <2>1, <2>3
    <3>4. ASSUME H # {} PROVE g * Whole >= best
      <4>1. PICK i \in H : TRUE
        BY <3>4
      <4>2. i \in 1 .. CutOff /\ Discounts[i] \in Nat /\ Discounts[i] * Whole >= Total(Discounts, 1 .. CutOff)
        BY <1>3, EvaluationAssumption
      <4>3. Discounts[i] <= g
        BY <1>3, GainPositive
      <4> DEFINE d == Discounts[i]
                 all == Total(Discounts, 1 .. CutOff)
      <4>4. d * Whole <= g * Whole /\ d * Whole \in Nat
        <5> HIDE DEF g
        <5> QED BY <1>0, <3>2, <4>2, <4>3, ProductMono
      <4>5. best <= all
        <5>1. 1 .. k \in SUBSET (1 .. CutOff) /\ CutOff \in 0 .. CutOff
          <6> HIDE DEF k
          <6> QED BY <1>0, <3>1
        <5>2. Cardinality(1 .. k) <= CutOff
          <6> HIDE DEF k
          <6>1. 1 \in Int /\ k \in Int
            BY <1>0, <3>1
          <6>2. Cardinality(1 .. k) = IF 1 > k THEN 0 ELSE k - 1 + 1
            BY <6>1, FS_Interval
          <6> QED BY <1>0, <3>1, <6>2
        <5>3. Gain(1 .. k) <= Gain(1 .. CutOff)
          BY <5>1, <5>2, FirstPlacesBest
        <5> QED BY <5>3 DEF Gain
      <4>6. all \in Nat
        <5>1. 1 .. CutOff \in SUBSET (1 .. CutOff)
          OBVIOUS
        <5> QED BY <5>1, GainPositive DEF Gain
      <4>7. d * Whole >= all
        BY <4>2
      <4> HIDE DEF g, best, d, all
      <4> QED BY <3>1, <3>2, <4>4, <4>5, <4>6, <4>7
    <3>5. ASSUME H = {} PROVE ~(g * Whole >= best)
      <4>1. g = 0
        BY <3>5, TotalEmpty DEF Gain
      <4> HIDE DEF g, best
      <4>2. g * Whole = 0
        BY <1>0, <4>1
      <4> QED BY <3>1, <4>2
    <3>6. (g * Whole) \div best > 0 <=> g * Whole >= best
      <4> HIDE DEF g, best
      <4> QED BY <3>1, <3>2, Shares
    <3>7. ASSUME gold.docs = {} PROVE (g * Whole) \div best <= Whole
      <4>1. c <= k
        <5>1. Cardinality(gold.docs) = 0
          BY <3>7, FS_EmptySet
        <5>2. c <= Cardinality(gold.chunks)
          BY <3>7, HitsLabelled
        <5>3. t = Cardinality(gold.chunks)
          BY <5>1, TargetsCounted DEF Targets
        <5>4. k = IF t < CutOff THEN t ELSE CutOff
          BY DEF Ideal
        <5> HIDE DEF c, t, k, n
        <5> QED BY <1>0, <1>1, <1>4, <5>2, <5>3, <5>4
      <4>2. k \in 0 .. CutOff
        <5> HIDE DEF k
        <5> QED BY <3>1
      <4>3. g <= best
        <5> HIDE DEF H, k
        <5> QED BY <1>3, <4>1, <4>2, FirstPlacesBest
      <4> HIDE DEF g, best
      <4>4. g * Whole <= best * Whole
        BY <1>0, <3>1, <3>2, <4>3, ProductMono
      <4>5. best * Whole = Whole * best
        BY <1>0, <3>1
      <4>6. g * Whole <= Whole * best /\ best \in Nat \ {0}
        BY <3>1, <4>4, <4>5
      <4> QED BY <1>0, <3>2, <4>6, Shares
    <3> HIDE DEF g, best, H
    <3> QED BY <3>3, <3>4, <3>5, <3>6, <3>7
  <2> QED BY <2>2, <2>3
<1>10. ReciprocalRank(gold, r) * CutOff >= Whole <=> H # {}
  <2> DEFINE m == Min(HR)
  <2>1. ReciprocalRank(gold, r) = IF HR = {} THEN 0 ELSE Whole \div m
    BY DEF ReciprocalRank
  <2>2. CASE HR = {}
    <3>1. H = {}
      BY <1>5, <2>2
    <3>2. ReciprocalRank(gold, r) * CutOff = 0
      BY <1>0, <2>1, <2>2
    <3> HIDE DEF H
    <3> QED BY <1>0, <3>1, <3>2
  <2>3. CASE HR # {}
    <3>1. m \in HR /\ \A i \in HR : m <= i
      <4>1. IsFiniteSet(HR)
        <5>1. HR \in SUBSET (1 .. Len(r)) /\ 1 \in Int /\ Len(r) \in Int
          BY DEF Hits, Ranked
        <5>2. IsFiniteSet(1 .. Len(r))
          BY <5>1, FS_Interval
        <5> HIDE DEF HR
        <5> QED BY <5>1, <5>2, FS_Subset
      <4>2. HR \in SUBSET Int
        BY <1>5
      <4> HIDE DEF HR
      <4> QED BY <2>3, <4>1, <4>2, FiniteMin
    <3>2. m \in Nat /\ m >= 1
      <4>1. HR \in SUBSET (1 .. Len(r)) /\ Len(r) \in Nat
        BY DEF Hits, Ranked
      <4> HIDE DEF HR, m
      <4>2. m \in 1 .. Len(r)
        BY <3>1, <4>1
      <4> QED BY <4>1, <4>2
    <3> DEFINE q == Whole \div m
    <3>3. ReciprocalRank(gold, r) = q
      BY <2>1, <2>3
    <3>4. H # {} <=> m <= CutOff
      <4> HIDE DEF m, H, HR
      <4>1. m <= CutOff => H # {}
        BY <1>5, <3>1
      <4>2. ASSUME NEW i \in H PROVE m <= CutOff
        <5>1. i \in HR /\ i <= CutOff /\ i \in Nat
          BY <1>5
        <5>2. m <= i
          BY <3>1, <5>1
        <5> QED BY <1>0, <3>2, <5>1, <5>2
      <4> QED BY <4>1, <4>2
    <3> HIDE DEF m
    <3>5. q \in Nat /\ q * m <= Whole
      BY <1>0, <3>2, Shares
    <3>6. ASSUME m <= CutOff PROVE q * CutOff >= Whole
      <4>1. m \in 1 .. CutOff
        BY <1>0, <3>2, <3>6
      <4>2. q * m = Whole
        BY <4>1, WholeOfPlaces
      <4> HIDE DEF q
      <4>3. m * q <= CutOff * q
        BY <1>0, <3>2, <3>5, <3>6, ProductMono
      <4>4. m * q = q * m /\ CutOff * q = q * CutOff
        BY <1>0, <3>2, <3>5
      <4> QED BY <4>2, <4>3, <4>4
    <3>7. ASSUME ~(m <= CutOff) PROVE ~(q * CutOff >= Whole)
      <4> HIDE DEF q
      <4>1. CASE q = 0
        <5>1. q * CutOff = 0
          BY <1>0, <4>1
        <5> QED BY <1>0, <5>1
      <4>2. CASE q # 0
        <5>1. CutOff + 1 <= m /\ CutOff + 1 \in Nat
          BY <1>0, <3>2, <3>7
        <5>2. (CutOff + 1) * q <= m * q
          BY <3>2, <3>5, <5>1, ProductMono
        <5>3. (CutOff + 1) * q = q * CutOff + q /\ m * q = q * m
              /\ q * CutOff \in Nat /\ q * m \in Nat
          BY <1>0, <3>2, <3>5
        <5>4. q >= 1
          BY <3>5, <4>2
        <5> QED BY <1>0, <3>5, <5>2, <5>3, <5>4
      <4> QED BY <4>1, <4>2
    <3> QED BY <3>3, <3>4, <3>6, <3>7
  <2> QED BY <2>2, <2>3
<1> QED BY <1>6, <1>7, <1>8, <1>9, <1>10

LEMMA MetricsSafe == ReportInv => MetricsAgree
<1> SUFFICES ASSUME ReportInv, NEW i \in DOMAIN report
             PROVE  LET s == report[i] IN
                    /\ \A v \in {s.recall, s.precision, s.ndcg} : v > 0 <=> s.hit = Whole
                    /\ s.hit = Whole <=> s.mrr * CutOff >= Whole
                    /\ s.recall <= Whole /\ s.precision <= Whole /\ (Golds[i].docs = {} => s.ndcg <= Whole)
  BY DEF MetricsAgree
<1> DEFINE gold == Golds[i]
           r == running[i].ranking
<1>1. report # << >>
  OBVIOUS
<1>2. i \in Asked /\ report[i] = Score(i, running[i]) /\ gold \in Range(Golds)
      /\ (running[i] = Failed \/ running[i] \in Answered)
  BY <1>1, Reported
<1>3. Ranked(r)
  <2>1. CASE running[i] = Failed
    <3>1. r = << >>
      BY <2>1 DEF Failed
    <3> HIDE DEF r
    <3>2. << >> \in Seq(Range(<< >>)) /\ DOMAIN << >> = {}
      OBVIOUS
    <3> QED BY <3>1, <3>2 DEF Ranked
  <2>2. CASE running[i] \in Answered
    <3>1. r \in Rankings
      BY <2>2 DEF Answered
    <3> QED BY <3>1, EvaluationAssumption DEF Ranked
  <2> QED BY <1>2, <2>1, <2>2
<1>4. /\ report[i].recall = Recall(gold, r) /\ report[i].precision = Precision(gold, r)
      /\ report[i].ndcg = NDCG(gold, r) /\ report[i].mrr = ReciprocalRank(gold, r)
      /\ report[i].hit = HitRate(gold, r)
  BY <1>2 DEF Score
<1> HIDE DEF r
<1>5. /\ HitRate(gold, r) = Whole <=> Hits(gold, TopK(r)) # {}
      /\ Recall(gold, r) > 0 <=> Hits(gold, TopK(r)) # {}
      /\ Precision(gold, r) > 0 <=> Hits(gold, TopK(r)) # {}
      /\ NDCG(gold, r) > 0 <=> Hits(gold, TopK(r)) # {}
      /\ ReciprocalRank(gold, r) * CutOff >= Whole <=> Hits(gold, TopK(r)) # {}
      /\ Recall(gold, r) <= Whole /\ Precision(gold, r) <= Whole
      /\ gold.docs = {} => NDCG(gold, r) <= Whole
  BY <1>2, <1>3, MetricsTell
<1> QED BY <1>4, <1>5

\* However queries fail and finish and tasks nest, the report has each query in its
\* place with its own outcome, its metrics agree on whether there was a hit, its
\* percentiles are exact, and no task under evolution sees the frozen split.
THEOREM EvaluationHolds == EvaluationSpec => []EvaluationSound
<1>1. ReportInv /\ FrozenInv => EvaluationSound
  BY ReportSafe, PercentilesSafe, MetricsSafe DEF EvaluationSound, FrozenInv
<1>2. EvaluationSpec => []ReportInv
  BY ReportInit, ReportStep, PTL DEF EvaluationSpec
<1>3. EvaluationSpec => []FrozenInv
  BY FrozenInit, FrozenStep, PTL DEF EvaluationSpec
<1> QED BY <1>1, <1>2, <1>3, PTL

-----------------------------------------------------------------------------
(***************************************************************************)
(* Ranking: what fusion, the post-processors and the cut make of the       *)
(* answers, then the pipeline stage by stage.                              *)
(***************************************************************************)

\* A quotient is the largest number of divisors that fit.
LEMMA Quotients ==
  ASSUME NEW a \in Nat, NEW d \in Nat \ {0}
  PROVE  /\ a \div d \in Nat
         /\ (a \div d) * d <= a
         /\ \A w \in Nat : w * d <= a => w <= a \div d
<1> DEFINE q == a \div d
<1>1. q \in Int /\ d * q <= a /\ a < d * q + d
  OBVIOUS
<1> HIDE DEF q
<1>2. q >= 0
  <2>1. ASSUME q <= 0 - 1 PROVE FALSE
    <3>1. 0 - q - 1 \in Nat /\ d * (0 - q - 1) \in Nat
      BY <1>1, <2>1
    <3>2. d * (0 - q - 1) = 0 - (d * q) - d
      BY <1>1
    <3>3. d * q \in Int
      BY <1>1
    <3> QED BY <1>1, <3>1, <3>2, <3>3
  <2> QED BY <1>1, <2>1
<1>3. q \in Nat /\ q * d <= a /\ a < q * d + d /\ q * d \in Nat
  <2>1. q \in Nat
    BY <1>1, <1>2
  <2>2. d * q = q * d /\ q * d \in Nat
    BY <2>1
  <2> QED BY <1>1, <2>1, <2>2
<1>4. ASSUME NEW w \in Nat, w * d <= a PROVE w <= q
  <2>1. ASSUME q + 1 <= w PROVE FALSE
    <3>1. (q + 1) * d <= w * d
      BY <1>3, <2>1, ProductMono
    <3>2. (q + 1) * d = q * d + d
      BY <1>3
    <3>3. w * d \in Nat
      OBVIOUS
    <3> QED BY <1>3, <1>4, <3>1, <3>2, <3>3
  <2> QED BY <1>3, <2>1
<1> QED BY <1>3, <1>4 DEF q

Gathered == setup \in Setups /\ \A r \in Retrievers : lists[r] \in Answers

LEMMA ListsPlain ==
  ASSUME Gathered, NEW r \in Retrievers
  PROVE  /\ lists[r] \in Seq([chunk : Chunks, score : Int]) /\ BestFirst(lists[r])
         /\ DOMAIN lists[r] = 1 .. Len(lists[r]) /\ Len(lists[r]) \in Nat
         /\ \A i \in DOMAIN lists[r] : At(lists[r], i) \in Chunks /\ lists[r][i].score \in Int
<1>1. lists[r] \in Answers
  BY DEF Gathered
<1>2. lists[r] \in Seq([chunk : Chunks, score : Int]) /\ BestFirst(lists[r])
  BY <1>1, RankingAssumption
<1>3. \A i \in DOMAIN lists[r] : lists[r][i] \in [chunk : Chunks, score : Int]
  <2> DEFINE T == [chunk : Chunks, score : Int]
             list == lists[r]
  <2>1. list \in Seq(T)
    BY <1>2
  <2> HIDE DEF T, list
  <2>2. \A i \in DOMAIN list : list[i] \in T
    BY <2>1
  <2> QED BY <2>2 DEF T, list
<1> QED BY <1>2, <1>3 DEF At

\* What a later place of a list is worth is no more.
LEMMA WorthFalls ==
  ASSUME Gathered, NEW r \in Retrievers, NEW i \in DOMAIN lists[r]
  PROVE  /\ Worth(r, i) \in Nat
         /\ \A j \in DOMAIN lists[r] : i <= j => Worth(r, j) <= Worth(r, i)
<1> DEFINE list == lists[r]
           lo == list[Len(list)].score
           hi == list[1].score
<1>1. /\ list \in Seq([chunk : Chunks, score : Int]) /\ BestFirst(list)
      /\ DOMAIN list = 1 .. Len(list) /\ Len(list) \in Nat
      /\ \A j \in DOMAIN list : list[j].score \in Int
  BY ListsPlain
<1>2. RrfK \in Nat \ {0} /\ Unit \in Nat \ {0} /\ Weight[r] \in Nat
  BY RankingAssumption
<1>3. \A j, k \in DOMAIN list : j <= k => list[j].score >= list[k].score
  <2>1. ASSUME NEW j \in DOMAIN list, NEW k \in DOMAIN list, j <= k PROVE list[j].score >= list[k].score
    <3>1. j \in Int /\ k \in Int /\ list[j].score \in Int
      BY <1>1
    <3>2. j = k \/ j < k
      BY <2>1, <3>1
    <3>3. j < k => list[j].score >= list[k].score
      <4> HIDE DEF list
      <4> QED BY <1>1 DEF BestFirst
    <3> QED BY <3>1, <3>2, <3>3
  <2> QED BY <2>1
<1>4. 1 \in DOMAIN list /\ Len(list) \in DOMAIN list /\ \A j \in DOMAIN list : 1 <= j /\ j <= Len(list)
  BY <1>1
<1>5. /\ lo \in Int /\ hi \in Int
      /\ \A j \in DOMAIN list : lo <= list[j].score /\ list[j].score <= hi
  BY <1>1, <1>3, <1>4
<1> HIDE DEF lo, hi
<1>6. ASSUME NEW j \in DOMAIN list, NEW k \in DOMAIN list, j <= k
      PROVE  Reciprocal(list, j) \in Nat /\ Reciprocal(list, k) <= Reciprocal(list, j)
  <2> DEFINE w == Unit \div (RrfK + k)
  <2>1. RrfK + j \in Nat \ {0} /\ RrfK + k \in Nat \ {0} /\ RrfK + j <= RrfK + k
    BY <1>1, <1>2, <1>6
  <2>2. w \in Nat /\ w * (RrfK + k) <= Unit
    BY <1>2, <2>1, Quotients
  <2> HIDE DEF w
  <2>3. w * (RrfK + j) <= w * (RrfK + k) /\ w * (RrfK + j) \in Nat /\ w * (RrfK + k) \in Nat
    <3>1. (RrfK + j) * w <= (RrfK + k) * w /\ (RrfK + j) * w \in Nat /\ (RrfK + k) * w \in Nat
      BY <2>1, <2>2, ProductMono
    <3>2. (RrfK + j) * w = w * (RrfK + j) /\ (RrfK + k) * w = w * (RrfK + k)
      BY <2>1, <2>2
    <3> QED BY <3>1, <3>2
  <2>4. w * (RrfK + j) <= Unit
    BY <1>2, <2>2, <2>3
  <2>5. Unit \div (RrfK + j) \in Nat /\ w <= Unit \div (RrfK + j)
    BY <1>2, <2>1, <2>2, <2>4, Quotients
  <2> QED BY <2>5 DEF Reciprocal, w
<1>7. ASSUME NEW j \in DOMAIN list, NEW k \in DOMAIN list, j <= k
      PROVE  Normalised(list, j) \in Nat /\ Normalised(list, k) <= Normalised(list, j)
  <2>1. Normalised(list, j) = IF hi = lo THEN Unit ELSE ((list[j].score - lo) * Unit) \div (hi - lo)
    BY DEF Normalised, lo, hi
  <2>2. Normalised(list, k) = IF hi = lo THEN Unit ELSE ((list[k].score - lo) * Unit) \div (hi - lo)
    BY DEF Normalised, lo, hi
  <2>3. CASE hi = lo
    BY <1>2, <2>1, <2>2, <2>3
  <2>4. CASE hi # lo
    <3> DEFINE a == list[j].score - lo
               b == list[k].score - lo
               d == hi - lo
               w == (b * Unit) \div d
    <3>1. list[j].score \in Int /\ list[k].score \in Int /\ list[k].score <= list[j].score
          /\ lo <= list[j].score /\ lo <= list[k].score /\ list[j].score <= hi
      BY <1>1, <1>3, <1>5, <1>7
    <3>2. a \in Nat /\ b \in Nat /\ b <= a /\ d \in Nat \ {0}
      BY <1>5, <2>4, <3>1
    <3> HIDE DEF a, b, d
    <3>3. b * Unit <= a * Unit /\ b * Unit \in Nat /\ a * Unit \in Nat
      BY <1>2, <3>2, ProductMono
    <3>4. w \in Nat /\ w * d <= b * Unit
      BY <3>2, <3>3, Quotients
    <3> HIDE DEF w
    <3>5. w * d <= a * Unit
      <4>1. w * d \in Nat
        BY <3>2, <3>4
      <4> QED BY <3>3, <3>4, <4>1
    <3>6. (a * Unit) \div d \in Nat /\ w <= (a * Unit) \div d
      BY <3>2, <3>3, <3>4, <3>5, Quotients
    <3> QED BY <2>1, <2>2, <2>4, <3>6 DEF a, b, d, w
  <2> QED BY <2>3, <2>4
<1>8. ASSUME NEW j \in DOMAIN list, NEW k \in DOMAIN list, j <= k
      PROVE  Worth(r, j) \in Nat /\ Worth(r, k) <= Worth(r, j)
  <2>1. CASE setup.fuser = "rrf"
    BY <1>6, <1>8, <2>1 DEF Worth
  <2>2. CASE setup.fuser # "rrf"
    <3> DEFINE x == Normalised(list, k)
               y == Normalised(list, j)
    <3>1. x \in Nat /\ y \in Nat /\ x <= y
      <4>1. k <= k
        BY <1>1
      <4> QED BY <1>7, <1>8, <4>1
    <3>2. Worth(r, j) = Weight[r] * y /\ Worth(r, k) = Weight[r] * x
      BY <2>2 DEF Worth
    <3> HIDE DEF x, y
    <3>3. x * Weight[r] <= y * Weight[r] /\ y * Weight[r] \in Nat
      BY <1>2, <3>1, ProductMono
    <3>4. Weight[r] * y = y * Weight[r] /\ Weight[r] * x = x * Weight[r]
      BY <1>2, <3>1
    <3> QED BY <3>2, <3>3, <3>4
  <2> QED BY <2>1, <2>2
<1>9. i <= i
  BY <1>1
<1> QED BY <1>8, <1>9

\* A chunk stands in one place of a list.
LEMMA PlacesPlain ==
  ASSUME Gathered, NEW r \in Retrievers, NEW c, Holds(r, c)
  PROVE  /\ PlaceOf(r, c) \in DOMAIN lists[r] /\ At(lists[r], PlaceOf(r, c)) = c
         /\ \A i \in DOMAIN lists[r] : At(lists[r], i) = c => i = PlaceOf(r, c)
<1>1. PlaceOf(r, c) \in DOMAIN lists[r] /\ At(lists[r], PlaceOf(r, c)) = c
  BY DEF Holds, PlaceOf
<1>2. ASSUME NEW i \in DOMAIN lists[r], At(lists[r], i) = c, i # PlaceOf(r, c) PROVE FALSE
  <2>1. i \in Int /\ PlaceOf(r, c) \in Int
    BY <1>1, ListsPlain
  <2>2. i < PlaceOf(r, c) \/ PlaceOf(r, c) < i
    BY <1>2, <2>1
  <2>3. BestFirst(lists[r])
    BY ListsPlain
  <2> QED BY <1>1, <1>2, <2>2, <2>3 DEF BestFirst, At
<1> QED BY <1>1, <1>2

\* The list a chunk is first met in.
LEMMA FirstListFirst ==
  ASSUME NEW c \in Offered
  PROVE  /\ FirstList(c) \in Retrievers /\ Holds(FirstList(c), c)
         /\ \A r \in Retrievers : Holds(r, c) => FirstList(c) <= r
<1> DEFINE with == {r \in Retrievers : Holds(r, c)}
<1>1. Sources \in Nat /\ Retrievers = 1 .. Sources
  BY RankingAssumption DEF Retrievers
<1>2. with # {}
  BY DEF Offered, ChunksOf, Holds
<1>3. with \in SUBSET Int /\ IsFiniteSet(with)
  <2>1. IsFiniteSet(1 .. Sources)
    BY <1>1, FS_Interval
  <2> QED BY <1>1, <2>1, FS_Subset
<1>4. PICK m \in with : \A r \in with : m <= r
  <2> HIDE DEF with
  <2> QED BY <1>2, <1>3, FiniteMin
<1>5. m \in Retrievers /\ Holds(m, c) /\ \A q \in 1 .. m - 1 : ~Holds(q, c)
  <2>1. ASSUME NEW q \in 1 .. m - 1, Holds(q, c) PROVE FALSE
    <3>1. q \in with /\ q < m /\ q \in Int /\ m \in Int
      BY <1>1, <1>4, <2>1
    <3> QED BY <1>4, <3>1
  <2> QED BY <1>4, <2>1
<1>6. /\ FirstList(c) \in Retrievers /\ Holds(FirstList(c), c)
      /\ \A q \in 1 .. FirstList(c) - 1 : ~Holds(q, c)
  BY <1>5 DEF FirstList
<1>7. ASSUME NEW r \in Retrievers, Holds(r, c) PROVE FirstList(c) <= r
  BY <1>1, <1>6, <1>7
<1> QED BY <1>6, <1>7

\* What a list adds to a chunk's score.
Share(r, c) == IF Holds(r, c) THEN Worth(r, PlaceOf(r, c)) ELSE 0

LEMMA ShareNat == Gathered => \A r \in Retrievers : \A c : Share(r, c) \in Nat
BY PlacesPlain, WorthFalls DEF Share

LEMMA SumsThere ==
  ASSUME NEW N \in Nat, NEW share \in [1 .. N -> Nat]
  PROVE  \E f \in [0 .. N -> Nat] : f[0] = 0 /\ \A r \in 1 .. N : f[r] = f[r - 1] + share[r]
<1> DEFINE step == [r \in 1 .. N |-> [n \in Nat |-> n + share[r]]]
<1>1. step \in [1 .. N -> [Nat -> Nat]]
  OBVIOUS
<1>2. \A r \in 1 .. N, n \in Nat : step[r][n] = n + share[r]
  OBVIOUS
<1> HIDE DEF step
<1>3. PICK f : Iterated(f, N, Nat, 0, step)
  BY <1>1, Iterates
<1>4. ASSUME NEW r \in 1 .. N PROVE f[r] = f[r - 1] + share[r]
  <2>1. r - 1 \in 0 .. N
    OBVIOUS
  <2>2. f[r - 1] \in Nat
    BY <1>3, <2>1 DEF Iterated
  <2> QED BY <1>2, <1>3, <2>2 DEF Iterated
<1> QED BY <1>3, <1>4 DEF Iterated

Adds(sum, c) == \A r \in 0 .. Sources : sum[r] = IF r = 0 THEN 0 ELSE sum[r - 1] + Share(r, c)

LEMMA ScoreAdds ==
  ASSUME Gathered, NEW c
  PROVE  \E sum : FusedScore(c) = sum[Sources] /\ Adds(sum, c)
<1>1. Sources \in Nat /\ Retrievers = 1 .. Sources
  BY RankingAssumption DEF Retrievers
<1> DEFINE Sum(sum) == [r \in 0 .. Sources |-> IF r = 0 THEN 0 ELSE sum[r - 1] + Share(r, c)]
<1>2. FusedScore(c) = (CHOOSE sum : sum = Sum(sum))[Sources]
  BY DEF FusedScore, Share
<1>3. \E sum : sum = Sum(sum)
  <2> DEFINE share == [r \in 1 .. Sources |-> Share(r, c)]
  <2>1. share \in [1 .. Sources -> Nat] /\ \A r \in 1 .. Sources : share[r] = Share(r, c)
    BY <1>1, ShareNat
  <2> HIDE DEF share
  <2>2. PICK f \in [0 .. Sources -> Nat] : f[0] = 0 /\ \A r \in 1 .. Sources : f[r] = f[r - 1] + share[r]
    BY <1>1, <2>1, SumsThere
  <2>4. ASSUME NEW r \in 0 .. Sources PROVE f[r] = IF r = 0 THEN 0 ELSE f[r - 1] + Share(r, c)
    <3>1. CASE r = 0
      BY <2>2, <3>1
    <3>2. CASE r # 0
      <4>1. r \in 1 .. Sources
        BY <1>1, <3>2
      <4> QED BY <2>1, <2>2, <3>2, <4>1
    <3> QED BY <3>1, <3>2
  <2>5. f = Sum(f)
    <3>1. f = [r \in 0 .. Sources |-> f[r]]
      BY <2>2
    <3> QED BY <2>4, <3>1
  <2> QED BY <2>5
<1>4. PICK sum : FusedScore(c) = sum[Sources] /\ sum = Sum(sum)
  <2> DEFINE chosen == CHOOSE sum : sum = Sum(sum)
  <2> HIDE DEF Sum
  <2>1. chosen = Sum(chosen)
    BY <1>3
  <2> QED BY <1>2, <2>1
<1> QED BY <1>4 DEF Adds

\* A chunk every list gives as much to scores as much.
LEMMA ScoreMono ==
  ASSUME Gathered, NEW c, NEW d, \A r \in Retrievers : Share(r, d) <= Share(r, c)
  PROVE  FusedScore(c) \in Nat /\ FusedScore(d) \in Nat /\ FusedScore(d) <= FusedScore(c)
<1>1. Sources \in Nat /\ Retrievers = 1 .. Sources
  BY RankingAssumption DEF Retrievers
<1>2. PICK s : FusedScore(c) = s[Sources] /\ Adds(s, c)
  BY ScoreAdds
<1>3. PICK t : FusedScore(d) = t[Sources] /\ Adds(t, d)
  BY ScoreAdds
<1> DEFINE S == {n \in Nat : n > Sources \/ (s[n] \in Nat /\ t[n] \in Nat /\ t[n] <= s[n])}
<1>4. 0 \in S
  <2>1. s[0] = 0 /\ t[0] = 0
    BY <1>1, <1>2, <1>3 DEF Adds
  <2> QED BY <2>1
<1>5. ASSUME NEW n \in 0 .. Sources - 1, n \in S PROVE n + 1 \in S
  <2>1. n + 1 \in 0 .. Sources /\ n + 1 # 0 /\ (n + 1) - 1 = n /\ n + 1 \in Retrievers /\ ~(n > Sources)
    BY <1>1
  <2>2. s[n + 1] = s[n] + Share(n + 1, c) /\ t[n + 1] = t[n] + Share(n + 1, d)
    <3>1. \A r \in 0 .. Sources : r # 0 => s[r] = s[r - 1] + Share(r, c) /\ t[r] = t[r - 1] + Share(r, d)
      BY <1>2, <1>3 DEF Adds
    <3> QED BY <2>1, <3>1
  <2>3. Share(n + 1, c) \in Nat /\ Share(n + 1, d) \in Nat /\ Share(n + 1, d) <= Share(n + 1, c)
    BY <2>1, ShareNat
  <2>4. s[n] \in Nat /\ t[n] \in Nat /\ t[n] <= s[n]
    BY <1>5, <2>1
  <2>5. s[n + 1] \in Nat /\ t[n + 1] \in Nat /\ t[n + 1] <= s[n + 1]
    BY <2>2, <2>3, <2>4
  <2> QED BY <1>1, <2>5
<1>6. Sources \in S
  <2> HIDE DEF S
  <2>1. 0 .. Sources \subseteq S
    BY <1>1, <1>4, <1>5, UpTo
  <2> QED BY <1>1, <2>1
<1> QED BY <1>1, <1>2, <1>3, <1>6

\* What is offered are finitely many chunks.
LEMMA OfferedFinite == Gathered => IsFiniteSet(Offered)
<1> SUFFICES ASSUME Gathered PROVE IsFiniteSet(Offered)
  OBVIOUS
<1> DEFINE parts == {ChunksOf(lists[r]) : r \in Retrievers}
<1>1. Sources \in Nat /\ Retrievers = 1 .. Sources
  BY RankingAssumption DEF Retrievers
<1>2. IsFiniteSet(Retrievers)
  <2>1. 1 \in Int /\ Sources \in Int
    BY <1>1
  <2> QED BY <1>1, <2>1, FS_Interval
<1>3. IsFiniteSet(parts)
  <2> DEFINE f == [r \in Retrievers |-> ChunksOf(lists[r])]
  <2>1. f \in Surjection(Retrievers, parts)
    BY DEF Surjection
  <2> QED BY <1>2, <2>1, FS_Surjection
<1>4. ASSUME NEW T \in parts PROVE IsFiniteSet(T)
  <2>1. PICK r \in Retrievers : T = ChunksOf(lists[r])
    OBVIOUS
  <2> DEFINE D == DOMAIN lists[r]
             f == [i \in D |-> At(lists[r], i)]
  <2>2. IsFiniteSet(D)
    <3>1. D = 1 .. Len(lists[r]) /\ 1 \in Int /\ Len(lists[r]) \in Int
      BY ListsPlain
    <3> QED BY <3>1, FS_Interval
  <2>3. f \in Surjection(D, T)
    BY <2>1 DEF Surjection, ChunksOf
  <2> QED BY <2>2, <2>3, FS_Surjection
<1> HIDE DEF parts
<1>5. IsFiniteSet(UNION parts)
  BY <1>3, <1>4, FS_UNION
<1> QED BY <1>5 DEF Offered, parts

FusedBefore(c, d) == FusedScore(c) > FusedScore(d) \/ (FusedScore(c) = FusedScore(d) /\ MetBefore(c, d))
FusionOrder == {p \in Offered \X Offered : FusedBefore(p[1], p[2])}

\* Scores, and where they are equal the places of the first meeting, order what is
\* offered.
LEMMA FusionOrders ==
  ASSUME Gathered
  PROVE  /\ StrictOrder(Offered, FusionOrder)
         /\ \A c \in Offered : FusedScore(c) \in Nat /\ c \in Chunks
<1>1. ASSUME NEW c \in Offered PROVE FusedScore(c) \in Nat
  <2>1. \A r \in Retrievers : Share(r, c) <= Share(r, c)
    BY ShareNat
  <2> QED BY <2>1, ScoreMono
<1> DEFINE r(c) == FirstList(c)
           i(c) == PlaceOf(r(c), c)
<1>2. ASSUME NEW c \in Offered PROVE r(c) \in Int /\ i(c) \in Int /\ At(lists[r(c)], i(c)) = c /\ c \in Chunks
  <2>1. r(c) \in Retrievers /\ Holds(r(c), c)
    BY FirstListFirst
  <2>2. i(c) \in DOMAIN lists[r(c)] /\ At(lists[r(c)], i(c)) = c
    BY <2>1, PlacesPlain
  <2>3. /\ DOMAIN lists[r(c)] = 1 .. Len(lists[r(c)]) /\ Len(lists[r(c)]) \in Nat
        /\ \A n \in DOMAIN lists[r(c)] : At(lists[r(c)], n) \in Chunks
    BY <2>1, ListsPlain
  <2>4. Sources \in Nat /\ Retrievers = 1 .. Sources
    BY RankingAssumption DEF Retrievers
  <2> HIDE DEF r, i
  <2>5. i(c) \in Int
    BY <2>2, <2>3
  <2> QED BY <2>1, <2>2, <2>3, <2>4, <2>5
<1>3. \A c, d : MetBefore(c, d) <=> r(c) < r(d) \/ (r(c) = r(d) /\ i(c) < PlaceOf(r(c), d))
  BY DEF MetBefore
<1>4. \A c, d : MetBefore(c, d) <=> r(c) < r(d) \/ (r(c) = r(d) /\ i(c) < i(d))
  BY <1>3
<1> HIDE DEF r, i
<1>5. \A c, d \in Offered : <<c, d>> \in FusionOrder <=> FusedBefore(c, d)
  BY DEF FusionOrder
<1>6. ASSUME NEW c \in Offered PROVE ~FusedBefore(c, c)
  BY <1>1, <1>2, <1>4 DEF FusedBefore
<1>7. ASSUME NEW c \in Offered, NEW d \in Offered, NEW e \in Offered, FusedBefore(c, d), FusedBefore(d, e)
      PROVE  FusedBefore(c, e)
  <2>1. FusedScore(c) \in Nat /\ FusedScore(d) \in Nat /\ FusedScore(e) \in Nat
    BY <1>1
  <2>2. r(c) \in Int /\ r(d) \in Int /\ r(e) \in Int /\ i(c) \in Int /\ i(d) \in Int /\ i(e) \in Int
    BY <1>2
  <2>3. MetBefore(c, d) /\ MetBefore(d, e) => MetBefore(c, e)
    BY <1>4, <2>2
  <2> QED BY <1>7, <2>1, <2>3 DEF FusedBefore
<1>8. ASSUME NEW c \in Offered, NEW d \in Offered, c # d PROVE FusedBefore(c, d) \/ FusedBefore(d, c)
  <2>1. r(c) # r(d) \/ i(c) # i(d)
    BY <1>2, <1>8
  <2>2. r(c) \in Int /\ r(d) \in Int /\ i(c) \in Int /\ i(d) \in Int
    BY <1>2
  <2>3. MetBefore(c, d) \/ MetBefore(d, c)
    BY <1>4, <2>1, <2>2
  <2>4. FusedScore(c) \in Nat /\ FusedScore(d) \in Nat
    BY <1>1
  <2> QED BY <2>3, <2>4 DEF FusedBefore
<1>9. StrictOrder(Offered, FusionOrder)
  BY <1>5, <1>6, <1>7, <1>8 DEF StrictOrder
<1> QED BY <1>1, <1>2, <1>9

Candidates == [chunk : Chunks, score : Int, rank : Nat]
Placed(cands) == cands \in Seq(Candidates) /\ \A i \in DOMAIN cands : cands[i].rank = i

\* The fused candidates: every chunk that is offered, once and in that order.
LEMMA FusionRight ==
  ASSUME Gathered
  PROVE  /\ Placed(Fusion) /\ Len(Fusion) = Cardinality(Offered) /\ ChunksOf(Fusion) = Offered
         /\ DOMAIN Fusion = 1 .. Len(Fusion) /\ Len(Fusion) \in Nat
         /\ \A i, j \in DOMAIN Fusion : i < j => FusedBefore(At(Fusion, i), At(Fusion, j))
<1> DEFINE order == InOrder(Offered, FusionOrder)
           n == Cardinality(Offered)
<1>1. Enumerates(order, Offered, FusionOrder)
  BY OfferedFinite, FusionOrders, InOrderEnumerates
<1>2. n \in Nat
  BY OfferedFinite, FS_CardinalityType
<1>3. /\ order \in Seq(Offered) /\ Len(order) = n /\ DOMAIN order = 1 .. n
      /\ \A c \in Offered : \E i \in DOMAIN order : order[i] = c
      /\ \A i, j \in DOMAIN order : i < j => <<order[i], order[j]>> \in FusionOrder
  BY <1>1 DEF Enumerates
<1> DEFINE score == [c \in Offered |-> FusedScore(c)]
<1>4. Fusion = [i \in DOMAIN order |-> [chunk |-> order[i], score |-> score[order[i]], rank |-> i]]
  <2> DEFINE R == {p \in Offered \X Offered :
                 score[p[1]] > score[p[2]] \/ (score[p[1]] = score[p[2]] /\ MetBefore(p[1], p[2]))}
  <2>1. R = FusionOrder
    BY DEF FusionOrder, FusedBefore
  <2>2. Fusion = [i \in DOMAIN InOrder(Offered, R) |->
          [chunk |-> InOrder(Offered, R)[i], score |-> score[InOrder(Offered, R)[i]], rank |-> i]]
    BY DEF Fusion
  <2> HIDE DEF R
  <2> QED BY <2>1, <2>2
<1> HIDE DEF order, n
<1>5. \A i \in 1 .. n : order[i] \in Offered
  BY <1>3
<1>6. /\ DOMAIN Fusion = 1 .. n
      /\ \A i \in 1 .. n : Fusion[i] = [chunk |-> order[i], score |-> FusedScore(order[i]), rank |-> i]
  BY <1>3, <1>4, <1>5
<1>7. \A i \in 1 .. n : Fusion[i] \in Candidates /\ Fusion[i].rank = i /\ At(Fusion, i) = order[i]
  <2>1. \A c \in Offered : FusedScore(c) \in Int /\ c \in Chunks
    BY FusionOrders
  <2>2. \A i \in 1 .. n : i \in Nat
    BY <1>2
  <2> QED BY <1>5, <1>6, <2>1, <2>2 DEF Candidates, At
<1>8. Fusion \in Seq(Candidates) /\ Len(Fusion) = n
  <2>1. Fusion = [i \in 1 .. n |-> Fusion[i]]
    BY <1>4, <1>6
  <2>2. Fusion \in [1 .. n -> Candidates]
    BY <1>7, <2>1
  <2> QED BY <1>2, <2>2
<1>9. ChunksOf(Fusion) = Offered
  <2>1. ChunksOf(Fusion) = {order[i] : i \in 1 .. n}
    BY <1>6, <1>7 DEF ChunksOf
  <2> QED BY <1>3, <1>5, <2>1
<1>10. ASSUME NEW i \in DOMAIN Fusion, NEW j \in DOMAIN Fusion, i < j
       PROVE  FusedBefore(At(Fusion, i), At(Fusion, j))
  <2>1. <<order[i], order[j]>> \in FusionOrder
    BY <1>3, <1>6, <1>10
  <2>2. FusedBefore(order[i], order[j])
    BY <2>1 DEF FusionOrder
  <2> QED BY <1>6, <1>7, <2>2
<1> QED BY <1>2, <1>6, <1>7, <1>8, <1>9, <1>10 DEF Placed, n

\* What every list with a chunk has before it, and better, is fused before it.
LEMMA AgreedFirst ==
  ASSUME Gathered, NEW c \in Offered, NEW d \in Offered, \A r \in Retrievers : Leads(r, c, d)
  PROVE  ~FusedBefore(d, c)
<1>1. Sources \in Nat /\ Retrievers = 1 .. Sources
  BY RankingAssumption DEF Retrievers
<1>2. ASSUME NEW r \in Retrievers, Holds(r, d)
      PROVE  /\ Holds(r, c) /\ PlaceOf(r, c) < PlaceOf(r, d)
             /\ PlaceOf(r, c) \in DOMAIN lists[r] /\ PlaceOf(r, d) \in DOMAIN lists[r]
             /\ PlaceOf(r, c) \in Int /\ PlaceOf(r, d) \in Int
  <2>1. PlaceOf(r, d) \in DOMAIN lists[r] /\ At(lists[r], PlaceOf(r, d)) = d
    BY <1>2, PlacesPlain
  <2>2. PICK i \in 1 .. PlaceOf(r, d) - 1 : At(lists[r], i) = c
    BY <2>1 DEF Leads
  <2>3. DOMAIN lists[r] = 1 .. Len(lists[r]) /\ Len(lists[r]) \in Nat
    BY ListsPlain
  <2>4. i \in DOMAIN lists[r] /\ i < PlaceOf(r, d) /\ i \in Int /\ PlaceOf(r, d) \in Int
    BY <2>1, <2>2, <2>3
  <2>5. Holds(r, c)
    BY <2>2, <2>4 DEF Holds
  <2>6. i = PlaceOf(r, c)
    BY <2>2, <2>4, <2>5, PlacesPlain
  <2> QED BY <2>1, <2>4, <2>5, <2>6
<1>3. ASSUME NEW r \in Retrievers PROVE Share(r, d) <= Share(r, c)
  <2>1. CASE ~Holds(r, d)
    <3>1. Share(r, d) = 0 /\ Share(r, c) \in Nat
      BY <2>1, ShareNat DEF Share
    <3> QED BY <3>1
  <2>2. CASE Holds(r, d)
    <3>1. Share(r, d) = Worth(r, PlaceOf(r, d)) /\ Share(r, c) = Worth(r, PlaceOf(r, c))
      BY <1>2, <2>2 DEF Share
    <3>2. PlaceOf(r, c) <= PlaceOf(r, d)
      BY <1>2, <2>2
    <3> QED BY <1>2, <2>2, <3>1, <3>2, WorthFalls
  <2> QED BY <2>1, <2>2
<1>4. FusedScore(c) \in Nat /\ FusedScore(d) \in Nat /\ FusedScore(d) <= FusedScore(c)
  BY <1>3, ScoreMono
<1>5. ~MetBefore(d, c)
  <2> DEFINE q == FirstList(d)
             r == FirstList(c)
  <2>1. q \in Retrievers /\ Holds(q, d)
    BY FirstListFirst
  <2>2. Holds(q, c) /\ PlaceOf(q, c) < PlaceOf(q, d) /\ PlaceOf(q, c) \in Int /\ PlaceOf(q, d) \in Int
    BY <1>2, <2>1
  <2>3. r \in Retrievers /\ r <= q
    BY <2>1, <2>2, FirstListFirst
  <2>4. MetBefore(d, c) <=> q < r \/ (q = r /\ PlaceOf(q, d) < PlaceOf(q, c))
    BY DEF MetBefore
  <2> HIDE DEF q, r
  <2> QED BY <1>1, <2>1, <2>2, <2>3, <2>4
<1> QED BY <1>4, <1>5 DEF FusedBefore

-----------------------------------------------------------------------------
\* Of what is left the diversifier takes the best, and of equals the first.
LeftOf(cands, selected) == DOMAIN cands \ Range(selected)

LEMMA NextIsBest ==
  ASSUME NEW cands, Placed(cands), NEW selected, LeftOf(cands, selected) # {}
  PROVE  /\ SelectNext(cands, selected) \in LeftOf(cands, selected)
         /\ \A j \in LeftOf(cands, selected) :
              Marginal(cands, SelectNext(cands, selected), selected) >= Marginal(cands, j, selected)
<1> DEFINE free == LeftOf(cands, selected)
           Worth1(i) == Marginal(cands, i, selected)
           worth == [i \in free |-> Worth1(i)]
           values == {worth[i] : i \in free}
<1>1. /\ DOMAIN cands = 1 .. Len(cands) /\ Len(cands) \in Nat
      /\ \A i \in DOMAIN cands : At(cands, i) \in Chunks
  <2>1. cands \in Seq(Candidates)
    BY DEF Placed
  <2>2. \A i \in DOMAIN cands : cands[i] \in Candidates
    BY <2>1
  <2> QED BY <2>1, <2>2 DEF Candidates, At
<1>2. free \in SUBSET Int /\ IsFiniteSet(free)
  <2>1. IsFiniteSet(1 .. Len(cands))
    <3>1. 1 \in Int /\ Len(cands) \in Int
      BY <1>1
    <3> QED BY <3>1, FS_Interval
  <2> QED BY <1>1, <2>1, FS_Subset DEF LeftOf
<1>3. \A i \in free : Worth1(i) \in Int
  <2>1. \A c \in Chunks : Relevance[c] \in Int
    BY RankingAssumption
  <2>2. Unit \in Int
    BY RankingAssumption
  <2> QED BY <1>1, <2>1, <2>2 DEF Marginal, LeftOf
<1> HIDE DEF Worth1
<1>4. values \in SUBSET Int /\ IsFiniteSet(values) /\ values # {}
  <2>1. worth \in Surjection(free, values)
    BY DEF Surjection
  <2> QED BY <1>2, <1>3, <2>1, FS_Surjection
<1>5. PICK m \in values : \A v \in values : v <= m
  <2> HIDE DEF values
  <2> QED BY <1>4, FiniteMax
<1> DEFINE best == {i \in free : Worth1(i) = m}
<1>6. best # {}
  BY <1>5
<1>7. best \in SUBSET Int /\ IsFiniteSet(best)
  BY <1>2, FS_Subset
<1>8. PICK n \in best : \A i \in best : n <= i
  <2> HIDE DEF best
  <2> QED BY <1>6, <1>7, FiniteMin
<1>9. /\ n \in free
      /\ \A j \in free : Worth1(n) > Worth1(j) \/ (Worth1(n) = Worth1(j) /\ n <= j)
  <2>1. ASSUME NEW j \in free PROVE Worth1(n) > Worth1(j) \/ (Worth1(n) = Worth1(j) /\ n <= j)
    <3>1. Worth1(j) \in values /\ Worth1(j) <= m /\ Worth1(n) = m
      BY <1>5, <1>8
    <3>2. Worth1(j) \in Int /\ Worth1(n) \in Int
      BY <1>3, <1>8
    <3>3. Worth1(j) = m => n <= j
      BY <1>8
    <3> QED BY <3>1, <3>2, <3>3
  <2> QED BY <1>8, <2>1
<1>10. SelectNext(cands, selected) = CHOOSE i \in free : \A j \in free :
         Worth1(i) > Worth1(j) \/ (Worth1(i) = Worth1(j) /\ i <= j)
  BY DEF SelectNext, LeftOf, Worth1
<1> DEFINE x == SelectNext(cands, selected)
<1>11. x \in free /\ \A j \in free : Worth1(x) > Worth1(j) \/ (Worth1(x) = Worth1(j) /\ x <= j)
  <2> HIDE DEF free
  <2> QED BY <1>9, <1>10
<1>12. \A j \in free : Worth1(x) >= Worth1(j)
  BY <1>3, <1>11
<1> QED BY <1>11, <1>12 DEF Worth1

\* A position is like one of a set of positions.
LikeOne(cands, i, S) == \E s \in S : Topic[At(cands, s)] = Topic[At(cands, i)]

\* The positions selected so far: each once, and none of them, like one before it,
\* as relevant as one that was left and like none before it.
Selection(cands, picked, n) ==
  /\ picked \in Seq(DOMAIN cands) /\ Len(picked) = n /\ DOMAIN picked = 1 .. n
  /\ \A i, j \in 1 .. n : i # j => picked[i] # picked[j]
  /\ \A i \in 1 .. n, j \in DOMAIN cands :
       LET before == {picked[s] : s \in 1 .. i - 1}
       IN  ~(j \notin before /\ LikeOne(cands, picked[i], before) /\ ~LikeOne(cands, j, before)
             /\ Relevance[At(cands, j)] >= Relevance[At(cands, picked[i])])

LEMMA SelectionLeaves ==
  ASSUME NEW cands, Placed(cands), NEW n \in Nat, n < Len(cands), NEW picked, Selection(cands, picked, n)
  PROVE  LeftOf(cands, picked) # {} /\ Range(picked) = {picked[s] : s \in 1 .. n}
<1> DEFINE D == DOMAIN cands
<1>1. /\ D = 1 .. Len(cands) /\ Len(cands) \in Nat /\ \A i \in D : At(cands, i) \in Chunks
  <2>1. cands \in Seq(Candidates)
    BY DEF Placed
  <2>2. \A i \in DOMAIN cands : cands[i] \in Candidates
    BY <2>1
  <2> QED BY <2>1, <2>2 DEF Candidates, At
<1>2. /\ picked \in Seq(D) /\ Len(picked) = n /\ DOMAIN picked = 1 .. n
      /\ \A i, j \in 1 .. n : i # j => picked[i] # picked[j]
  BY DEF Selection
<1> DEFINE taken == {picked[s] : s \in 1 .. n}
<1>3. Range(picked) = taken
  BY <1>2 DEF Range
<1>4. LeftOf(cands, picked) # {}
  <2>1. ASSUME LeftOf(cands, picked) = {} PROVE FALSE
    <3>1. picked \in Surjection(1 .. n, 1 .. Len(cands))
      <4>1. \A i \in D : \E s \in 1 .. n : picked[s] = i
        BY <1>3, <2>1 DEF LeftOf
      <4>2. picked \in [1 .. n -> D]
        BY <1>2
      <4> QED BY <1>1, <4>1, <4>2 DEF Surjection
    <3>2. 1 \in Int /\ n \in Int /\ Len(cands) \in Int
      BY <1>1
    <3>3. IsFiniteSet(1 .. n) /\ Cardinality(1 .. n) = n /\ Cardinality(1 .. Len(cands)) = Len(cands)
      <4> DEFINE L == Len(cands)
      <4>1. 1 \in Int /\ L \in Int /\ L \in Nat
        BY <1>1
      <4> HIDE DEF L
      <4>2. IsFiniteSet(1 .. n) /\ Cardinality(1 .. n) = IF 1 > n THEN 0 ELSE n - 1 + 1
        BY <3>2, FS_Interval
      <4>3. Cardinality(1 .. L) = IF 1 > L THEN 0 ELSE L - 1 + 1
        BY <4>1, FS_Interval
      <4>4. Cardinality(1 .. n) = n /\ Cardinality(1 .. L) = L
        BY <4>1, <4>2, <4>3
      <4> QED BY <4>2, <4>4 DEF L
    <3>4. Cardinality(1 .. Len(cands)) <= Cardinality(1 .. n)
      BY <3>1, <3>3, FS_Surjection
    <3> QED BY <1>1, <3>3, <3>4
  <2> QED BY <2>1
<1> QED BY <1>3, <1>4

LEMMA SelectionGrows ==
  ASSUME NEW cands, Placed(cands), NEW n \in Nat, n < Len(cands), NEW picked, Selection(cands, picked, n)
  PROVE  Selection(cands, Append(picked, SelectNext(cands, picked)), n + 1)
<1> DEFINE D == DOMAIN cands
           x == SelectNext(cands, picked)
           more == Append(picked, x)
<1>1. /\ D = 1 .. Len(cands) /\ Len(cands) \in Nat /\ \A i \in D : At(cands, i) \in Chunks
  <2>1. cands \in Seq(Candidates)
    BY DEF Placed
  <2>2. \A i \in DOMAIN cands : cands[i] \in Candidates
    BY <2>1
  <2> QED BY <2>1, <2>2 DEF Candidates, At
<1>2. /\ picked \in Seq(D) /\ Len(picked) = n /\ DOMAIN picked = 1 .. n
      /\ \A i, j \in 1 .. n : i # j => picked[i] # picked[j]
  BY DEF Selection
<1> DEFINE taken == {picked[s] : s \in 1 .. n}
<1>3. Range(picked) = taken
  BY <1>2 DEF Range
<1>4. LeftOf(cands, picked) # {}
  BY SelectionLeaves
<1>5. /\ x \in D /\ x \notin taken
      /\ \A j \in D : j \notin taken => Marginal(cands, x, picked) >= Marginal(cands, j, picked)
  <2> HIDE DEF taken
  <2>1. x \in LeftOf(cands, picked) /\ \A j \in LeftOf(cands, picked) : Marginal(cands, x, picked) >= Marginal(cands, j, picked)
    BY <1>4, NextIsBest
  <2> QED BY <1>3, <2>1 DEF LeftOf
<1>6. \A i \in D : Marginal(cands, i, picked)
                     = Relevance[At(cands, i)] - (IF LikeOne(cands, i, taken) THEN Unit ELSE 0)
  <2> HIDE DEF taken
  <2>1. Unit # 0
    BY RankingAssumption
  <2>2. \A c, d : Similar(c, d) = Unit <=> Topic[d] = Topic[c]
    BY <2>1 DEF Similar
  <2>3. \A i \in D : (\E s \in Range(picked) : Similar(At(cands, i), At(cands, s)) = Unit) <=> LikeOne(cands, i, taken)
    BY <1>3, <2>2 DEF LikeOne
  <2> QED BY <2>3 DEF Marginal
<1>7. ASSUME NEW j \in D
      PROVE  ~(j \notin taken /\ LikeOne(cands, x, taken) /\ ~LikeOne(cands, j, taken)
               /\ Relevance[At(cands, j)] >= Relevance[At(cands, x)])
  <2>1. Relevance[At(cands, j)] \in Int /\ Relevance[At(cands, x)] \in Int /\ Unit \in Int /\ Unit > 0
    <3>1. \A c \in Chunks : Relevance[c] \in Int
      BY RankingAssumption
    <3>2. Unit \in Int /\ Unit > 0
      BY RankingAssumption
    <3> QED BY <1>1, <1>5, <3>1, <3>2
  <2> HIDE DEF taken, x
  <2> QED BY <1>5, <1>6, <2>1
<1> HIDE DEF x
<1>8. /\ more \in Seq(D) /\ Len(more) = n + 1 /\ DOMAIN more = 1 .. n + 1
      /\ \A i \in 1 .. n : more[i] = picked[i]
      /\ more[n + 1] = x
  <2> HIDE DEF D
  <2> QED BY <1>2, <1>5, AppendProperties
<1> HIDE DEF more
<1>9. ASSUME NEW i \in 1 .. n + 1, NEW j \in 1 .. n + 1, i # j PROVE more[i] # more[j]
  <2>1. \A s \in 1 .. n : more[s] # x
    BY <1>5, <1>8
  <2>2. (i \in 1 .. n \/ i = n + 1) /\ (j \in 1 .. n \/ j = n + 1)
    OBVIOUS
  <2> QED BY <1>2, <1>8, <1>9, <2>1, <2>2
<1>10. ASSUME NEW i \in 1 .. n + 1, NEW j \in D
       PROVE  LET before == {more[s] : s \in 1 .. i - 1}
              IN  ~(j \notin before /\ LikeOne(cands, more[i], before) /\ ~LikeOne(cands, j, before)
                    /\ Relevance[At(cands, j)] >= Relevance[At(cands, more[i])])
  <2> DEFINE before == {picked[s] : s \in 1 .. i - 1}
  <2>1. {more[s] : s \in 1 .. i - 1} = before
    <3>1. \A s \in 1 .. i - 1 : s \in 1 .. n
      OBVIOUS
    <3> QED BY <1>8, <3>1
  <2>2. CASE i \in 1 .. n
    <3>1. ~(j \notin before /\ LikeOne(cands, picked[i], before) /\ ~LikeOne(cands, j, before)
            /\ Relevance[At(cands, j)] >= Relevance[At(cands, picked[i])])
      BY <2>2 DEF Selection
    <3> HIDE DEF before
    <3> QED BY <1>8, <2>1, <2>2, <3>1
  <2>3. CASE i = n + 1
    <3>1. before = taken
      BY <2>3
    <3> HIDE DEF before, taken
    <3> QED BY <1>7, <1>8, <2>1, <2>3, <3>1
  <2> QED BY <2>2, <2>3
<1> QED BY <1>8, <1>9, <1>10 DEF Selection, more, x

LEMMA PlacedPlain ==
  ASSUME NEW cands, Placed(cands)
  PROVE  /\ DOMAIN cands = 1 .. Len(cands) /\ Len(cands) \in Nat /\ IsFiniteSet(DOMAIN cands)
         /\ \A i \in DOMAIN cands : cands[i] \in Candidates /\ At(cands, i) \in Chunks
                                    /\ cands[i].score \in Int /\ cands[i].rank = i
<1>1. cands \in Seq(Candidates) /\ \A i \in DOMAIN cands : cands[i].rank = i
  BY DEF Placed
<1>2. \A i \in DOMAIN cands : cands[i] \in Candidates
  BY <1>1
<1>3. DOMAIN cands = 1 .. Len(cands) /\ Len(cands) \in Nat
  BY <1>1
<1>4. IsFiniteSet(1 .. Len(cands))
  <2>1. 1 \in Int /\ Len(cands) \in Int
    BY <1>3
  <2> QED BY <2>1, FS_Interval
<1> QED BY <1>1, <1>2, <1>3, <1>4 DEF Candidates, At

LEMMA RenumberedPlaced ==
  ASSUME NEW s \in Seq(Candidates)
  PROVE  /\ Placed(Renumbered(s)) /\ DOMAIN Renumbered(s) = DOMAIN s /\ Len(Renumbered(s)) = Len(s)
         /\ \A i \in DOMAIN s : At(Renumbered(s), i) = At(s, i) /\ Renumbered(s)[i].score = s[i].score
<1>1. DOMAIN s = 1 .. Len(s) /\ Len(s) \in Nat /\ \A i \in DOMAIN s : s[i] \in Candidates
  OBVIOUS
<1>2. /\ DOMAIN Renumbered(s) = DOMAIN s
      /\ \A i \in DOMAIN s : Renumbered(s)[i] = [s[i] EXCEPT !.rank = i]
  BY DEF Renumbered
<1>3. \A i \in DOMAIN s : /\ Renumbered(s)[i] \in Candidates /\ Renumbered(s)[i].rank = i
                          /\ Renumbered(s)[i].chunk = s[i].chunk /\ Renumbered(s)[i].score = s[i].score
  <2>1. ASSUME NEW i \in DOMAIN s
        PROVE  /\ Renumbered(s)[i] \in Candidates /\ Renumbered(s)[i].rank = i
               /\ Renumbered(s)[i].chunk = s[i].chunk /\ Renumbered(s)[i].score = s[i].score
    <3>1. i \in Nat /\ s[i] \in Candidates
      BY <1>1
    <3> QED BY <1>2, <3>1 DEF Candidates
  <2> QED BY <2>1
<1>4. Renumbered(s) \in Seq(Candidates) /\ Len(Renumbered(s)) = Len(s)
  <2>1. Renumbered(s) = [i \in 1 .. Len(s) |-> Renumbered(s)[i]]
    <3>1. Renumbered(s) = [i \in DOMAIN s |-> [s[i] EXCEPT !.rank = i]]
      BY DEF Renumbered
    <3> QED BY <1>1, <1>2, <3>1
  <2>2. Renumbered(s) \in [1 .. Len(s) -> Candidates]
    BY <1>1, <1>3, <2>1
  <2> QED BY <1>1, <2>2
<1> QED BY <1>2, <1>3, <1>4 DEF Placed, At

Picks(cands, f) ==
  \A n \in 0 .. Len(cands) : f[n] = IF n = 0 THEN << >> ELSE Append(f[n - 1], SelectNext(cands, f[n - 1]))

LEMMA PicksSelect ==
  ASSUME NEW cands, Placed(cands), NEW f, Picks(cands, f)
  PROVE  \A n \in 0 .. Len(cands) : Selection(cands, f[n], n)
<1> DEFINE L == Len(cands)
           S == {n \in 0 .. L : Selection(cands, f[n], n)}
<1>1. L \in Nat
  BY PlacedPlain
<1>2. 0 \in S
  <2>1. f[0] = << >> /\ 0 \in 0 .. L
    BY <1>1 DEF Picks
  <2>2. Selection(cands, << >>, 0)
    BY EmptySeq DEF Selection
  <2> QED BY <2>1, <2>2
<1>3. ASSUME NEW n \in 0 .. L - 1, n \in S PROVE n + 1 \in S
  <2>1. n + 1 \in 0 .. L /\ n + 1 # 0 /\ (n + 1) - 1 = n /\ n \in Nat /\ n < L
    BY <1>1
  <2>2. f[n + 1] = Append(f[n], SelectNext(cands, f[n]))
    BY <2>1 DEF Picks
  <2>3. Selection(cands, f[n], n)
    BY <1>3
  <2>4. Selection(cands, f[n + 1], n + 1)
    BY <2>1, <2>2, <2>3, SelectionGrows
  <2> QED BY <2>1, <2>4
<1> HIDE DEF S
<1>4. 0 .. L \subseteq S
  BY <1>1, <1>2, <1>3, UpTo
<1> QED BY <1>4 DEF S

LEMMA PicksThere ==
  ASSUME NEW cands, Placed(cands)
  PROVE  \E f : Picks(cands, f) /\ f = [n \in 0 .. Len(cands) |-> f[n]]
<1> DEFINE L == Len(cands)
           X == Seq(DOMAIN cands)
           Step(s) == IF LeftOf(cands, s) # {} THEN Append(s, SelectNext(cands, s)) ELSE s
           step == [n \in 1 .. L |-> [s \in X |-> Step(s)]]
<1>1. L \in Nat
  BY PlacedPlain
<1>2. << >> \in X
  OBVIOUS
<1>3. \A s \in X : Step(s) \in X
  <2>1. ASSUME NEW s \in X PROVE Step(s) \in X
    <3>1. LeftOf(cands, s) # {} => SelectNext(cands, s) \in DOMAIN cands
      BY NextIsBest DEF LeftOf
    <3>2. \A i \in DOMAIN cands : Append(s, i) \in Seq(DOMAIN cands)
      BY AppendProperties
    <3> QED BY <3>1, <3>2
  <2> QED BY <2>1
<1> HIDE DEF Step, X
<1>4. step \in [1 .. L -> [X -> X]] /\ \A n \in 1 .. L, s \in X : step[n][s] = Step(s)
  BY <1>3
<1> HIDE DEF step, L
<1>5. PICK f : Iterated(f, L, X, << >>, step)
  BY <1>1, <1>2, <1>4, Iterates
<1>6. f \in [0 .. L -> X] /\ f[0] = << >> /\ \A n \in 1 .. L : f[n] = Step(f[n - 1])
  <2>1. f \in [0 .. L -> X] /\ f[0] = << >> /\ \A n \in 1 .. L : f[n] = step[n][f[n - 1]]
    BY <1>5 DEF Iterated
  <2>2. ASSUME NEW n \in 1 .. L PROVE f[n] = Step(f[n - 1])
    <3>1. n - 1 \in 0 .. L
      BY <1>1
    <3> QED BY <1>4, <2>1, <3>1
  <2> QED BY <2>1, <2>2
<1>7. ASSUME NEW n \in 0 .. L - 1, Selection(cands, f[n], n)
      PROVE  f[n + 1] = Append(f[n], SelectNext(cands, f[n])) /\ Selection(cands, f[n + 1], n + 1)
  <2>1. n + 1 \in 1 .. L /\ (n + 1) - 1 = n /\ n \in Nat /\ n < L
    BY <1>1
  <2>2. LeftOf(cands, f[n]) # {}
    BY <1>7, <2>1, SelectionLeaves DEF L
  <2>3. f[n + 1] = Append(f[n], SelectNext(cands, f[n]))
    BY <1>6, <2>1, <2>2 DEF Step
  <2> QED BY <1>7, <2>1, <2>3, SelectionGrows DEF L
<1> DEFINE S == {n \in 0 .. L : Selection(cands, f[n], n)}
<1>8. 0 \in S
  <2>1. Selection(cands, << >>, 0)
    BY EmptySeq DEF Selection
  <2> QED BY <1>1, <1>6, <2>1
<1>9. \A n \in 0 .. L - 1 : n \in S => n + 1 \in S
  <2>1. \A n \in 0 .. L - 1 : n + 1 \in 0 .. L
    BY <1>1
  <2> QED BY <1>7, <2>1
<1>10. \A n \in 0 .. L : Selection(cands, f[n], n)
  <2> HIDE DEF S
  <2>1. 0 .. L \subseteq S
    BY <1>1, <1>8, <1>9, UpTo
  <2> QED BY <2>1 DEF S
<1>11. ASSUME NEW n \in 0 .. L, n # 0 PROVE f[n] = Append(f[n - 1], SelectNext(cands, f[n - 1]))
  <2>1. n - 1 \in 0 .. L - 1 /\ n - 1 \in 0 .. L /\ (n - 1) + 1 = n
    BY <1>1, <1>11
  <2> QED BY <1>7, <1>10, <2>1
<1>12. f = [n \in 0 .. L |-> f[n]]
  BY <1>6
<1> QED BY <1>6, <1>11, <1>12 DEF Picks, L

LEMMA PickedRight == \A cands : Placed(cands) => Selection(cands, Picked(cands), Len(cands))
<1> SUFFICES ASSUME NEW cands, Placed(cands) PROVE Selection(cands, Picked(cands), Len(cands))
  OBVIOUS
<1> DEFINE Fun(f) == [n \in 0 .. Len(cands) |->
                        IF n = 0 THEN << >> ELSE Append(f[n - 1], SelectNext(cands, f[n - 1]))]
           chosen == CHOOSE f : f = Fun(f)
<1>1. Picked(cands) = chosen[Len(cands)]
  BY DEF Picked
<1>2. \E f : f = Fun(f)
  <2>1. PICK f : Picks(cands, f) /\ f = [n \in 0 .. Len(cands) |-> f[n]]
    BY PicksThere
  <2>3. [n \in 0 .. Len(cands) |-> f[n]] = Fun(f)
    BY <2>1 DEF Picks
  <2> QED BY <2>1, <2>3
<1>3. chosen = Fun(chosen)
  <2> HIDE DEF Fun
  <2> QED BY <1>2
<1> HIDE DEF chosen
<1>4. Picks(cands, chosen)
  BY <1>3 DEF Picks
<1>5. Len(cands) \in 0 .. Len(cands)
  BY PlacedPlain
<1> QED BY <1>1, <1>4, <1>5, PicksSelect

\* What the diversifier makes of candidates.
Spread(in, out) ==
  /\ ChunksOf(out) = ChunksOf(in)
  /\ \A i, j \in DOMAIN out : i < j =>
       LET Copy(n, of) == \E s \in 1 .. of : Topic[At(out, s)] = Topic[At(out, n)]
       IN  ~(Copy(i, i - 1) /\ ~Copy(j, i - 1) /\ Relevance[At(out, j)] >= Relevance[At(out, i)])

LEMMA DiversifyRight ==
  ASSUME NEW cands, Placed(cands)
  PROVE  Placed(Diversify(cands)) /\ Spread(cands, Diversify(cands))
<1> DEFINE D == DOMAIN cands
           L == Len(cands)
           picked == Picked(cands)
<1>1. D = 1 .. L /\ L \in Nat /\ \A i \in D : cands[i] \in Candidates
  BY PlacedPlain
<1>2. CASE L <= 1
  <2>1. Diversify(cands) = cands
    BY <1>2 DEF Diversify
  <2>2. \A i, j \in D : ~(i < j)
    BY <1>1, <1>2
  <2> QED BY <2>1, <2>2 DEF Spread
<1>3. CASE ~(L <= 1)
  <2> DEFINE s == [n \in D |-> cands[picked[n]]]
             out == Renumbered(s)
  <2>1. Diversify(cands) = out
    BY <1>3 DEF Diversify
  <2>2. Selection(cands, picked, L)
    BY PickedRight
  <2> HIDE DEF picked
  <2>3. /\ picked \in [1 .. L -> 1 .. L]
        /\ \A i, j \in 1 .. L : i # j => picked[i] # picked[j]
    BY <1>1, <2>2 DEF Selection
  <2>4. \A i \in 1 .. L : \E n \in 1 .. L : picked[n] = i
    <3>1. picked \in Injection(1 .. L, 1 .. L)
      BY <2>3 DEF Injection, IsInjective
    <3>2. IsFiniteSet(1 .. L)
      BY <1>1, PlacedPlain
    <3>3. picked \in Surjection(1 .. L, 1 .. L)
      BY <3>1, <3>2, FS_Injection
    <3> QED BY <3>3 DEF Surjection
  <2>5. s \in Seq(Candidates) /\ DOMAIN s = 1 .. L /\ \A n \in 1 .. L : s[n] = cands[picked[n]]
    <3>1. \A n \in 1 .. L : cands[picked[n]] \in Candidates
      BY <1>1, <2>3
    <3>2. s \in [1 .. L -> Candidates]
      BY <1>1, <3>1
    <3> QED BY <1>1, <3>2
  <2> HIDE DEF s
  <2>6. Placed(out) /\ DOMAIN out = 1 .. L /\ \A n \in 1 .. L : At(out, n) = At(cands, picked[n])
    BY <2>5, RenumberedPlaced DEF At
  <2> HIDE DEF out
  <2>7. ChunksOf(out) = ChunksOf(cands)
    <3>1. \A c : c \in ChunksOf(out) <=> \E n \in 1 .. L : c = At(cands, picked[n])
      BY <2>6 DEF ChunksOf
    <3>2. \A c : c \in ChunksOf(cands) <=> \E i \in 1 .. L : c = At(cands, i)
      BY <1>1 DEF ChunksOf
    <3>3. \A n \in 1 .. L : \E i \in 1 .. L : At(cands, i) = At(cands, picked[n])
      BY <2>3
    <3>4. \A i \in 1 .. L : \E n \in 1 .. L : At(cands, i) = At(cands, picked[n])
      BY <2>4
    <3>5. \A c : c \in ChunksOf(out) <=> c \in ChunksOf(cands)
      BY <3>1, <3>2, <3>3, <3>4
    <3> QED BY <3>5 DEF ChunksOf
  <2>8. ASSUME NEW i \in DOMAIN out, NEW j \in DOMAIN out, i < j,
               \E n \in 1 .. i - 1 : Topic[At(out, n)] = Topic[At(out, i)],
               ~ \E n \in 1 .. i - 1 : Topic[At(out, n)] = Topic[At(out, j)],
               Relevance[At(out, j)] >= Relevance[At(out, i)]
        PROVE  FALSE
    <3> DEFINE before == {picked[n] : n \in 1 .. i - 1}
    <3>1. i \in 1 .. L /\ j \in 1 .. L /\ \A n \in 1 .. i - 1 : n \in 1 .. L /\ n # j
      BY <1>1, <2>6, <2>8
    <3>2. picked[j] \notin before /\ picked[j] \in D
      BY <1>1, <2>3, <3>1
    <3>3. LikeOne(cands, picked[i], before)
      BY <2>6, <2>8, <3>1 DEF LikeOne
    <3>4. ~LikeOne(cands, picked[j], before)
      BY <2>6, <2>8, <3>1 DEF LikeOne
    <3>5. Relevance[At(cands, picked[j])] >= Relevance[At(cands, picked[i])]
      BY <2>6, <2>8, <3>1
    <3>6. ~(picked[j] \notin before /\ LikeOne(cands, picked[i], before) /\ ~LikeOne(cands, picked[j], before)
            /\ Relevance[At(cands, picked[j])] >= Relevance[At(cands, picked[i])])
      BY <2>2, <3>1, <3>2 DEF Selection
    <3> QED BY <3>2, <3>3, <3>4, <3>5, <3>6
  <2>9. Spread(cands, out)
    BY <2>7, <2>8 DEF Spread
  <2> QED BY <2>1, <2>6, <2>9
<1> QED BY <1>2, <1>3

-----------------------------------------------------------------------------
\* What deduplication makes of candidates.
Distinct(in, out) ==
  /\ {Text[c] : c \in ChunksOf(out)} = {Text[c] : c \in ChunksOf(in)}
  /\ \A i, j \in DOMAIN out : i # j => Text[At(out, i)] # Text[At(out, j)]
  /\ \A i \in DOMAIN out : \E n \in DOMAIN in :
       /\ At(in, n) = At(out, i)
       /\ \A m \in 1 .. n - 1 : \E j \in 1 .. i - 1 : Text[At(out, j)] = Text[At(in, m)]

LEMMA DeduplicateRight ==
  ASSUME NEW cands, Placed(cands)
  PROVE  Placed(Deduplicate(cands)) /\ Distinct(cands, Deduplicate(cands))
<1> DEFINE D == DOMAIN cands
           L == Len(cands)
           text == [i \in D |-> Text[At(cands, i)]]
           F == FirstPlaces(text, {})
           first == Ascending(F)
           s == [n \in DOMAIN first |-> cands[first[n]]]
           out == Renumbered(s)
<1>1. D = 1 .. L /\ L \in Nat /\ \A i \in D : cands[i] \in Candidates
  BY PlacedPlain
<1>2. Deduplicate(cands) = out
  BY DEF Deduplicate
<1>3. \A i : i \in F <=> i \in 1 .. L /\ \A j \in 1 .. i - 1 : text[j] # text[i]
  BY <1>1 DEF FirstPlaces
<1>4. F \in SUBSET (1 .. L)
  BY <1>3
<1>5. ASSUME NEW i \in 1 .. L PROVE \E p \in F : p <= i /\ text[p] = text[i]
  <2> DEFINE same == {j \in 1 .. L : text[j] = text[i]}
  <2>1. same # {} /\ same \in SUBSET Int /\ i \in same
    OBVIOUS
  <2>2. IsFiniteSet(same)
    <3>1. IsFiniteSet(1 .. L)
      BY <1>1, PlacedPlain
    <3> QED BY <3>1, FS_Subset
  <2>3. PICK p \in same : \A j \in same : p <= j
    <3> HIDE DEF same
    <3> QED BY <2>1, <2>2, FiniteMin
  <2>4. ASSUME NEW j \in 1 .. p - 1, text[j] = text[p] PROVE FALSE
    <3>1. j \in 1 .. L /\ j < p /\ j \in Int /\ p \in Int
      BY <1>1, <2>3
    <3>2. j \in same
      BY <2>3, <2>4, <3>1
    <3> QED BY <2>3, <3>1, <3>2
  <2>5. p \in 1 .. L /\ text[p] = text[i] /\ p <= i
    BY <2>1, <2>3
  <2> HIDE DEF F, text
  <2> QED BY <1>3, <2>4, <2>5
<1> DEFINE N == Len(first)
<1> HIDE DEF F
<1>6. /\ DOMAIN first = 1 .. N /\ N \in Nat
      /\ \A n \in 1 .. N : first[n] \in F
      /\ \A i \in F : \E n \in 1 .. N : first[n] = i
      /\ \A m, n \in 1 .. N : m < n => first[m] < first[n]
  BY <1>1, <1>4, AscendingRight
<1> HIDE DEF first, N
<1>7. \A n \in 1 .. N : first[n] \in 1 .. L
  BY <1>4, <1>6
<1>8. s \in Seq(Candidates) /\ DOMAIN s = 1 .. N /\ \A n \in 1 .. N : s[n] = cands[first[n]]
  <2>1. \A n \in 1 .. N : cands[first[n]] \in Candidates
    BY <1>1, <1>7
  <2>2. s \in [1 .. N -> Candidates]
    BY <1>6, <2>1
  <2> QED BY <1>6, <2>2
<1> HIDE DEF s
<1>9. Placed(out) /\ DOMAIN out = 1 .. N /\ \A n \in 1 .. N : At(out, n) = At(cands, first[n])
  <2>1. /\ Placed(out) /\ DOMAIN out = DOMAIN s
        /\ \A n \in DOMAIN s : At(out, n) = At(s, n)
    BY <1>8, RenumberedPlaced
  <2>2. \A n \in 1 .. N : At(s, n) = At(cands, first[n])
    BY <1>8 DEF At
  <2> HIDE DEF out
  <2> QED BY <1>8, <2>1, <2>2
<1> HIDE DEF out
<1>10. \A n \in 1 .. N : Text[At(out, n)] = text[first[n]]
  BY <1>1, <1>7, <1>9
<1>11. \A i \in 1 .. L : text[i] = Text[At(cands, i)]
  BY <1>1
<1> HIDE DEF text
<1>12. {Text[c] : c \in ChunksOf(out)} = {Text[c] : c \in ChunksOf(cands)}
  <2> DEFINE A == {Text[c] : c \in ChunksOf(out)}
             B == {Text[c] : c \in ChunksOf(cands)}
  <2>1. \A t : t \in A <=> \E n \in 1 .. N : t = text[first[n]]
    BY <1>9, <1>10 DEF ChunksOf
  <2>2. \A t : t \in B <=> \E i \in 1 .. L : t = text[i]
    BY <1>1, <1>11 DEF ChunksOf
  <2>3. ASSUME NEW i \in 1 .. L PROVE \E n \in 1 .. N : text[first[n]] = text[i]
    <3>1. PICK p \in F : p <= i /\ text[p] = text[i]
      BY <1>5
    <3>2. PICK n \in 1 .. N : first[n] = p
      BY <1>6
    <3> QED BY <3>1, <3>2
  <2>4. \A n \in 1 .. N : \E i \in 1 .. L : text[first[n]] = text[i]
    BY <1>7
  <2> HIDE DEF A, B
  <2>5. ASSUME NEW t \in A PROVE t \in B
    <3>1. PICK n \in 1 .. N : t = text[first[n]]
      BY <2>1
    <3> QED BY <2>2, <2>4, <3>1
  <2>6. ASSUME NEW t \in B PROVE t \in A
    <3>1. PICK i \in 1 .. L : t = text[i]
      BY <2>2
    <3> QED BY <2>1, <2>3, <3>1
  <2>7. A = B
    BY <2>5, <2>6
  <2> QED BY <2>7 DEF A, B
<1>13. ASSUME NEW i \in 1 .. N, NEW j \in 1 .. N, i < j PROVE text[first[i]] # text[first[j]]
  <2>1. first[i] < first[j] /\ first[j] \in F /\ first[i] \in 1 .. L /\ first[j] \in 1 .. L
    BY <1>6, <1>7, <1>13
  <2>2. first[i] \in 1 .. first[j] - 1
    BY <1>1, <2>1
  <2> QED BY <1>3, <2>1, <2>2
<1>14. ASSUME NEW i \in DOMAIN out, NEW j \in DOMAIN out, i # j PROVE Text[At(out, i)] # Text[At(out, j)]
  <2>1. i \in 1 .. N /\ j \in 1 .. N /\ (i < j \/ j < i)
    BY <1>6, <1>9, <1>14
  <2> QED BY <1>10, <1>13, <2>1
<1>15. ASSUME NEW i \in DOMAIN out
       PROVE  \E n \in DOMAIN cands :
                /\ At(cands, n) = At(out, i)
                /\ \A m \in 1 .. n - 1 : \E j \in 1 .. i - 1 : Text[At(out, j)] = Text[At(cands, m)]
  <2>1. i \in 1 .. N /\ first[i] \in 1 .. L /\ At(cands, first[i]) = At(out, i)
    BY <1>7, <1>9
  <2>2. ASSUME NEW m \in 1 .. first[i] - 1
        PROVE  \E j \in 1 .. i - 1 : Text[At(out, j)] = Text[At(cands, m)]
    <3>1. m \in 1 .. L /\ m < first[i] /\ m \in Int /\ first[i] \in Int
      BY <1>1, <2>1
    <3>2. PICK p \in F : p <= m /\ text[p] = text[m]
      BY <1>5, <3>1
    <3>3. PICK j \in 1 .. N : first[j] = p
      BY <1>6, <3>2
    <3>4. p \in Int /\ p < first[i] /\ ~(first[i] <= p)
      BY <1>4, <3>1, <3>2
    <3>5. j < i
      <4>1. j = i \/ i < j \/ j < i
        BY <1>6, <2>1
      <4> QED BY <1>6, <2>1, <3>3, <3>4, <4>1
    <3>6. j \in 1 .. i - 1 /\ Text[At(out, j)] = text[p] /\ Text[At(cands, m)] = text[m]
      BY <1>6, <1>10, <1>11, <2>1, <3>1, <3>3, <3>5
    <3> QED BY <3>2, <3>6
  <2> QED BY <1>1, <2>1, <2>2
<1>16. Distinct(cands, out)
  BY <1>12, <1>14, <1>15 DEF Distinct
<1> QED BY <1>2, <1>9, <1>16

-----------------------------------------------------------------------------
\* What the expander makes of candidates.
ChildrenOf(in, p) == {i \in DOMAIN in : Parent[At(in, i)] = p /\ At(in, i) # p}
SelvesOf(in, p) == {i \in DOMAIN in : At(in, i) = p /\ Parent[p] = p}
EntriesOf(out, p) == {i \in DOMAIN out : At(out, i) = p}
Carried(in, out) ==
  \A p \in Chunks :
    /\ Cardinality(EntriesOf(out, p)) = (IF ChildrenOf(in, p) = {} THEN 0 ELSE 1) + Cardinality(SelvesOf(in, p))
    /\ ChildrenOf(in, p) # {} => \E e \in EntriesOf(out, p) : \E c \in ChildrenOf(in, p) :
         out[e].score = in[c].score /\ \A d \in ChildrenOf(in, p) : in[d].score <= in[c].score

Openers(in) == {i \in DOMAIN in : \A j \in Family(in, i) : i <= j}

\* Entries of a parent are opened by itself, wherever it stands, and by the first of
\* its children.
LEMMA OpenedBy ==
  ASSUME NEW cands, Placed(cands), NEW p \in Chunks
  PROVE  LET opened == {i \in Openers(cands) : Parent[At(cands, i)] = p}
         IN  /\ ChildrenOf(cands, p) = {} => opened = SelvesOf(cands, p)
             /\ ChildrenOf(cands, p) # {} =>
                  \E m \in ChildrenOf(cands, p) : m \in opened /\ opened = SelvesOf(cands, p) \cup {m}
<1> DEFINE D == DOMAIN cands
           C == ChildrenOf(cands, p)
           opened == {i \in Openers(cands) : Parent[At(cands, i)] = p}
<1>1. D = 1 .. Len(cands) /\ D \in SUBSET Int /\ IsFiniteSet(D)
  BY PlacedPlain
<1>2. C \in SUBSET D /\ C \in SUBSET Int /\ IsFiniteSet(C)
  <2>1. C \in SUBSET D
    BY DEF ChildrenOf
  <2> QED BY <1>1, <2>1, FS_Subset
<1>3. \A i \in C : Family(cands, i) = C
  BY DEF Family, ChildrenOf
<1>4. \A i \in D : Parent[At(cands, i)] = p => i \in C \/ i \in SelvesOf(cands, p)
  BY DEF ChildrenOf, SelvesOf
<1>5. \A i \in SelvesOf(cands, p) : i \in opened
  <2>1. ASSUME NEW i \in SelvesOf(cands, p) PROVE i \in opened
    <3>1. i \in D /\ At(cands, i) = p /\ Parent[p] = p
      BY DEF SelvesOf
    <3>2. Family(cands, i) = {i} /\ i <= i
      BY <1>1, <3>1 DEF Family
    <3> QED BY <3>1, <3>2 DEF Openers
  <2> QED BY <2>1
<1>6. \A i \in C : i \in opened <=> \A j \in C : i <= j
  BY <1>2, <1>3 DEF Openers, ChildrenOf
<1>7. opened \subseteq D /\ \A i \in opened : Parent[At(cands, i)] = p
  BY DEF Openers
<1> HIDE DEF C, opened
<1>8. C = {} => opened = SelvesOf(cands, p)
  BY <1>4, <1>5, <1>7
<1>9. ASSUME C # {} PROVE \E m \in C : m \in opened /\ opened = SelvesOf(cands, p) \cup {m}
  <2>1. PICK m \in C : \A j \in C : m <= j
    BY <1>2, <1>9, FiniteMin
  <2>2. m \in opened
    BY <1>6, <2>1
  <2>3. ASSUME NEW i \in C, i \in opened PROVE i = m
    <3>1. i <= m /\ m <= i /\ i \in Int /\ m \in Int
      BY <1>2, <1>6, <2>1, <2>3
    <3> QED BY <3>1
  <2>4. opened = SelvesOf(cands, p) \cup {m}
    BY <1>4, <1>5, <1>7, <2>2, <2>3
  <2> QED BY <2>2, <2>4
<1> QED BY <1>8, <1>9 DEF C, opened

LEMMA ExpandRight ==
  ASSUME NEW cands, Placed(cands)
  PROVE  Placed(Expand(cands)) /\ Carried(cands, Expand(cands))
<1> DEFINE D == DOMAIN cands
           L == Len(cands)
           F == Openers(cands)
           first == Ascending(F)
           best(i) == Max({cands[j].score : j \in Family(cands, i)})
           out == [n \in DOMAIN first |-> [chunk |-> Parent[At(cands, first[n])], score |-> best(first[n]), rank |-> n]]
           N == Len(first)
<1>1. /\ D = 1 .. L /\ L \in Nat /\ IsFiniteSet(D)
      /\ \A i \in D : At(cands, i) \in Chunks /\ cands[i].score \in Int
  BY PlacedPlain
<1>2. Expand(cands) = out
  BY DEF Expand, Openers
<1>3. F \in SUBSET (1 .. L)
  BY <1>1 DEF Openers
<1>4. ASSUME NEW i \in D
      PROVE  /\ best(i) \in Int
             /\ \E c \in Family(cands, i) : best(i) = cands[c].score /\ \A d \in Family(cands, i) : cands[d].score <= cands[c].score
  <2> DEFINE fam == Family(cands, i)
             score == [j \in fam |-> cands[j].score]
             scores == {cands[j].score : j \in fam}
  <2>1. fam \subseteq D /\ i \in fam
    BY DEF Family
  <2> HIDE DEF fam
  <2>2. IsFiniteSet(fam)
    BY <1>1, <2>1, FS_Subset
  <2>3. score \in Surjection(fam, scores)
    BY DEF Surjection
  <2>4. scores \in SUBSET Int /\ scores # {}
    BY <1>1, <2>1
  <2>5. IsFiniteSet(scores)
    BY <2>2, <2>3, FS_Surjection
  <2>6. Max(scores) \in scores /\ \A x \in scores : x <= Max(scores)
    <3> HIDE DEF scores
    <3> QED BY <2>4, <2>5, FiniteMax
  <2>7. best(i) = Max(scores)
    BY DEF fam
  <2> HIDE DEF best
  <2>8. PICK c \in fam : Max(scores) = cands[c].score
    BY <2>6
  <2>9. \A d \in fam : cands[d].score \in scores
    OBVIOUS
  <2>10. \A d \in fam : cands[d].score <= cands[c].score
    BY <2>6, <2>8, <2>9
  <2>11. best(i) \in Int
    BY <2>4, <2>6, <2>7
  <2> QED BY <2>7, <2>8, <2>10, <2>11 DEF fam
<1> HIDE DEF F, best
<1>5. /\ DOMAIN first = 1 .. N /\ N \in Nat
      /\ \A n \in 1 .. N : first[n] \in F
      /\ \A i \in F : \E n \in 1 .. N : first[n] = i
      /\ \A m, n \in 1 .. N : m < n => first[m] < first[n]
  BY <1>1, <1>3, AscendingRight
<1> HIDE DEF first, N
<1>6. \A n \in 1 .. N : first[n] \in D
  BY <1>1, <1>3, <1>5
<1>7. /\ DOMAIN out = 1 .. N
      /\ \A n \in 1 .. N : /\ out[n] = [chunk |-> Parent[At(cands, first[n])], score |-> best(first[n]), rank |-> n]
                           /\ At(out, n) = Parent[At(cands, first[n])] /\ out[n].score = best(first[n]) /\ out[n].rank = n
  BY <1>5 DEF At
<1>8. Placed(out)
  <2>1. \A c \in Chunks : Parent[c] \in Chunks
    BY RankingAssumption
  <2>2. \A n \in 1 .. N : Parent[At(cands, first[n])] \in Chunks /\ best(first[n]) \in Int /\ n \in Nat
    BY <1>1, <1>4, <1>5, <1>6, <2>1
  <2>3. \A n \in 1 .. N : out[n] \in Candidates
    BY <1>7, <2>2 DEF Candidates
  <2>4. out = [n \in 1 .. N |-> out[n]]
    BY <1>5, <1>7
  <2> HIDE DEF out
  <2>5. out \in [1 .. N -> Candidates]
    BY <2>3, <2>4
  <2>6. out \in Seq(Candidates)
    BY <1>5, <2>5
  <2> QED BY <1>7, <2>6 DEF Placed
<1> HIDE DEF out
<1>9. ASSUME NEW m \in 1 .. N, NEW n \in 1 .. N, first[m] = first[n] PROVE m = n
  <2>1. m \in Int /\ n \in Int /\ first[m] \in Int /\ first[n] \in Int
    BY <1>1, <1>5, <1>6
  <2>2. ~(first[m] < first[n]) /\ ~(first[n] < first[m])
    BY <1>9, <2>1
  <2> QED BY <1>5, <2>1, <2>2
<1>10. ASSUME NEW p \in Chunks
       PROVE  /\ Cardinality(EntriesOf(out, p)) = (IF ChildrenOf(cands, p) = {} THEN 0 ELSE 1) + Cardinality(SelvesOf(cands, p))
              /\ ChildrenOf(cands, p) # {} => \E e \in EntriesOf(out, p) : \E c \in ChildrenOf(cands, p) :
                   out[e].score = cands[c].score /\ \A d \in ChildrenOf(cands, p) : cands[d].score <= cands[c].score
  <2> DEFINE C == ChildrenOf(cands, p)
             E == EntriesOf(out, p)
             opened == {i \in F : Parent[At(cands, i)] = p}
  <2>1. E = {n \in 1 .. N : first[n] \in opened}
    BY <1>5, <1>7 DEF EntriesOf
  <2>2. opened \subseteq F
    OBVIOUS
  <2>3. /\ C = {} => opened = SelvesOf(cands, p)
        /\ C # {} => \E m \in C : m \in opened /\ opened = SelvesOf(cands, p) \cup {m}
    BY OpenedBy DEF F
  <2> HIDE DEF opened, E
  <2>4. Cardinality(E) = Cardinality(opened)
    <3> DEFINE f == [n \in E |-> first[n]]
    <3>1. f \in Surjection(E, opened)
      <4>1. f \in [E -> opened]
        BY <2>1
      <4>2. \A i \in opened : \E n \in E : f[n] = i
        BY <1>5, <2>1, <2>2
      <4> QED BY <4>1, <4>2 DEF Surjection
    <3>2. f \in Injection(E, opened)
      <4>1. f \in [E -> opened]
        BY <2>1
      <4>2. \A m, n \in E : f[m] = f[n] => m = n
        BY <1>9, <2>1
      <4> QED BY <4>1, <4>2 DEF Injection, IsInjective
    <3>3. IsFiniteSet(E)
      <4>1. IsFiniteSet(1 .. N)
        <5>1. 1 \in Int /\ N \in Int
          BY <1>5
        <5> QED BY <5>1, FS_Interval
      <4> QED BY <2>1, <4>1, FS_Subset
    <3> HIDE DEF f
    <3> QED BY <3>1, <3>2, <3>3, FS_Surjection
  <2>5. IsFiniteSet(SelvesOf(cands, p)) /\ \A m \in C : m \notin SelvesOf(cands, p)
    <3>1. SelvesOf(cands, p) \in SUBSET D /\ \A m \in C : m \notin SelvesOf(cands, p)
      BY DEF SelvesOf, ChildrenOf
    <3> QED BY <1>1, <3>1, FS_Subset
  <2>6. Cardinality(SelvesOf(cands, p)) \in Nat
    BY <2>5, FS_CardinalityType
  <2>7. CASE C = {}
    BY <2>3, <2>4, <2>6, <2>7 DEF E
  <2>8. CASE C # {}
    <3>1. PICK m \in C : m \in opened /\ opened = SelvesOf(cands, p) \cup {m}
      BY <2>3, <2>8
    <3>2. Cardinality(opened) = Cardinality(SelvesOf(cands, p)) + 1
      BY <2>5, <3>1, FS_AddElement
    <3>3. PICK e \in 1 .. N : first[e] = m
      BY <1>5, <2>2, <3>1
    <3>4. e \in E /\ out[e].score = best(m)
      BY <1>7, <2>1, <3>1, <3>3
    <3>5. Family(cands, m) = C /\ m \in D
      BY DEF Family, ChildrenOf
    <3>6. \E c \in C : best(m) = cands[c].score /\ \A d \in C : cands[d].score <= cands[c].score
      BY <1>4, <3>5
    <3> QED BY <2>4, <2>6, <2>8, <3>2, <3>4, <3>6 DEF E
  <2> QED BY <2>7, <2>8
<1> QED BY <1>2, <1>8, <1>10 DEF Carried

-----------------------------------------------------------------------------
LEMMA LoseInTheMiddleRight ==
  ASSUME NEW cands, Placed(cands)
  PROVE  Placed(LoseInTheMiddle(cands))
<1> DEFINE n == Len(cands)
           top == (n + 1) \div 2
           from(i) == IF i <= top THEN 2 * i - 1 ELSE 2 * (n + 1 - i)
           s == [i \in 1 .. n |-> cands[from(i)]]
<1>1. DOMAIN cands = 1 .. n /\ n \in Nat /\ \A i \in DOMAIN cands : cands[i] \in Candidates
  BY PlacedPlain
<1>2. LoseInTheMiddle(cands) = IF n <= 2 THEN cands ELSE Renumbered(s)
  BY DEF LoseInTheMiddle
<1>3. top \in Nat /\ 2 * top <= n + 1 /\ n + 1 < 2 * top + 2
  BY <1>1
<1> HIDE DEF top, n
<1>4. \A i \in 1 .. n : from(i) \in 1 .. n
  BY <1>1, <1>3
<1> HIDE DEF from
<1>5. s \in [1 .. n -> Candidates]
  BY <1>1, <1>4
<1>6. s \in Seq(Candidates)
  BY <1>1, <1>5
<1> HIDE DEF s
<1>7. Placed(Renumbered(s))
  BY <1>6, RenumberedPlaced
<1> QED BY <1>2, <1>7

-----------------------------------------------------------------------------
(***************************************************************************)
(* The pipeline, stage by stage.                                           *)
(***************************************************************************)

RankingShape ==
  /\ stage \in {"gather", "fuse", "rerank", "post", "done", "raised"}
  /\ setup \in Setups
  /\ lists \in [Retrievers -> Answers \cup {Pending}]
  /\ stage \notin {"gather", "raised"} => Gathered
  /\ Placed(ranking)
  /\ nextPost \in 1 .. Len(setup.posts) + 1
  /\ stage \in {"gather", "fuse", "rerank"} => nextPost = 1
  /\ stage = "done" => Len(ranking) <= setup.k

\* Until a post-processor runs the ranking is what fusion made, as far as the
\* reranker's cut.
FusionKept ==
  /\ stage = "rerank" => ranking = Fusion
  /\ stage = "post" /\ nextPost = 1 /\ setup.reranker = "null" =>
       ranking = SubSeq(Fusion, 1, Least(RerankTop, Len(Fusion)))

RankingInv ==
  /\ RankingShape /\ FusionKept /\ BestKReturned
  /\ Ran("mmr") => Spread(input, ranking)
  /\ Ran("parents") => Carried(input, ranking)
  /\ Ran("dedup") => Distinct(input, ranking)

\* A ranking that is cut.
LEMMA CutPlaced ==
  ASSUME NEW cands, Placed(cands), NEW n \in Nat, n <= Len(cands)
  PROVE  /\ Placed(SubSeq(cands, 1, n)) /\ Len(SubSeq(cands, 1, n)) = n
         /\ DOMAIN SubSeq(cands, 1, n) = 1 .. n
         /\ \A i \in 1 .. n : SubSeq(cands, 1, n)[i] = cands[i]
<1>1. DOMAIN cands = 1 .. Len(cands) /\ Len(cands) \in Nat /\ cands \in Seq(Candidates)
  BY PlacedPlain DEF Placed
<1>2. \A i \in 1 .. Len(cands) : cands[i].rank = i
  BY <1>1 DEF Placed
<1> DEFINE T == Candidates
<1> HIDE DEF T
<1>3. cands \in Seq(T)
  BY <1>1 DEF T
<1>4. \A i \in 1 .. n : i \in 1 .. Len(cands)
  BY <1>1
<1>5. /\ SubSeq(cands, 1, n) \in Seq(T) /\ Len(SubSeq(cands, 1, n)) = IF 1 <= n THEN n - 1 + 1 ELSE 0
      /\ \A i \in 1 .. n - 1 + 1 : SubSeq(cands, 1, n)[i] = cands[1 + i - 1]
  <2>1. \A i \in 1 .. n : i \in DOMAIN cands
    BY <1>1, <1>4
  <2> QED BY <1>1, <1>3, <2>1, SubSeqProperties
<1> DEFINE cut == SubSeq(cands, 1, n)
<1> HIDE DEF cut
<1>6. cut \in Seq(T) /\ Len(cut) = n /\ \A i \in 1 .. n : cut[i] = cands[i]
  <2>1. n - 1 + 1 = n /\ \A i \in 1 .. n : 1 + i - 1 = i
    OBVIOUS
  <2> QED BY <1>5, <2>1 DEF cut
<1>7. DOMAIN cut = 1 .. n
  BY <1>6
<1>8. \A i \in DOMAIN cut : cut[i].rank = i
  BY <1>2, <1>4, <1>6, <1>7
<1> QED BY <1>6, <1>7, <1>8 DEF Placed, cut, T

LEMMA RankingInitial == RankingInit => RankingInv
<1> SUFFICES ASSUME RankingInit PROVE RankingInv
  OBVIOUS
<1>1. /\ setup \in Setups /\ stage = "gather" /\ lists = [r \in Retrievers |-> Pending]
      /\ ranking = << >> /\ nextPost = 1
  BY DEF RankingInit
<1>2. setup.posts \in Seq(PostProcessors)
  BY <1>1, RankingAssumption
<1>3. Len(setup.posts) \in Nat
  BY <1>2
<1>4. Placed(<< >>)
  BY EmptySeq DEF Placed
<1>5. RankingShape
  <2>1. lists \in [Retrievers -> Answers \cup {Pending}]
    BY <1>1
  <2>2. nextPost \in 1 .. Len(setup.posts) + 1
    BY <1>1, <1>3
  <2> QED BY <1>1, <1>4, <2>1, <2>2 DEF RankingShape
<1> QED BY <1>1, <1>5 DEF RankingInv, FusionKept, BestKReturned, Ran

\* Fusion depends on the set-up and the answers.
LEMMA FusionStays ==
  ASSUME setup' = setup, lists' = lists
  PROVE  /\ Fusion' = Fusion /\ RerankTop' = RerankTop /\ Gathered' = Gathered /\ Offered' = Offered
         /\ \A c : FusedScore(c)' = FusedScore(c)
<1>1. \A c : FusedScore(c)' = FusedScore(c)
  BY DEF FusedScore, Holds, PlaceOf, At, Worth, Normalised, Reciprocal
<1>2. Offered' = Offered
  BY DEF Offered, ChunksOf, At
<1>3. Gathered' = Gathered /\ RerankTop' = RerankTop
  BY DEF Gathered, RerankTop, Greatest
<1>4. Fusion' = Fusion
  BY DEF Fusion, FusedScore, MetBefore, FirstList, Holds, PlaceOf, At, Worth, Normalised, Reciprocal, Offered, ChunksOf
<1> QED BY <1>1, <1>2, <1>3, <1>4

\* The k best come back: the cut of the reranker's cut is one of the fused ranking.
LEMMA CutBest ==
  ASSUME RankingInv, Cut, setup.posts = << >>, setup.reranker = "null"
  PROVE  /\ Len(ranking') = Least(setup.k, Cardinality(Offered))
         /\ \A c \in ChunksOf(ranking'), d \in Offered \ ChunksOf(ranking') : FusedScore(c) >= FusedScore(d)
<1> DEFINE k == setup.k
           n == Least(RerankTop, Len(Fusion))
           m == Least(k, Len(ranking))
<1>1. stage = "post" /\ nextPost = Len(setup.posts) + 1 /\ ranking' = SubSeq(ranking, 1, m)
  BY DEF Cut
<1>2. nextPost = 1
  <2>1. Len(setup.posts) = 0
    OBVIOUS
  <2> QED BY <1>1, <2>1
<1>3. Gathered /\ Placed(ranking) /\ ranking = SubSeq(Fusion, 1, n)
  BY <1>1, <1>2 DEF RankingInv, RankingShape, FusionKept
<1>4. /\ Placed(Fusion) /\ Len(Fusion) = Cardinality(Offered) /\ ChunksOf(Fusion) = Offered
      /\ DOMAIN Fusion = 1 .. Len(Fusion) /\ Len(Fusion) \in Nat
      /\ \A i, j \in DOMAIN Fusion : i < j => FusedBefore(At(Fusion, i), At(Fusion, j))
  BY <1>3, FusionRight
<1>5. k \in Nat /\ RerankTop \in Nat /\ k <= RerankTop
  <2>1. setup.k \in Nat /\ setup.rerankK \in Nat
    BY RankingAssumption DEF RankingInv, RankingShape
  <2> QED BY <2>1 DEF RerankTop, Greatest
<1> HIDE DEF k
<1>6. n \in Nat /\ n <= Len(Fusion)
  BY <1>4, <1>5 DEF Least
<1>7. Len(ranking) = n /\ DOMAIN ranking = 1 .. n /\ \A i \in 1 .. n : ranking[i] = Fusion[i]
  <2> HIDE DEF n
  <2> QED BY <1>3, <1>4, <1>6, CutPlaced
<1>8. m \in Nat /\ m <= n /\ m = Least(k, Len(Fusion))
  BY <1>4, <1>5, <1>7 DEF Least
<1>9. Len(ranking') = m /\ DOMAIN ranking' = 1 .. m /\ \A i \in 1 .. m : ranking'[i] = ranking[i]
  <2>1. m <= Len(ranking)
    BY <1>7, <1>8
  <2> HIDE DEF m
  <2> QED BY <1>1, <1>3, <1>8, <2>1, CutPlaced
<1> HIDE DEF m, n
<1>10. \A i \in 1 .. m : At(ranking', i) = At(Fusion, i) /\ i \in DOMAIN Fusion
  BY <1>4, <1>6, <1>7, <1>8, <1>9 DEF At
<1>11. ASSUME NEW b \in ChunksOf(ranking'), NEW c \in Offered \ ChunksOf(ranking')
       PROVE  FusedScore(b) >= FusedScore(c)
  <2>0. PICK i \in DOMAIN ranking' : At(ranking', i) = b
    BY DEF ChunksOf
  <2>1. PICK j \in DOMAIN Fusion : At(Fusion, j) = c
    BY <1>4 DEF ChunksOf
  <2>2. ~(j \in 1 .. m)
    <3>1. ASSUME j \in 1 .. m PROVE FALSE
      <4>1. At(ranking', j) = c /\ j \in DOMAIN ranking'
        BY <1>9, <1>10, <2>1, <3>1
      <4>2. c \in ChunksOf(ranking')
        BY <4>1 DEF ChunksOf
      <4> QED BY <4>2
    <3> QED BY <3>1
  <2>3. i \in 1 .. m /\ i \in DOMAIN Fusion /\ b = At(Fusion, i)
    BY <1>9, <1>10, <2>0
  <2>4. i < j
    BY <1>4, <1>8, <2>1, <2>2, <2>3
  <2>5. FusedBefore(b, c)
    BY <1>4, <2>1, <2>3, <2>4
  <2>6. b \in Offered
    BY <1>4, <2>3 DEF ChunksOf
  <2>7. FusedScore(b) \in Nat /\ FusedScore(c) \in Nat
    BY <1>3, <2>6, FusionOrders
  <2> QED BY <2>5, <2>7 DEF FusedBefore
<1> QED BY <1>4, <1>8, <1>9, <1>11 DEF k

LEMMA RankingStep == RankingInv /\ [RankingNext]_rankingVars => RankingInv'
<1> SUFFICES ASSUME RankingInv, [RankingNext]_rankingVars PROVE RankingInv'
  OBVIOUS
<1>1. /\ stage \in {"gather", "fuse", "rerank", "post", "done", "raised"}
      /\ setup \in Setups /\ lists \in [Retrievers -> Answers \cup {Pending}]
      /\ stage \notin {"gather", "raised"} => Gathered
      /\ Placed(ranking) /\ nextPost \in 1 .. Len(setup.posts) + 1
      /\ stage \in {"gather", "fuse", "rerank"} => nextPost = 1
  BY DEF RankingInv, RankingShape
<1>2. setup.k \in Nat \ {0} /\ setup.rerankK \in Nat /\ setup.posts \in Seq(PostProcessors)
  BY <1>1, RankingAssumption
<1>3. Len(setup.posts) \in Nat /\ DOMAIN setup.posts = 1 .. Len(setup.posts)
  BY <1>2
<1>4. RerankTop \in Nat
  BY <1>2 DEF RerankTop, Greatest
<1>5. ASSUME NEW r \in Retrievers, NEW answer \in Answers, Answer(r, answer) PROVE RankingInv'
  <2>1. /\ stage = "gather" /\ lists' = [lists EXCEPT ![r] = answer]
        /\ stage' = IF \E q \in Retrievers \ {r} : lists[q] = Pending THEN "gather" ELSE "fuse"
        /\ UNCHANGED <<setup, ranking, input, nextPost>>
    BY <1>5 DEF Answer
  <2>2. lists' \in [Retrievers -> Answers \cup {Pending}]
    BY <1>1, <2>1
  <2>3. stage' = "fuse" => \A q \in Retrievers : lists'[q] \in Answers
    BY <1>1, <2>1
  <2>4. stage' \in {"gather", "fuse"} /\ nextPost' = 1
    BY <1>1, <2>1
  <2>5. RankingShape'
    BY <1>1, <2>1, <2>2, <2>3, <2>4 DEF RankingShape, Gathered, Placed
  <2> QED BY <2>4, <2>5 DEF RankingInv, FusionKept, BestKReturned, Ran
<1>6. ASSUME NEW r \in Retrievers, AnswerFails(r) PROVE RankingInv'
  <2>1. stage' = "raised" /\ UNCHANGED <<setup, lists, ranking, input, nextPost>>
    BY <1>6 DEF AnswerFails
  <2>2. RankingShape'
    BY <1>1, <2>1 DEF RankingShape, Placed
  <2> QED BY <2>1, <2>2 DEF RankingInv, FusionKept, BestKReturned, Ran
<1>7. CASE Fuse
  <2>1. stage = "fuse" /\ stage' = "rerank" /\ ranking' = Fusion /\ UNCHANGED <<setup, lists, input, nextPost>>
    BY <1>7 DEF Fuse
  <2>2. Gathered /\ Gathered' /\ Fusion' = Fusion
    BY <1>1, <2>1, FusionStays
  <2>3. Placed(ranking')
    BY <2>1, <2>2, FusionRight
  <2>4. RankingShape'
    BY <1>1, <2>1, <2>2, <2>3 DEF RankingShape, Placed
  <2>5. FusionKept'
    BY <2>1, <2>2 DEF FusionKept
  <2> QED BY <2>1, <2>4, <2>5 DEF RankingInv, BestKReturned, Ran
<1>8. CASE Rerank
  <2> DEFINE top == Least(RerankTop, Len(ranking))
  <2>1. /\ stage = "rerank" /\ stage' = "post" /\ UNCHANGED <<setup, lists, nextPost>>
        /\ setup.reranker = "null" => ranking' = SubSeq(ranking, 1, top)
        /\ setup.reranker # "null" =>
             \E order \in [1 .. top -> DOMAIN ranking] :
               ranking' = [i \in 1 .. top |-> [chunk |-> At(ranking, order[i]), score |-> Unit \div (i + 1), rank |-> i]]
    BY <1>8 DEF Rerank
  <2>2. Gathered /\ Gathered' /\ Fusion' = Fusion /\ RerankTop' = RerankTop /\ nextPost = 1
    BY <1>1, <2>1, FusionStays
  <2>3. top \in Nat /\ top <= Len(ranking) /\ Len(ranking) \in Nat
    BY <1>1, <1>4, PlacedPlain DEF Least
  <2>4. Placed(ranking')
    <3>1. CASE setup.reranker = "null"
      <4>1. ranking' = SubSeq(ranking, 1, top)
        BY <2>1, <3>1
      <4> HIDE DEF top
      <4> QED BY <1>1, <2>3, <4>1, CutPlaced
    <3>2. CASE setup.reranker # "null"
      <4>1. PICK order \in [1 .. top -> DOMAIN ranking] :
              ranking' = [i \in 1 .. top |-> [chunk |-> At(ranking, order[i]), score |-> Unit \div (i + 1), rank |-> i]]
        BY <2>1, <3>2
      <4> HIDE DEF top
      <4>2. \A i \in 1 .. top : At(ranking, order[i]) \in Chunks /\ Unit \div (i + 1) \in Int /\ i \in Nat
        <5>1. \A i \in 1 .. top : At(ranking, order[i]) \in Chunks
          BY <1>1, PlacedPlain
        <5>2. Unit \in Nat
          BY RankingAssumption
        <5>3. \A i \in 1 .. top : Unit \div (i + 1) \in Int /\ i \in Nat
          BY <2>3, <5>2
        <5> QED BY <5>1, <5>3
      <4>3. /\ DOMAIN ranking' = 1 .. top
            /\ \A i \in 1 .. top : ranking'[i] \in Candidates /\ ranking'[i].rank = i
        BY <4>1, <4>2 DEF Candidates
      <4>4. ranking' = [i \in 1 .. top |-> ranking'[i]]
        BY <4>1
      <4>5. ranking' \in [1 .. top -> Candidates]
        BY <4>3, <4>4
      <4>6. ranking' \in Seq(Candidates)
        BY <2>3, <4>5
      <4> QED BY <4>3, <4>6 DEF Placed
    <3> QED BY <3>1, <3>2
  <2>5. RankingShape'
    BY <1>1, <2>1, <2>2, <2>4 DEF RankingShape, Placed
  <2>6. FusionKept'
    <3>1. ranking = Fusion
      BY <2>1 DEF RankingInv, FusionKept
    <3> QED BY <2>1, <2>2, <3>1 DEF FusionKept, Least
  <2>7. nextPost' = 1 /\ stage' = "post"
    BY <2>1, <2>2
  <2> QED BY <2>5, <2>6, <2>7 DEF RankingInv, BestKReturned, Ran
<1>9. CASE Post
  <2> DEFINE post == setup.posts[nextPost]
  <2>1. /\ stage = "post" /\ nextPost <= Len(setup.posts) /\ input' = ranking /\ nextPost' = nextPost + 1
        /\ UNCHANGED <<setup, stage, lists>>
        /\ ranking' = CASE post = "mmr" -> Diversify(ranking)
                        [] post = "parents" -> Expand(ranking)
                        [] post = "dedup" -> Deduplicate(ranking)
                        [] post = "middle" -> LoseInTheMiddle(ranking)
    BY <1>9 DEF Post
  <2>2. post \in PostProcessors
    <3>1. nextPost \in DOMAIN setup.posts
      BY <1>1, <1>3, <2>1
    <3> QED BY <1>2, <3>1
  <2>3. setup'.posts[nextPost' - 1] = post /\ nextPost' > 1 /\ nextPost' \in 1 .. Len(setup'.posts) + 1
    <3>1. (nextPost + 1) - 1 = nextPost /\ nextPost + 1 > 1 /\ nextPost + 1 \in 1 .. Len(setup.posts) + 1
      BY <1>1, <1>3, <2>1
    <3> QED BY <2>1, <3>1
  <2>4. \A p : Ran(p)' <=> post = p
    BY <2>1, <2>3 DEF Ran
  <2> HIDE DEF post
  <2>5. /\ post = "mmr" => ranking' = Diversify(ranking)
        /\ post = "parents" => ranking' = Expand(ranking)
        /\ post = "dedup" => ranking' = Deduplicate(ranking)
        /\ post = "middle" => ranking' = LoseInTheMiddle(ranking)
        /\ post \in {"mmr", "parents", "dedup", "middle"}
    BY <2>1, <2>2 DEF PostProcessors
  <2>6. /\ Placed(ranking')
        /\ post = "mmr" => Spread(input', ranking')
        /\ post = "parents" => Carried(input', ranking')
        /\ post = "dedup" => Distinct(input', ranking')
    BY <1>1, <2>1, <2>5, DiversifyRight, ExpandRight, DeduplicateRight, LoseInTheMiddleRight
  <2>7. Gathered'
    BY <1>1, <2>1, FusionStays
  <2>8. RankingShape'
    BY <1>1, <2>1, <2>3, <2>6, <2>7 DEF RankingShape, Placed
  <2>9. FusionKept'
    BY <2>1, <2>3 DEF FusionKept
  <2>10. BestKReturned'
    BY <2>1 DEF BestKReturned
  <2>11. /\ Ran("mmr")' => Spread(input', ranking')
         /\ Ran("parents")' => Carried(input', ranking')
         /\ Ran("dedup")' => Distinct(input', ranking')
    BY <2>4, <2>6
  <2> QED BY <2>8, <2>9, <2>10, <2>11 DEF RankingInv, Spread, Carried, Distinct, ChunksOf, At, EntriesOf, ChildrenOf, SelvesOf
<1>10. CASE Cut
  <2> DEFINE m == Least(setup.k, Len(ranking))
  <2>1. /\ stage = "post" /\ stage' = "done" /\ ranking' = SubSeq(ranking, 1, m)
        /\ UNCHANGED <<setup, lists, nextPost>>
    BY <1>10 DEF Cut
  <2>2. m \in Nat /\ m <= Len(ranking) /\ m <= setup.k
    BY <1>1, <1>2, PlacedPlain DEF Least
  <2>3. Placed(ranking') /\ Len(ranking') = m
    <3> HIDE DEF m
    <3> QED BY <1>1, <2>1, <2>2, CutPlaced
  <2>4. Gathered' /\ Offered' = Offered /\ \A c : FusedScore(c)' = FusedScore(c)
    BY <1>1, <2>1, FusionStays
  <2>5. RankingShape'
    <3> HIDE DEF m
    <3> QED BY <1>1, <2>1, <2>2, <2>3, <2>4 DEF RankingShape, Placed
  <2>6. BestKReturned'
    <3> SUFFICES ASSUME setup'.posts = << >>, setup'.reranker = "null"
                 PROVE  (/\ Len(ranking) = Least(setup.k, Cardinality(Offered))
                         /\ \A c \in ChunksOf(ranking), d \in Offered \ ChunksOf(ranking) : FusedScore(c) >= FusedScore(d))'
      BY DEF BestKReturned
    <3>1. /\ Len(ranking') = Least(setup.k, Cardinality(Offered))
          /\ \A c \in ChunksOf(ranking'), d \in Offered \ ChunksOf(ranking') : FusedScore(c) >= FusedScore(d)
      BY <1>10, <2>1, CutBest
    <3> QED BY <2>1, <2>4, <3>1 DEF Least, ChunksOf, At
  <2>7. FusionKept' /\ \A p : ~Ran(p)'
    BY <2>1 DEF FusionKept, Ran
  <2> QED BY <2>5, <2>6, <2>7 DEF RankingInv
<1>11. CASE UNCHANGED rankingVars
  <2>1. UNCHANGED <<setup, stage, lists, ranking, input, nextPost>>
    BY <1>11 DEF rankingVars
  <2>2. Fusion' = Fusion /\ RerankTop' = RerankTop /\ Gathered' = Gathered /\ Offered' = Offered
        /\ \A c : FusedScore(c)' = FusedScore(c)
    BY <2>1, FusionStays
  <2>3. RankingShape'
    BY <2>1, <2>2 DEF RankingInv, RankingShape, Placed
  <2>4. FusionKept'
    BY <2>1, <2>2 DEF RankingInv, FusionKept, Least
  <2>5. BestKReturned'
    BY <2>1, <2>2 DEF RankingInv, BestKReturned, Least, ChunksOf, At
  <2>6. /\ Ran("mmr")' => Spread(input', ranking')
        /\ Ran("parents")' => Carried(input', ranking')
        /\ Ran("dedup")' => Distinct(input', ranking')
    BY <2>1 DEF RankingInv, Ran
  <2> QED BY <2>3, <2>4, <2>5, <2>6 DEF RankingInv, Spread, Carried, Distinct, ChunksOf, At, EntriesOf, ChildrenOf, SelvesOf
<1> QED BY <1>5, <1>6, <1>7, <1>8, <1>9, <1>10, <1>11 DEF RankingNext

LEMMA RankingSafe == RankingInv => RankingSound
<1> SUFFICES ASSUME RankingInv PROVE RankingSound
  OBVIOUS
<1>1. RankingTypeOK
  <2>1. \A i \in DOMAIN ranking : ranking[i].rank = i /\ At(ranking, i) \in Chunks
    BY PlacedPlain DEF RankingInv, RankingShape
  <2> QED BY <2>1 DEF RankingInv, RankingShape, RankingTypeOK
<1>2. AgreementKept
  <2> SUFFICES ASSUME stage = "rerank"
               PROVE  /\ ChunksOf(ranking) = Offered
                      /\ \A i, j \in DOMAIN ranking :
                           i # j /\ (\A r \in Retrievers : Leads(r, At(ranking, i), At(ranking, j))) => i < j
    BY DEF AgreementKept
  <2>1. Gathered /\ ranking = Fusion
    BY DEF RankingInv, RankingShape, FusionKept
  <2>2. /\ ChunksOf(ranking) = Offered /\ DOMAIN ranking = 1 .. Len(ranking) /\ Len(ranking) \in Nat
        /\ \A i, j \in DOMAIN ranking : i < j => FusedBefore(At(ranking, i), At(ranking, j))
    BY <2>1, FusionRight
  <2>3. ASSUME NEW i \in DOMAIN ranking, NEW j \in DOMAIN ranking, i # j,
               \A r \in Retrievers : Leads(r, At(ranking, i), At(ranking, j))
        PROVE  i < j
    <3>1. At(ranking, i) \in Offered /\ At(ranking, j) \in Offered
      BY <2>2 DEF ChunksOf
    <3>2. ~FusedBefore(At(ranking, j), At(ranking, i))
      BY <2>1, <2>3, <3>1, AgreedFirst
    <3>3. i \in Int /\ j \in Int /\ ~(j < i)
      BY <2>2, <3>2
    <3> QED BY <2>3, <3>3
  <2> QED BY <2>2, <2>3
<1>3. CopiesLast
  BY DEF RankingInv, CopiesLast, Spread
<1>4. ParentsCarryBest
  BY DEF RankingInv, ParentsCarryBest, Carried, ChildrenOf, SelvesOf, EntriesOf
<1>5. TextsKept
  BY DEF RankingInv, TextsKept, Distinct
<1> QED BY <1>1, <1>2, <1>3, <1>4, <1>5 DEF RankingInv, RankingSound

\* However many retrievers answer in whatever order, for any answers, pipelines and
\* post-processors: agreement of the lists wins, copies stand back, parents carry
\* their best child, no text is lost and the k best come back (RankingSound).
THEOREM RankingHolds == RankingSpec => []RankingSound
<1>1. RankingSpec => []RankingInv
  BY RankingInitial, RankingStep, PTL DEF RankingSpec
<1>2. RankingInv => RankingSound
  BY RankingSafe
<1> QED BY <1>1, <1>2, PTL

=============================================================================
