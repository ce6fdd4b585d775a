------------------------------ MODULE Iterative ------------------------------
(***************************************************************************)
(* IterativeRetriever (src/knowledge_index/retrieval/iterative): one query *)
(* retrieved in hops.  Every hop reserves its cost of a budget that others *)
(* spend from too, retrieves, pays, and asks a judge for a follow-up.      *)
(***************************************************************************)
EXTENDS Integers, FiniteSets, SequencesExt, Totals

CONSTANTS
  Queries,      \* query texts as the judge writes them, trimmed
  Lower,        \* [Queries -> Queries], the text in lower case
  HitLists,     \* answers of the inner retriever: sequences of [chunk, score]
  MaxHops,
  HopBudget,    \* limit of the shared tracker, in hops
  MaxOverspend  \* bound: what others spend beyond the limit

ASSUME IterativeAssumption ==
  /\ Lower \in [Queries -> Queries] /\ \A q \in Queries : Lower[Lower[q]] = Lower[q]
  /\ \A hits \in HitLists : hits \in Seq(Range(hits)) /\ \A c \in Range(hits) :
       c = [chunk |-> c.chunk, score |-> c.score] /\ c.score \in Int
  /\ MaxHops \in Nat \ {0} /\ {HopBudget, MaxOverspend} \subseteq Nat

VARIABLES
  spent,      \* booked on the tracker, by whomever
  held,       \* grants not settled yet, the hop's own and those of others
  hunt,       \* the retrieval under way
  asked,      \* history: queries sent to the inner retriever
  paid        \* history: hops the retrieval has paid for

huntVars == <<spent, held, hunt, asked, paid>>

Free == IF HopBudget > spent + held THEN HopBudget - spent - held ELSE 0

\* The queries already issued hold the original one from the start.
Start(q) == [pc |-> "ready", hop |-> 0, query |-> q, seen |-> {Lower[q]}, evidence |-> << >>, ranked |-> << >>]

IterativeInit ==
  /\ spent = 0 /\ held = 0 /\ asked = << >> /\ paid = 0
  /\ \E q \in Queries : hunt = Start(q)

\* Where every chunk has its best candidate, the first of equals; and where it was
\* first met, which is its place in the dict of the best.
BestOf(evidence) ==
  {i \in DOMAIN evidence : \A j \in DOMAIN evidence :
     evidence[j].chunk = evidence[i].chunk =>
       evidence[j].score < evidence[i].score \/ (evidence[j].score = evidence[i].score /\ i <= j)}
Met(evidence, i) == Min({j \in DOMAIN evidence : evidence[j].chunk = evidence[i].chunk})

\* sorted(..., reverse=True) is stable.
Before(evidence) ==
  {p \in BestOf(evidence) \X BestOf(evidence) :
     \/ evidence[p[1]].score > evidence[p[2]].score
     \/ evidence[p[1]].score = evidence[p[2]].score /\ Met(evidence, p[1]) < Met(evidence, p[2])}
DedupAndRank(evidence) ==
  LET order == InOrder(BestOf(evidence), Before(evidence))
  IN  [n \in DOMAIN order |-> evidence[order[n]]]

Finish(evidence) == [hunt EXCEPT !.pc = "done", !.evidence = evidence, !.ranked = DedupAndRank(evidence)]

\* The top of the loop: the check and the reservation have no await between them.
Begin ==
  /\ hunt.pc = "ready"
  /\ IF Free >= 1
     THEN /\ held' = held + 1
          /\ hunt' = [hunt EXCEPT !.pc = "retrieving"]
          /\ asked' = Append(asked, hunt.query)
     ELSE hunt' = Finish(hunt.evidence) /\ UNCHANGED <<held, asked>>
  /\ UNCHANGED <<spent, paid>>

\* consume gives the reservation back, and takes it again when the tracker is
\* overdrawn by then.
Covered == HopBudget > spent + held - 1
Pay ==
  IF Covered THEN spent' = spent + 1 /\ held' = held - 1 /\ paid' = paid + 1
  ELSE UNCHANGED <<spent, held, paid>>

\* Mutant: an inner retriever that fails is not paid for.
RetrieveFailsFree ==
  /\ hunt.pc = "retrieving"
  /\ held' = held - 1
  /\ hunt' = [hunt EXCEPT !.pc = "raised"]
  /\ UNCHANGED <<spent, paid, asked>>

\* The inner retriever raises: the hop is paid for all the same.
RetrieveFails ==
  /\ hunt.pc = "retrieving"
  /\ Pay
  /\ hunt' = [hunt EXCEPT !.pc = "raised"]
  /\ UNCHANGED asked

\* The inner retriever answers.  After the last hop nobody is asked.
Retrieved(hits) ==
  /\ hunt.pc = "retrieving"
  /\ Pay
  /\ LET evidence == hunt.evidence \o hits IN
     hunt' = IF ~Covered THEN [hunt EXCEPT !.pc = "raised"]
             ELSE IF hunt.hop = MaxHops - 1 THEN Finish(evidence)
             ELSE [hunt EXCEPT !.pc = "judging", !.evidence = evidence]
  /\ UNCHANGED asked

\* The judge wants q: a query that was issued ends the loop.
Follow(q) ==
  /\ hunt.pc = "judging"
  /\ hunt' = IF Lower[q] \in hunt.seen THEN Finish(hunt.evidence)
             ELSE [hunt EXCEPT !.pc = "ready", !.hop = @ + 1, !.query = q, !.seen = @ \cup {Lower[q]}]
  /\ UNCHANGED <<spent, held, asked, paid>>

\* The judge is done, or names no follow-up.
Enough ==
  /\ hunt.pc = "judging"
  /\ hunt' = Finish(hunt.evidence)
  /\ UNCHANGED <<spent, held, asked, paid>>

\* The judge's reply cannot be read: ValueError, and the evidence goes with it.
JudgeRaises ==
  /\ hunt.pc = "judging"
  /\ hunt' = [hunt EXCEPT !.pc = "raised"]
  /\ UNCHANGED <<spent, held, asked, paid>>

\* The rest of the request: reservations of a hop's size, settled later, and
\* spending of sub-agents, which a parent books without a check.
Others ==
  /\ hunt.pc \in {"ready", "retrieving", "judging"}
  /\ LET own == IF hunt.pc = "retrieving" THEN 1 ELSE 0 IN
     \/ Free >= 1 /\ held' = held + 1 /\ UNCHANGED spent
     \/ held > own /\ Covered /\ held' = held - 1 /\ spent' = spent + 1
     \/ spent < HopBudget + MaxOverspend /\ spent' = spent + 1 /\ UNCHANGED held
  /\ UNCHANGED <<hunt, asked, paid>>

IterativeNext ==
  \/ Begin \/ RetrieveFails \/ Enough \/ JudgeRaises \/ Others
  \/ \E hits \in HitLists : Retrieved(hits)
  \/ \E q \in Queries : Follow(q)

IterativeSpec == IterativeInit /\ [][IterativeNext]_huntVars

-----------------------------------------------------------------------------
\* Properties

\* No query is retrieved twice, whatever its case: a judge that goes round in
\* circles ends the loop, and the hops are bounded.
NoQueryTwice ==
  /\ Len(asked) <= MaxHops
  /\ \A i, j \in DOMAIN asked : i # j => Lower[asked[i]] # Lower[asked[j]]

\* A hop is paid for whether its retrieval answers or fails; only a tracker the
\* others have overdrawn meanwhile leaves the last one unpaid, its grant held,
\* and the retrieval raises then.
HopsPaid ==
  LET open == Len(asked) - paid IN
  /\ open \in {0, 1}
  /\ open = 1 => \/ hunt.pc = "retrieving"
                 \/ hunt.pc = "raised" /\ held >= 1 /\ spent + held > HopBudget

\* The loop's answer has every chunk of the evidence of all hops once, with the
\* best score it was found with, the best first.
BestKept ==
  hunt.pc = "done" =>
    LET found == Range(hunt.evidence)
        ranked == hunt.ranked IN
    /\ Range(ranked) = {c \in found : \A d \in found : d.chunk = c.chunk => d.score <= c.score}
    /\ \A i, j \in DOMAIN ranked : i < j => ranked[i].chunk # ranked[j].chunk /\ ranked[i].score >= ranked[j].score

\* No query is asked twice, every hop is paid for, failed ones too, and of a chunk
\* found again the best score counts.
HuntSound == NoQueryTwice /\ HopsPaid /\ BestKept

=============================================================================
