----------------------------- MODULE Compaction -----------------------------
(***************************************************************************)
(* Compaction of a conversation (src/harness/compaction): when the history *)
(* is estimated above the threshold, the last turns stay and a note takes  *)
(* the place of what went before.  A note is a message like any other: the *)
(* next compaction counts it, keeps it or condenses it again.              *)
(***************************************************************************)
EXTENDS Naturals, FiniteSets, SequencesExt, Totals

CONSTANTS
  Strategies,  \* compactors the deployment may have
  Keeps,       \* numbers of last turns a deployment may keep
  MaxTokens,
  GistLines,   \* messages a gist quotes
  LineWidth,   \* words a gist quotes of each, more than a note's heading
  Lengths,     \* words of a message
  Durable,     \* the messages that hold a fact worth keeping
  MaxSaid      \* bound: messages said

ASSUME CompactionAssumption ==
  /\ Strategies \subseteq {"selective_retention", "hierarchical_summarization", "offload_to_memory"}
  /\ Keeps \subseteq Nat /\ MaxTokens \in Nat /\ GistLines \in Nat /\ LineWidth \in Nat /\ MaxSaid \in Nat
  /\ Lengths \subseteq Nat

\* The strategy and the turns it keeps, the conversation, the facts in long-term
\* memory, and as history the number of messages said.
VARIABLE talk

\* The n-th message said is its number over and over; a note begins with Heading.
\* "of" holds the messages whose text the writer of this one was given.
Heading == 0
Message(n, size) == [text |-> [i \in 1 .. size |-> n], of |-> {n}]

\* Mutant: the note has no heading.
NoteBare(words, of) == [text |-> words, of |-> of]

Note(words, of) == [text |-> <<Heading>> \o words, of |-> of]

IsNote(m) == m.text # << >> /\ Head(m.text) = Heading

Told(ms) == UNION {m.of : m \in ToSet(ms)}

EstimateStateTokens(ms) == FoldSeq(LAMBDA m, sum : Len(m.text) + sum, 0, ms)
ShouldCompact == EstimateStateTokens(talk.messages) > MaxTokens

KeepN == 2 * talk.keep

SplitKeepTail(ms) ==
  IF KeepN >= Len(ms) THEN [dropped |-> << >>, kept |-> ms]
  ELSE [dropped |-> SubSeq(ms, 1, Len(ms) - KeepN), kept |-> SubSeq(ms, Len(ms) - KeepN + 1, Len(ms))]

Rebuild(kept, note) == <<note>> \o kept

\* Words, as the message they are of and their place in it, in the order one reads.
InReading(words) ==
  {p \in words \X words : p[1][1] < p[2][1] \/ (p[1][1] = p[2][1] /\ p[1][2] < p[2][2])}

\* The opening words of the first messages dropped that are not blank.
Gist(dropped) ==
  LET spoken == {i \in DOMAIN dropped : dropped[i].text # << >>}
      quoted == {i \in spoken : Cardinality({j \in spoken : j < i}) < GistLines}
      words == {w \in quoted \X (1 .. LineWidth) : w[2] <= Len(dropped[w[1]].text)}
      order == InOrder(words, InReading(words))
  IN [n \in DOMAIN order |-> dropped[order[n][1]].text[order[n][2]]]

-----------------------------------------------------------------------------
CompactionInit ==
  talk \in [strategy : Strategies, keep : Keeps, messages : {<< >>}, memory : {{}}, said : {0}]

\* The caller adds to the history between two compactions.  A message with a fact
\* in it is not blank.
Say(size) ==
  /\ talk.said < MaxSaid /\ (talk.said + 1 \in Durable => size > 0)
  /\ talk' = [talk EXCEPT !.said = @ + 1, !.messages = Append(@, Message(talk.said + 1, size))]

CompactBySelection ==
  /\ talk.strategy = "selective_retention" /\ ShouldCompact
  /\ LET split == SplitKeepTail(talk.messages)
     IN talk' = [talk EXCEPT !.messages = Rebuild(split.kept, Note(Gist(split.dropped), {}))]

\* The summariser has the whole text of what is dropped; when it fails, compact()
\* raises and the history is as it was.
CompactBySummary ==
  /\ talk.strategy = "hierarchical_summarization" /\ ShouldCompact
  /\ LET split == SplitKeepTail(talk.messages)
     IN talk' = [talk EXCEPT !.messages = Rebuild(split.kept, Note(<< >>, Told(split.dropped)))]

\* The facts go to memory one at a time, in order; a write that fails leaves the
\* earlier ones there, and the history as it was.
CompactToMemory ==
  /\ talk.strategy = "offload_to_memory" /\ ShouldCompact
  /\ LET split == SplitKeepTail(talk.messages)
         facts == {n \in Durable : \E m \in ToSet(split.dropped) : n \in m.of}
     IN \/ talk' = [talk EXCEPT !.memory = @ \cup facts,
                                !.messages = Rebuild(split.kept, Note(<< >>, {}))]
        \/ \E n \in facts : talk' = [talk EXCEPT !.memory = @ \cup {f \in facts : f < n}]

CompactionNext ==
  \/ \E size \in Lengths : Say(size)
  \/ CompactBySelection
  \/ CompactBySummary
  \/ CompactToMemory

CompactionSpec == CompactionInit /\ [][CompactionNext]_talk

-----------------------------------------------------------------------------
\* A history is messages said and notes, of the strategy's own kind, and memory
\* has facts only where the strategy puts them there.
TalkTypeOK ==
  /\ talk.strategy \in Strategies /\ talk.keep \in Keeps /\ talk.said \in 0 .. MaxSaid
  /\ talk.memory \subseteq Durable \cap 1 .. talk.said
  /\ talk.memory # {} => talk.strategy = "offload_to_memory"
  /\ \A m \in ToSet(talk.messages) :
       /\ m.of \subseteq 1 .. talk.said
       /\ ~IsNote(m) => Cardinality(m.of) = 1
       /\ ToSet(m.text) \subseteq 0 .. talk.said

\* However often the history was compacted, with whatever notes in it, the
\* last turns said are its end, complete and in order: a note never takes the
\* place of a message of theirs.
LastTurnsStay ==
  LET kept == IF KeepN < talk.said THEN KeepN ELSE talk.said
      before == Len(talk.messages) - kept
  IN /\ kept <= Len(talk.messages)
     /\ \A i \in 1 .. kept :
          \E size \in Lengths : talk.messages[before + i] = Message(talk.said - kept + i, size)
     /\ \A i \in DOMAIN talk.messages :
          IsNote(talk.messages[i]) => \A j \in 1 .. i : IsNote(talk.messages[j])

\* Over any number of compactions nothing said drops out unread: the text of
\* every message is still in the history or was given, directly or through the
\* notes before, to the summariser of a note there is; with offloading every
\* fact worth keeping is in the history or in memory, after failed writes too.
NothingUnread ==
  /\ talk.strategy = "hierarchical_summarization" => 1 .. talk.said \subseteq Told(talk.messages)
  /\ talk.strategy = "offload_to_memory" =>
       \A n \in Durable \cap 1 .. talk.said :
         n \in talk.memory \cup Told(talk.messages)

\* However often a conversation is compacted, by whichever strategy, and an offload
\* fails part-way: its last turns stay and all before them has been read into a note
\* or a memory.
TalkSound == TalkTypeOK /\ LastTurnsStay /\ NothingUnread

=============================================================================
