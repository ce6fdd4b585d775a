------------------------------ MODULE MCKnowledge ------------------------------
(***************************************************************************)
(* Seven parts of the knowledge index that share no state: the vector      *)
(* index with its snapshots, the parsers, near-duplicates, chunks, the     *)
(* corpus tools, the knowledge graph and the extraction of what it is      *)
(* built from.  One run checks each of them from its own initial states    *)
(* while the others rest.                                                  *)
(***************************************************************************)
EXTENDS KnowledgeIndex, Dedup, Chunking, Corpus, KnowledgeGraph, Parsing, Extraction

VARIABLE subject

MCChunksOf == [d \in Docs |-> IF d = "d1" THEN {1, 3} ELSE {2}]
MCTexts == {<<"b", Newline>>, <<"a", Newline, "b">>, <<"a", FormFeed, "b">>}
MCPlaces == {<<"c", "s">>, <<"c", "", "s">>, <<"c", "x">>}
Passage(id, entities, triples, acl) ==
  [id |-> id, entities |-> entities, triples |-> triples, acl |-> acl]
MCPassages ==
  {Passage(1, {1, 2}, {}, {}), Passage(2, {2, 3}, {<<3, 2>>}, {"p"}), Passage(3, {3}, {<<3, 4>>}, {}),
   Passage(4, {4, 5}, {<<5, 1>>}, {"q"}), Passage(5, {1, 3, 6}, {}, {"p"}), Passage(6, {}, {}, {})}
MCKeyOf == [w \in {"Acme", "ACME", "It", "of", "Acquired", "acquired", "was", "by", "founded"} |->
              CASE w \in {"Acme", "ACME"} -> "acme" [] w = "It" -> "it" [] w = "Acquired" -> "acquired" [] OTHER -> w]
Said(subject_, object_) == [subject |-> subject_, object |-> object_]
MCReplies == {<< >>, <<Said(<<"Acme">>, <<"ACME">>), Said(<<"It">>, << >>)>>,
              <<Said(<<"Acme">>, << >>), Said(<<"It">>, <<"ACME">>)>>}
MCCallers == {{}, {"p"}}

OneCut == [text |-> << >>, begin |-> << >>, end |-> << >>]
OneFile == [extension |-> "md", own |-> NoTitle, kinds |-> << >>]
OneExcerpt == [text |-> << >>, reply |-> << >>]
Rest == IndexInit /\ DedupInit /\ CorpusInit /\ GraphInit

MCInit ==
  /\ Rest
  /\ \/ subject \in {"index", "dedup", "corpus", "graph"} /\ cut = OneCut /\ file = OneFile /\ excerpt = OneExcerpt
     \/ subject = "chunking" /\ ChunkingInit /\ file = OneFile /\ excerpt = OneExcerpt
     \/ subject = "parsing" /\ cut = OneCut /\ ParsingInit /\ excerpt = OneExcerpt
     \/ subject = "extraction" /\ cut = OneCut /\ file = OneFile /\ ExtractionInit

MCNext ==
  /\ UNCHANGED <<subject, cut, file, excerpt>>
  /\ \/ subject = "index" /\ IndexNext /\ UNCHANGED <<dedupVars, corpus, graphVars>>
     \/ subject = "dedup" /\ DedupNext /\ UNCHANGED <<indexVars, corpus, graphVars>>
     \/ subject = "corpus" /\ CorpusNext /\ UNCHANGED <<indexVars, dedupVars, graphVars>>
     \/ subject = "graph" /\ GraphNext /\ UNCHANGED <<indexVars, dedupVars, corpus>>

MCSpec == MCInit /\ [][MCNext]_<<subject, cut, file, excerpt, indexVars, dedupVars, corpus, graphVars>>

=============================================================================
