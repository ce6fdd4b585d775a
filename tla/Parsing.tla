------------------------------- MODULE Parsing -------------------------------
(***************************************************************************)
(* From a file to a parsed document (src/knowledge_index/ingestion): the   *)
(* extension chooses the parser, the text is normalised, and the outline   *)
(* of headings, code, tables, lists and paragraphs is read off its lines.  *)
(* A line is its kind and its number in the file.                          *)
(***************************************************************************)
EXTENDS Naturals, FiniteSets, SequencesExt, TLC

CONSTANTS
  Extensions,
  MaxLines     \* bound: lines of a file

ASSUME ParsingAssumption == Extensions \subseteq {"md", "html", "pdf", "docx", "txt", "py", "bin"} /\ MaxLines \in Nat

\* A file: its extension, its lines and the title in its own properties.
VARIABLE file

\* "indented" is text set in by two blanks or more; "row" is a table's.
LineKinds == {"heading", "fence", "row", "item", "indented", "blank", "text"}
Title(where, n) == <<where, n>>
NoTitle == Title("none", 0)
OwnTitle == Title("own", 0)
Stem == Title("stem", 0)

MimeFromPath(extension) ==
  CASE extension = "md" -> "markdown" [] extension \in {"html", "pdf", "docx"} -> extension
    [] extension = "txt" -> "plain" [] extension = "py" -> "code" [] OTHER -> "unknown"

Numbered(kinds) == [i \in DOMAIN kinds |-> [kind |-> kinds[i], n |-> i]]
IsBlank(line) == line.kind = "blank"

\* normalize_text: a run of blanks becomes one, so that no line is set in any
\* more; of blank lines side by side one is left, at the ends none.
Normalized(lines) ==
  LET plain == [i \in DOMAIN lines |-> IF lines[i].kind = "indented" THEN [lines[i] EXCEPT !.kind = "text"] ELSE lines[i]]
      solid == {i \in DOMAIN plain : ~IsBlank(plain[i])}
      stays(i) == i \in solid \/ (i > 1 /\ i - 1 \in solid /\ \E j \in solid : j > i)
  IN SelectSeq(plain, LAMBDA line : stays(line.n))

-----------------------------------------------------------------------------
\* The outline, line by line: the elements that are done and the one open.

Element(kind, lines) == [kind |-> kind, lines |-> lines]
Open(kind, line, outline) == [done |-> outline.done \o outline.open, open |-> <<Element(kind, <<line.n>>)>>]
Close(outline) == [done |-> outline.done \o outline.open, open |-> << >>]
Extend(line, outline) == [outline EXCEPT !.open[1].lines = Append(@, line.n)]
Reading(kind, outline) == outline.open # << >> /\ outline.open[1].kind = kind

\* Mutant: code ends at a blank line.
ReadLineUnfenced(outline, line) ==
  IF line.kind = "blank" THEN Close(outline)
  ELSE IF Reading("code", outline)
  THEN IF line.kind = "fence" THEN Close(Extend(line, outline)) ELSE Extend(line, outline)
  ELSE LET kind == CASE line.kind = "fence" -> "code" [] line.kind = "row" -> "table" [] line.kind = "item" -> "list"
                     [] line.kind = "heading" -> "heading" [] OTHER -> "paragraph"
       IN IF kind \in {"table", "list", "paragraph"} /\ Reading(kind, outline) THEN Extend(line, outline)
          ELSE Open(kind, line, outline)

ReadLine(outline, line) ==
  IF Reading("code", outline)
  THEN IF line.kind = "fence" THEN Close(Extend(line, outline)) ELSE Extend(line, outline)
  ELSE CASE line.kind = "heading" -> Close(Open("heading", line, outline))
         [] line.kind = "fence" -> Open("code", line, outline)
         [] line.kind = "row" -> IF Reading("table", outline) THEN Extend(line, outline) ELSE Open("table", line, outline)
         [] line.kind = "item" -> IF Reading("list", outline) THEN Extend(line, outline) ELSE Open("list", line, outline)
         [] line.kind = "blank" -> Close(outline)
         [] line.kind = "indented" /\ Reading("list", outline) -> Extend(line, outline)
         [] OTHER -> IF Reading("paragraph", outline) THEN Extend(line, outline) ELSE Open("paragraph", line, outline)

\* A code block that is not closed ends with the text.
MarkdownStructure(lines) == Close(FoldLeft(ReadLine, [done |-> << >>, open |-> << >>], lines)).done

\* Paragraphs, or code, between blank lines.
PlainStructure(lines, kind) ==
  LET read(outline, line) ==
        IF IsBlank(line) THEN Close(outline)
        ELSE IF outline.open # << >> THEN Extend(line, outline) ELSE Open(kind, line, outline)
  IN Close(FoldLeft(read, [done |-> << >>, open |-> << >>], lines)).done

\* The paragraphs that are not empty, then the tables.
DocxStructure(lines) ==
  LET said == SelectSeq(lines, LAMBDA line : line.kind \notin {"row", "blank"})
      tables == SelectSeq(lines, LAMBDA line : line.kind = "row")
      element(line) ==
        Element(CASE line.kind = "heading" -> "heading" [] line.kind = "row" -> "table" [] OTHER -> "paragraph", <<line.n>>)
  IN [i \in DOMAIN (said \o tables) |-> element((said \o tables)[i])]

-----------------------------------------------------------------------------
FirstHeading(structure) ==
  LET headings == SelectSeq(structure, LAMBDA e : e.kind = "heading")
  IN IF headings = << >> THEN NoTitle ELSE Title("line", headings[1].lines[1])

\* Structure and metadata; the plain parser puts down no title at all.
ParseMarkdown(lines) ==
  LET structure == MarkdownStructure(Normalized(lines))
  IN [structure |-> structure, meta |-> "title" :> FirstHeading(structure)]
ParsePlain(lines, hint) ==
  [structure |-> PlainStructure(Normalized(lines), IF hint = "code" THEN "code" ELSE "paragraph"), meta |-> << >>]
ParseHTML(lines, own) == [structure |-> MarkdownStructure(Normalized(lines)), meta |-> "title" :> own]
ParsePDF(lines, own) == [structure |-> MarkdownStructure(Normalized(lines)), meta |-> "title" :> own]
ParseDocx(lines, own) ==
  LET structure == DocxStructure(lines) heading == FirstHeading(structure)
  IN [structure |-> structure, meta |-> "title" :> IF heading # NoTitle THEN heading ELSE own]

GetParser(f) ==
  LET hint == MimeFromPath(f.extension) lines == Numbered(f.kinds)
  IN CASE hint = "markdown" -> ParseMarkdown(lines) [] hint = "html" -> ParseHTML(lines, f.own)
       [] hint = "pdf" -> ParsePDF(lines, f.own) [] hint = "docx" -> ParseDocx(lines, f.own)
       [] OTHER -> ParsePlain(lines, hint)

\* Path and title are put down only where there is no such key.
ParsePath(f) ==
  LET doc == GetParser(f)
  IN [doc EXCEPT !.meta = @ @@ ("title" :> Stem)]

-----------------------------------------------------------------------------
\* Only the formats with properties have a title of their own there; the body of
\* a .docx is headings, paragraphs and tables.
ParsingInit ==
  \E extension \in Extensions, own \in {NoTitle, OwnTitle} :
    /\ own = NoTitle \/ extension \in {"html", "pdf", "docx"}
    /\ \E kinds \in SeqOf(IF extension = "docx" THEN {"heading", "text", "row", "blank"} ELSE LineKinds, MaxLines) :
         file = [extension |-> extension, own |-> own, kinds |-> kinds]

Lines == Numbered(file.kinds)
AsMarkdown == MimeFromPath(file.extension) \in {"markdown", "html", "pdf"}
InCode(n) == AsMarkdown /\ Cardinality({m \in 1 .. n - 1 : Lines[m].kind = "fence"}) % 2 = 1

\* The lines of the file as the outline has them, element by element.
Listed ==
  LET structure == ParsePath(file).structure
  IN FlattenSeq([i \in DOMAIN structure |-> structure[i].lines])

\* Whatever stands beside what, every line that is not blank is in one element, once,
\* and but for the tables of a .docx the elements come in the order of the file.
\* (Those tables: OutlineInDocumentOrder.)
EveryLineOnce ==
  LET moved(n) == file.extension = "docx" /\ Lines[n].kind = "row"
  IN /\ IsInjective(Listed)
     /\ {n \in DOMAIN Lines : ~IsBlank(Lines[n])} \subseteq ToSet(Listed)
     /\ \A i, j \in DOMAIN Listed : i < j /\ moved(Listed[i]) = moved(Listed[j]) => Listed[i] < Listed[j]

\* ingestion/base.py:20, "One structural unit of a parsed document, in document order",
\* and 32, "the ordered outline used by structure-aware chunkers".
OutlineInDocumentOrder == \A i, j \in DOMAIN Listed : i < j => Listed[i] < Listed[j]

\* What stands between two fences is code, and outside of them a line is what it
\* looks like: a heading by itself, rows and items that follow each other together.
OutlineTrue ==
  AsMarkdown =>
    LET structure == ParsePath(file).structure
        holds(n, e) ==
          IF InCode(n) THEN e.kind = "code"
          ELSE /\ Lines[n].kind = "heading" => e = Element("heading", <<n>>)
               /\ Lines[n].kind = "row" => e.kind = "table" /\ \A m \in ToSet(e.lines) : Lines[m].kind = "row"
               /\ Lines[n].kind = "item" => e.kind = "list"
               /\ Lines[n].kind \in {"text", "indented"} => e.kind = "paragraph"
               /\ n > 1 /\ Lines[n - 1].kind = Lines[n].kind /\ Lines[n].kind \notin {"heading", "fence"}
                    => n - 1 \in ToSet(e.lines)
    IN \A e \in ToSet(structure) : \A n \in ToSet(e.lines) : IsBlank(Lines[n]) \/ holds(n, e)

\* A title is the document's own or its first heading, never one that is a comment in
\* code, and no name of the file takes the place of either.  (Where a format can have
\* a title and the document has none, the key is there with None in it, and the
\* `or p.stem` of parsers.py:307 never comes in: nothing is said of that title here.)
TitleOfItsOwn ==
  LET headings == {n \in DOMAIN Lines : Lines[n].kind = "heading" /\ ~InCode(n)}
      first == CHOOSE n \in headings : \A m \in headings : n <= m
      title == ParsePath(file).meta.title
  IN CASE file.extension \in {"md", "docx"} /\ headings # {} -> title = Title("line", first)
       [] file.own # NoTitle -> title = file.own
       [] OTHER -> title \in {NoTitle, Stem}

\* Every line of a file is in one element, of the kind it has there, and the title is
\* the document's own.
ParsingSound == EveryLineOnce /\ OutlineTrue /\ TitleOfItsOwn

=============================================================================
