------------------------------ MODULE WikiPages ------------------------------
(***************************************************************************)
(* The markdown wiki as it is loaded into the graph (math-atoms-graph) and *)
(* handed to a fast build as pattern references (avc-core).                *)
(*                                                                         *)
(* A text is a sequence of lines, a line its kind and its tokens: words,   *)
(* tags, and the brackets of a link; lines without any are left out.  A    *)
(* file name is the number it begins with (0 if none), its words and the   *)
(* separator between them; the part of a node id it becomes keeps the      *)
(* first two.  A file of examples is named by the token "source".          *)
(***************************************************************************)
EXTENDS Integers, Sequences, FiniteSets, SequencesExt, FiniteSetsExt

Name(number, words, separator) == [number |-> number, words |-> words, separator |-> separator]
Slug(name) == <<name.number, name.words>>
Patterns == <<0, "patterns">>

Line(kind, tokens) == [kind |-> kind, tokens |-> tokens]
Words(lines) == FlattenSeq([k \in DOMAIN lines |-> lines[k].tokens])
OfKind(lines, kind) == SelectSeq(lines, LAMBDA l : l.kind = kind)
HeadOr(lines, default) == IF lines = <<>> THEN default ELSE lines[1].tokens

\* markdown_id: the slugs of the path below the root
Id(page) == Append(page.dir, Slug(page.name))

\* wiki_links: what stands between brackets; the search goes on after the link
Links(text) ==
  LET from[i \in 1..Len(text) + 1] ==
        LET opened == {k \in i..Len(text) : text[k] = "[["} IN
        IF opened = {} THEN <<>>
        ELSE LET o == Min(opened)
                 closed == {k \in o + 1..Len(text) : text[k] = "]]"}
             IN  IF closed = {} THEN <<>>
                 ELSE <<SubSeq(text, o + 1, Min(closed) - 1)>> \o from[Min(closed) + 1]
  IN  SelectSeq(from[1], LAMBDA link : link # <<>>)

\* Variant: a heading ends its section one line early.
SectionsCutShort(lines) ==
  LET at == SetToSortSeq({k \in DOMAIN lines : lines[k].kind = "heading"}, <)
  IN  [n \in DOMAIN at |->
        [title |-> lines[at[n]].tokens,
         lines |-> SubSeq(lines, at[n] + 1, (IF n = Len(at) THEN Len(lines) + 1 ELSE at[n + 1]) - 2)]]

\* markdown_sections: from one heading to the next
Sections(lines) ==
  LET at == SetToSortSeq({k \in DOMAIN lines : lines[k].kind = "heading"}, <)
  IN  [n \in DOMAIN at |->
        [title |-> lines[at[n]].tokens,
         lines |-> SubSeq(lines, at[n] + 1, IF n = Len(at) THEN Len(lines) ELSE at[n + 1] - 1)]]
SectionId(page, n) == Append(Id(page), <<n, Sections(page.lines)[n].title[1]>>)

(***************************************************************************)
(* Loading.                                                                *)
(***************************************************************************)
Node(id, title, excerpt, lines, tags) ==
  [id |-> id, title |-> title, excerpt |-> excerpt, lines |-> lines, tags |-> tags]

\* The excerpt of a page: its first line that is no heading and no tags.
Excerpt(lines) ==
  HeadOr(SelectSeq(lines, LAMBDA l : l.kind \in {"text", "status"}), <<>>)

\* bounded_excerpt, of a section: its whole body, cut where it is too long.
\* ExcerptLimit words stand for its 1400 bytes.
ExcerptLimit == 5
BoundedExcerpt(words) ==
  IF Len(words) <= ExcerptLimit THEN words
  ELSE SubSeq(words, 1, ExcerptLimit) \o <<"section", "truncated">>

\* markdown_status and what every section is told of it
IsStatus(line) == line.kind = "status" /\ Len(line.tokens) > 1
StatusLines(lines) ==
  LET status == SelectSeq(lines, IsStatus)
  IN  IF status = <<>> THEN <<>>
      ELSE <<Line("text", <<"document", "status">> \o Tail(status[1].tokens))>>

Seeded == [nodes |-> <<>>, edges |-> {}, failed |-> FALSE]
Ids(g) == {g.nodes[k].id : k \in DOMAIN g.nodes}

\* add_markdown_file: the page, the links of its whole text, and its sections in
\* a chain, each headed by the status of the document; only the id of the page
\* itself is compared with the nodes there are.
AddMarkdownFile(g, page) ==
  LET id       == Id(page)
      sections == Sections(page.lines)
      tags     == {"wiki"} \cup ToSet(Words(OfKind(page.lines, "tags")))
      body(n)  == StatusLines(page.lines) \o sections[n].lines
      linked(from, lines) == {<<from, link>> : link \in ToSet(Links(Words(lines)))}
  IN  IF g.failed \/ id \in Ids(g) THEN [g EXCEPT !.failed = TRUE]
      ELSE [g EXCEPT
        !.nodes = @ \o <<Node(id, HeadOr(OfKind(page.lines, "title"), <<page.name.words>>),
                             Excerpt(page.lines), page.lines, tags)>>
                    \o [n \in DOMAIN sections |->
                          Node(SectionId(page, n), sections[n].title,
                               BoundedExcerpt(Words(body(n))), body(n),
                               tags \cup ToSet(sections[n].title))],
        !.edges = @ \cup linked(id, page.lines)
                    \cup {<<id, SectionId(page, n)>> : n \in DOMAIN sections}
                    \cup {<<SectionId(page, n), SectionId(page, n + 1)>> : n \in 1..Len(sections) - 1}
                    \cup UNION {linked(SectionId(page, n), sections[n].lines) : n \in DOMAIN sections}]

\* from_default_dirs: a directory that does not load leaves the seeded graph
Loaded(wiki) ==
  LET g == FoldLeft(AddMarkdownFile, Seeded, wiki) IN IF g.failed THEN Seeded ELSE g

\* body_of: the first node of that id
BodyOf(g, id) == g.nodes[Min({k \in DOMAIN g.nodes : g.nodes[k].id = id})].lines

(***************************************************************************)
(* Pattern references.                                                     *)
(***************************************************************************)
\* direct_score of a set of words; what the atoms of an intent add to it is left out
Score(node, words) ==
  5 * Cardinality(words \cap ToSet(node.title)) + 2 * Cardinality(words \cap ToSet(node.excerpt))
    + 6 * Cardinality(words \cap node.tags)

\* Variant: a node beats another of the same score from either side.
BeatsOrTies(g, words, j, k) == Score(g.nodes[j], words) >= Score(g.nodes[k], words) /\ j # k

\* The order of the hits; ids are in the order they were loaded in.
Beats(g, words, j, k) ==
  LET a == Score(g.nodes[j], words)
      b == Score(g.nodes[k], words) IN a > b \/ (a = b /\ j < k)

\* retrieve_patterns: of the nodes below "wiki:patterns:" whose id does not
\* contain ":index", the best that score at all.  The part of a section begins
\* with its number; the words that begin with "index" are Indexes.
Indexes == {"index", "indexer"}
IsPattern(id) ==
  /\ Len(id) > 1 /\ id[1] = Patterns
  /\ \A k \in 2..Len(id) : id[k][1] # 0 \/ id[k][2] \notin Indexes
RetrievePatterns(g, words, limit) ==
  LET hits == {k \in DOMAIN g.nodes : IsPattern(g.nodes[k].id) /\ Score(g.nodes[k], words) > 0}
  IN  {k \in hits : Cardinality({j \in hits : Beats(g, words, j, k)}) < limit}

\* strip_wikilinks: a link is replaced by its words; after an open link that is
\* not closed, what is left is put out, and once more after the loop
StripWikilinks(text) ==
  LET from[i \in 1..Len(text) + 1] ==
        LET opened == {k \in i..Len(text) : text[k] = "[["} IN
        IF opened = {} THEN SubSeq(text, i, Len(text))
        ELSE LET o == Min(opened)
                 closed == {k \in o + 1..Len(text) : text[k] = "]]"}
             IN  SubSeq(text, i, o - 1) \o
                 IF closed = {} THEN SubSeq(text, o, Len(text)) \o SubSeq(text, i, Len(text))
                 ELSE SubSeq(text, o + 1, Min(closed) - 1) \o from[Min(closed) + 1]
  IN  from[1]

\* extract_pattern_description: from the tags to the closing headings
Description(lines) ==
  LET tagged == {k \in DOMAIN lines : lines[k].kind = "tags"}
      first  == IF tagged = {} THEN 1 ELSE Min(tagged) + 1
      closing == {k \in first..Len(lines) : lines[k].kind = "heading"
                                              /\ lines[k].tokens[1] \in {"reference", "related"}}
      last   == IF closing = {} THEN Len(lines) ELSE Min(closing) - 1
  IN  StripWikilinks(Words(SubSeq(lines, first, last)))

\* parse_pattern_reference: a source the note does not name is made up of its id
PatternReference(node) ==
  [title       |-> HeadOr(OfKind(node.lines, "title"), Tail(node.id)),
   description |-> Description(node.lines),
   source      |-> IF "source" \in ToSet(Words(node.lines)) THEN "named" ELSE "guessed"]

(***************************************************************************)
(* Properties of a wiki.                                                   *)
(***************************************************************************)
\* A wiki is loaded whole or not at all, and body_of ("the single-source-of-
\* retrieval accessor") answers every page with its own text, whatever the
\* sections of other pages are called.
PagesAreFound(wiki) ==
  LET g == Loaded(wiki) IN
  g # Seeded => \A k \in DOMAIN wiki : Id(wiki[k]) \in Ids(g) /\ BodyOf(g, Id(wiki[k])) = wiki[k].lines

\* Every link of a text is closed, and none is opened inside another.
LinksAreClosed(text) ==
  LET count(token) == Cardinality({k \in DOMAIN text : text[k] = token})
  IN  Len(Links(text)) = count("[[") /\ count("[[") = count("]]")

\* Nothing below the first heading is lost: the sections of a page, followed
\* along the chain from the first, hold its lines from there on in their order,
\* each once; and where every section and what stands above the first closes
\* its own links, a link of a section is a link of its page: one left open takes
\* the text up to the next bracket with it (markdown_sections, wiki_links).
SectionsCoverTheirPage(wiki) ==
  LET g == Loaded(wiki) IN
  \A k \in DOMAIN wiki :
    LET page     == wiki[k]
        lines    == page.lines
        sections == Sections(lines)
        headings == {n \in DOMAIN lines : lines[n].kind = "heading"}
        first    == IF headings = {} THEN Len(lines) + 1 ELSE Min(headings)
    IN  /\ FlattenSeq([n \in DOMAIN sections |->
              <<Line("heading", sections[n].title)>> \o sections[n].lines])
              = SubSeq(lines, first, Len(lines))
        /\ g # Seeded =>
             /\ \A n \in 1..Len(sections) - 1 :
                  <<SectionId(page, n), SectionId(page, n + 1)>> \in g.edges
             /\ /\ LinksAreClosed(Words(SubSeq(lines, 1, first - 1)))
                /\ \A n \in DOMAIN sections :
                     /\ LinksAreClosed(Words(sections[n].lines))
                     /\ LinksAreClosed(sections[n].title)
                => \A n \in DOMAIN sections : \A link \in ToSet(Links(Words(sections[n].lines))) :
                     <<SectionId(page, n), link>> \in g.edges /\ <<Id(page), link>> \in g.edges

\* Of the patterns that score no better one is left out, never more than the
\* limit are handed out, and what is handed out is a pattern of this wiki with
\* none of its links' brackets left in its prose where every link is closed
\* ("Strips `[[wikilink]]` markers so they do not read as a stray token").
PatternsAreFound(wiki, words, limit) ==
  LET g == Loaded(wiki)
      found == RetrievePatterns(g, words, limit)
      scored == {k \in DOMAIN g.nodes : IsPattern(g.nodes[k].id) /\ Score(g.nodes[k], words) > 0}
  IN  /\ Cardinality(found) = Min({limit, Cardinality(scored)})
      /\ \A k \in found, j \in scored \ found : Score(g.nodes[k], words) >= Score(g.nodes[j], words)
      /\ \A k \in found :
           LinksAreClosed(Words(g.nodes[k].lines)) =>
             {"[[", "]]"} \cap ToSet(PatternReference(g.nodes[k]).description) = {}

\* "Retrieve up to `limit` companion-pattern-note hits": a hit is a note, and
\* the reference made of it names its source (the code answers sections, too).
PatternsAreNotes(wiki, words, limit) ==
  LET g == Loaded(wiki) IN
  \A k \in RetrievePatterns(g, words, limit) : Len(g.nodes[k].id) = 2
==============================================================================
