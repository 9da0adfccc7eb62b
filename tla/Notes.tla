-------------------------------- MODULE Notes --------------------------------
(***************************************************************************)
(* What graphsync makes of notes: the links and terms of one note          *)
(* (graphsync/src/extract.rs) and the graph of all of them                 *)
(* (graphsync/src/graph.rs).                                               *)
(*                                                                         *)
(* Files are numbered in the order of their paths.  A content is a number, *)
(* its own hash; Bodies says what is in it, line by line, as the regular   *)
(* expressions of extract.rs find it.                                      *)
(***************************************************************************)
EXTENDS Integers, SequencesExt, Maps

CONSTANTS
  Names,         \* of each file the directories, the name without ending, the ending, the length
  Roots,         \* graph_sync.source_dirs
  Extensions,    \* graph_sync.extensions, in their order
  Bodies,        \* the contents: size, lines
  Normal,        \* normalize_tag: the tag a spelling means, "" if it is none
  MinTermLen,    \* graph_sync.min_term_len
  MaxLinks,      \* MAX_LINKS_PER_FILE
  MaxTerms,      \* MAX_TERMS_PER_FILE
  MaxTermDocs,   \* graph_sync.max_term_docs
  MinScore,      \* graph_sync.min_shared_score
  MaxInferred,   \* graph_sync.max_inferred_per_file
  MaxEdges       \* graph_sync.max_edges

Files == DOMAIN Names
Contents == DOMAIN Bodies

Paths == [dir : Seq(STRING), stem : STRING, ext : STRING, len : Nat]
LinkRefs == [kind : {"wiki"}, path : Seq(STRING)] \cup [kind : {"web"}]
            \cup [kind : {"path"}, path : Seq(STRING), absolute : BOOLEAN, ext : STRING]
NoteLines == [kind : STRING, links : Seq(LinkRefs), tags : Seq(STRING),
              words : Seq([name : STRING, len : Nat, common : BOOLEAN])]

\* No two files have one path.
ASSUME NotesAssumption ==
  /\ {MinTermLen, MaxLinks, MaxTerms, MaxTermDocs, MinScore, MaxInferred, MaxEdges} \subseteq Nat
  /\ Names \in Seq(Paths) /\ Bodies \in Seq([size : Nat, lines : Seq(NoteLines)])
  /\ \A f, g \in Files : [Names[f] EXCEPT !.len = 0] = [Names[g] EXCEPT !.len = 0] => f = g

-----------------------------------------------------------------------------
\* extract.rs

AddNew(seq, new, max) == IF Len(seq) < max /\ ~Contains(seq, new) THEN Append(seq, new) ELSE seq

AddLinks(links, line, kind) ==
  LET after[n \in 0..Len(line.links)] ==
        IF n = 0 THEN links
        ELSE IF line.links[n].kind = kind THEN AddNew(after[n - 1], line.links[n], MaxLinks)
        ELSE after[n - 1]
  IN  after[Len(line.links)]

AddTerms(terms, new) ==
  LET after[n \in 0..Len(new)] == IF n = 0 THEN terms ELSE AddNew(after[n - 1], new[n], MaxTerms)
  IN  after[Len(new)]

\* Tags as they are spelled.
NormalizeTags(spelled) ==
  LET valid == SelectSeq(spelled, LAMBDA t : Normal[t] # "")
  IN  [k \in DOMAIN valid |-> [name |-> Normal[valid[k]], tag |-> TRUE]]

\* Words that are long enough, neither numbers nor common.
HeadingWords(words) ==
  LET rare == SelectSeq(words, LAMBDA w : w.len >= MinTermLen /\ ~w.common)
  IN  [k \in DOMAIN rare |-> [name |-> rare[k].name, tag |-> FALSE]]

\* The line that closes the front matter, 0 if there is none: it is opened by the first line
\* and must be closed.
FrontmatterEnd(lines) ==
  LET closing == {i \in 2..Len(lines) : lines[i].kind \in {"---", "..."}}
  IN  IF lines = <<>> \/ lines[1].kind # "---" \/ closing = {} THEN 0 ELSE Min(closing)

\* The tags stand behind their key, or in a list below it when nothing does.
ParseFrontmatter(lines) ==
  LET Listed(front, line) == front.inTagList /\ line.kind = "item"
      front[n \in 0..Len(lines)] ==
        IF n = 0 THEN [inTagList |-> FALSE, tags |-> <<>>]
        ELSE [inTagList |-> lines[n].kind = "key" \/ Listed(front[n - 1], lines[n]),
              tags |-> front[n - 1].tags
                       \o IF lines[n].kind = "tags" \/ Listed(front[n - 1], lines[n])
                          THEN NormalizeTags(lines[n].tags) ELSE <<>>]
  IN  front[Len(lines)].tags

\* One line.  Wiki links come first, then the links to files; addresses and anchors are none.
\* A heading gives its words, any other line its tags.
ExtractLine(sofar, line) ==
  CASE line.kind = "fence" -> [sofar EXCEPT !.fenced = ~@]
    [] line.kind # "fence" /\ sofar.fenced -> sofar
    [] OTHER -> [sofar EXCEPT
                   !.links = AddLinks(AddLinks(@, line, "wiki"), line, "path"),
                   !.terms = AddTerms(@, IF line.kind = "heading" THEN HeadingWords(line.words)
                                         ELSE NormalizeTags(line.tags))]

Extract(lines) ==
  LET end == FrontmatterEnd(lines)
      tags == ParseFrontmatter(SubSeq(lines, 2, end - 1))
      after[n \in end..Len(lines)] ==
        IF n = end THEN [fenced |-> FALSE, links |-> <<>>, terms |-> AddTerms(<<>>, tags)]
        ELSE ExtractLine(after[n - 1], lines[n])
  IN  after[Len(lines)]

Extracted == [c \in Contents |-> Extract(Bodies[c].lines)]

-----------------------------------------------------------------------------
\* graph.rs.  files gives the content and the KI's edges of every known file.

\* The names . and .. are resolved without a look at the disk.
Normalize(path) ==
  FoldLeft(LAMBDA p, name : CASE name = "." -> p
                              [] name = ".." -> IF p = <<>> THEN p ELSE Front(p)
                              [] OTHER -> Append(p, name),
           <<>>, path)

\* [[name]], [[folder/name]]: the same folder first, then the shortest path.
ResolveWiki(from, link, files) ==
  LET fits == {f \in DOMAIN files : /\ Names[f].stem = Last(link.path)
                                    /\ IsSuffix(link.path, Append(Names[f].dir, Names[f].stem))}
      near == {f \in fits : Names[f].dir = Names[from].dir}
      Before(f, g) == \/ Names[f].len < Names[g].len
                      \/ Names[f].len = Names[g].len /\ f <= g
  IN  IF near # {} THEN {CHOOSE f \in near : \A g \in near : f <= g}
      ELSE {f \in fits : \A g \in fits : Before(f, g)}

\* [text](path): from the file's folder or the root; the known endings are tried.
ResolvePath(from, link, files) ==
  LET path == Normalize(IF link.absolute THEN link.path ELSE Names[from].dir \o link.path)
      Is(f, ending) == Append(Names[f].dir, Names[f].stem) = path /\ Names[f].ext = ending
      exact == {f \in DOMAIN files : Is(f, link.ext)}
      tried == {k \in DOMAIN Extensions : \E f \in DOMAIN files : Is(f, Extensions[k])}
  IN  IF exact # {} \/ link.ext # "" \/ tried = {} THEN exact
      ELSE {f \in DOMAIN files : Is(f, Extensions[CHOOSE k \in tried : \A j \in tried : k <= j])}

\* The file a link means: a set of one file, or none.
Resolve(from, link, files) ==
  IF link.kind = "wiki" THEN ResolveWiki(from, link, files) ELSE ResolvePath(from, link, files)

Edge(a, b, origin) == [a |-> a, b |-> b, origin |-> origin]
Joins(edge, a, b) == {edge.a, edge.b} = {a, b}
Touches(edges, f, origin) ==
  Cardinality({i \in DOMAIN edges : edges[i].origin = origin /\ f \in {edges[i].a, edges[i].b}})

\* The closure push of build: no loop, no second edge of a pair, no more than fit.
Push(edges, edge) ==
  IF \/ edge.a = edge.b \/ Len(edges) >= MaxEdges
     \/ \E i \in DOMAIN edges : Joins(edges[i], edge.a, edge.b)
  THEN edges ELSE Append(edges, edge)

\* A term of both files counts, a tag twice, unless too many files have it.
Rare(term, files) ==
  Cardinality({f \in DOMAIN files : Contains(Extracted[files[f].hash].terms, term)}) \in 2..MaxTermDocs
Weight(term) == IF term.tag THEN 2 ELSE 1
Score(a, b, files) ==
  LET shared == {t \in ToSet(Extracted[files[a].hash].terms) \cap ToSet(Extracted[files[b].hash].terms) :
                   Rare(t, files)}
  IN  MapThenSumSet(Weight, shared)

\* Pairs with enough in common, the highest score first.
TermCandidates(files) ==
  LET scored == {[a |-> p[1], b |-> p[2], score |-> Score(p[1], p[2], files)] :
                   p \in {q \in (DOMAIN files) \X (DOMAIN files) : q[1] < q[2]}}
      enough == {p \in scored : p.score > 0 /\ p.score >= MinScore}
      Before(p, q) == \/ p.score > q.score
                      \/ p.score = q.score /\ (p.a < q.a \/ (p.a = q.a /\ p.b < q.b))
  IN  [i \in 1..Cardinality(enough) |->
         CHOOSE p \in enough : Cardinality({q \in enough : Before(q, p)}) = i - 1]

PushLink(edges, a, link, files) ==
  LET to == Resolve(a, link, files)
  IN  IF to = {} THEN edges ELSE Push(edges, Edge(a, CHOOSE b \in to : TRUE, "links"))
PushTarget(edges, a, b, files) == IF b \in DOMAIN files THEN Push(edges, Edge(a, b, "llm")) ELSE edges
PushTerm(edges, pair) ==
  IF \E f \in {pair.a, pair.b} : Touches(edges, f, "terms") >= MaxInferred
  THEN edges ELSE Push(edges, Edge(pair.a, pair.b, "terms"))

\* The explicit links of a file, the KI's edges of a file to files there are.
LinksOfFile(edges, a, files) ==
  LET links == Extracted[files[a].hash].links
      after[n \in 0..Len(links)] ==
        IF n = 0 THEN edges ELSE PushLink(after[n - 1], a, links[n], files)
  IN  after[Len(links)]
TargetsOfFile(edges, a, files) ==
  LET targets == files[a].edges
      after[n \in 0..Len(targets)] ==
        IF n = 0 THEN edges ELSE PushTarget(after[n - 1], a, targets[n], files)
  IN  after[Len(targets)]

\* Those of every file in the order of the paths, then the common terms.
LinkEdges(edges, files) ==
  LET after[f \in 0..Len(Names)] ==
        IF f = 0 THEN edges
        ELSE IF f \in DOMAIN files THEN LinksOfFile(after[f - 1], f, files) ELSE after[f - 1]
  IN  after[Len(Names)]
LlmEdges(edges, files) ==
  LET after[f \in 0..Len(Names)] ==
        IF f = 0 THEN edges
        ELSE IF f \in DOMAIN files THEN TargetsOfFile(after[f - 1], f, files) ELSE after[f - 1]
  IN  after[Len(Names)]
TermEdges(edges, files) ==
  LET pairs == TermCandidates(files)
      after[n \in 0..Len(pairs)] == IF n = 0 THEN edges ELSE PushTerm(after[n - 1], pairs[n])
  IN  after[Len(pairs)]

\* The group of a file: the first folder below the longest root it is in.
Community(f) ==
  LET above == {r \in ToSet(Roots) : IsPrefix(r, Names[f].dir)}
      root == CHOOSE r \in above : \A s \in above : Len(s) <= Len(r)
  IN  IF above = {} THEN Names[f].dir
      ELSE IF root = Names[f].dir THEN <<Last(root)>>
      ELSE <<Last(root), Names[f].dir[Len(root) + 1]>>

\* Mutant: the KI's edges come before the links.
BuildLlmFirst(files) ==
  [nodes |-> {[file |-> f, community |-> Community(f)] : f \in DOMAIN files},
   edges |-> TermEdges(LinkEdges(LlmEdges(<<>>, files), files), files)]

Build(files) ==
  [nodes |-> {[file |-> f, community |-> Community(f)] : f \in DOMAIN files},
   edges |-> TermEdges(LlmEdges(LinkEdges(<<>>, files), files), files)]
=============================================================================
