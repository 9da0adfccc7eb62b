----------------------------- MODULE MCGraphSync -----------------------------
(***************************************************************************)
(* Three notes in two folders for GraphSync.                               *)
(***************************************************************************)
EXTENDS GraphSync

MCNames == << [dir |-> <<"n">>, stem |-> "a", ext |-> "md", len |-> 4],
              [dir |-> <<"n", "x">>, stem |-> "a", ext |-> "md", len |-> 6],
              [dir |-> <<"n", "x">>, stem |-> "b", ext |-> "txt", len |-> 7] >>
MCRoots == <<<<"n">>, <<"n", "x">>>>
MCExtensions == <<"txt", "md">>

Wiki(path) == [kind |-> "wiki", path |-> path]
Path(path) == [kind |-> "path", path |-> path, absolute |-> FALSE, ext |-> ""]
Web == [kind |-> "web"]
Line(kind, links, words, tags) == [kind |-> kind, links |-> links, words |-> words, tags |-> tags]
Mark(kind) == Line(kind, <<>>, <<>>, <<>>)
Heading(links, words) == Line("heading", links, words, <<>>)
Text(links, tags) == Line("text", links, <<>>, tags)
Word == [name |-> "w", len |-> 3, common |-> FALSE]
Short == [name |-> "v", len |-> 1, common |-> FALSE]
MCNormal == [t \in {"t", "T/", "12"} |-> IF t = "12" THEN "" ELSE "t"]

\* A front matter, a link to the second note, common terms; a line that opens a front matter
\* which is not closed, links to the third and to the nearest a, another one in a code block;
\* too much.
MCBodies ==
  << [size |-> 1, lines |-> <<Mark("---"), Line("tags", <<>>, <<>>, <<"12">>), Mark("key"),
                              Line("item", <<>>, <<>>, <<"T/">>), Mark("..."),
                              Heading(<<Web, Wiki(<<"x", "a">>)>>, <<Short, Word, Word>>)>>],
     [size |-> 1, lines |-> <<Mark("---"), Mark("fence"), Heading(<<Wiki(<<"x", "a">>)>>, <<Word>>),
                              Mark("fence"), Text(<<Path(<<".", "x", "b">>), Wiki(<<"a">>)>>, <<"12", "t">>)>>],
     [size |-> 9, lines |-> <<>>] >>

MCModes == {[once |-> FALSE, llm |-> TRUE], [once |-> TRUE, llm |-> FALSE]}
MCDisks == {<<1, 1, 0>>, <<0, 1, 2>>}
MCChildren ==
  LET Says(starts, text, cost) == [starts |-> starts, tooLong |-> FALSE, succeeds |-> TRUE,
                           output |-> [wrapped |-> TRUE, isError |-> FALSE, text |-> text, cost |-> cost]]
      To(s, t) == [source |-> s, target |-> t]
      Links == [isArray |-> TRUE, items |-> <<To(1, 1), To(1, 9), [source |-> 1], To(1, 2), To(1, 2)>>]
      Chat == [isArray |-> FALSE, items |-> <<>>]
  IN  {Says(TRUE, Links, 2), Says(TRUE, Chat, 2), Says(FALSE, Chat, 0)}
=============================================================================
