----------------------------- MODULE MCContent ------------------------------
(***************************************************************************)
(* Content for TLC: small trees, and what is asked of them.                *)
(***************************************************************************)
EXTENDS Content

CONSTANTS c1, c2 \* contents the program adds

\* Every subset of eight files in two directories, and some of them with one in a third, with the
\* extensions of directory_config omitted or none, loaded in every order after up to two contents of
\* the program.
Root == <<"/">>
A == <<"/", "a", "/">>
AB == <<"/", "a", "/", "b", "/">>
File(dir, name, ext) == [dir |-> dir, name |-> name, ext |-> ext]
RootFiles == {File(Root, "index", "html"), File(Root, "index", "htm"), File(Root, "a", "html"),
              File(Root, "a", "png"), File(Root, "b", "exe")}
AFiles == {File(A, "index", "html"), File(A, "index", "htm"), File(A, "b", "htm")}
AllTrees == {r \cup a : r \in SUBSET RootFiles, a \in SUBSET AFiles}
            \cup {r \cup a \cup {File(AB, "index", "html")} :
                    r \in SUBSET {File(Root, "index", "html"), File(Root, "a", "html")},
                    a \in SUBSET {File(A, "index", "html"), File(A, "b", "htm")}}
TakenPaths == {<<"/", "a">>, <<"/", "c">>, <<"c">>}
AllOmits == {{}, {"html", "htm"}}
PublicTypes == {"html", "htm", "png"}
Indices == <<[name |-> "index", ext |-> "html"], [name |-> "index", ext |-> "htm"]>>

\* One file; three regex contents at every combination of three paths, in every order.
FewRegexes == {[name |-> "any", rests |-> {<<>>, <<"a">>, <<"b">>, <<"a", "c">>, <<"c">>}],
               [name |-> "short", rests |-> {<<>>, <<"c">>}],
               [name |-> "c", rests |-> {<<"c">>, <<"b", "c">>}]}
FewPaths == {<<"/">>, <<"/", "a">>, <<"/", "a", "b">>, <<"a">>}
FewRequests == {<<"/">>, <<"/", "a">>, <<"/", "c">>, <<"/", "a", "c">>, <<"/", "a", "b", "c">>}
OneTree == {{File(Root, "index", "html")}}

\* Contents that either, both or no encoding makes smaller, and one that both make as small.
Sizes == [text  |-> [gzip |-> 3, deflate |-> 2, identity |-> 5],
          even  |-> [gzip |-> 2, deflate |-> 2, identity |-> 5],
          mixed |-> [gzip |-> 2, deflate |-> 6, identity |-> 5],
          image |-> [gzip |-> 6, deflate |-> 5, identity |-> 5],
          empty |-> [gzip |-> 2, deflate |-> 1, identity |-> 0]]
=============================================================================
