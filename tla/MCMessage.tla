----------------------------- MODULE MCMessage ------------------------------
(***************************************************************************)
(* Message for TLC: the values its parts are tried with.                   *)
(***************************************************************************)
EXTENDS Message

\* Up to two parameters of every kind of character, and every raw target of up to five
\* characters.
SomePaths == {<<>>, <<"p", "/", "p">>, <<"?", "%">>}
Keys == {<<"p">>, <<"&", "0">>, <<"%", "0", "1">>}
Values == {<<>>, <<"p", "sp">>, <<"=">>, <<"nul", "1">>, <<"%", "high">>}
Parameter == [key : Keys, value : Values]
FewParameters == {<<>>} \cup {<<p>> : p \in Parameter} \cup {<<p, q>> : p, q \in Parameter}
Symbols == {"%", "0", "2", "p", "?", "&", "=", "high"}
RawTargets == {<<"/">> \o s : s \in UNION {[1 .. n -> Symbols] : n \in 0 .. 4}}
              \cup {<<"/", "?", "p", "=">> \o s : s \in UNION {[1 .. n -> Symbols] : n \in 1 .. 4}}
              \cup {<<>>, <<"p">>}

\* Field names and values around their limits.
FewNames == {<<"k">>, <<"x">>, <<"x", "k">>, <<"x", "x", "k">>, <<"x", "x", "x", "k">>}
ShortValues == UNION {[1..n -> {"x", "sp", "fold"}] : n \in 0..2}
               \cup {<<"x", "x", "x">>, <<"x", "x", "x", "x">>, <<"x", "sp", "x", "x">>,
                     <<"sp", "x", "fold", "sp", "x">>, <<"x", "x", "sp", "fold">>}

\* Plain names and values of cookies, and such as do not survive.
SomeCookieNames == {<<"x">>, <<"y">>, <<"path">>, <<"x", "semi", "y">>, <<"x", "sp">>, <<>>}
SomeCookieValues == {<<>>, <<"x">>, <<"=", "y">>, <<"x", "sp", "y">>, <<"x", "semi", "x">>, <<"sp", "y">>,
                     <<"x", "sp", "sp", "y">>, <<"x", "tab", "y">>, <<"x", "sp", "x", "sp", "x", "x">>}

\* Pieces that look like the framing, among them one in which a length shifted by three bits finds
\* two more sizes, one that has a size of two digits, and one that has a size of three.
SomePieces == {<<"0">>, <<"cr", "lf">>, [i \in 1..17 |-> <<"0", "cr", "lf">>[(i % 3) + 1]],
               <<"x", "x", "cr", "lf", "1", "cr", "lf", "x", "cr", "lf", "0", "cr", "lf", "x", "x", "x">>}
SomeContents == UNION {[1..n -> SomePieces] : n \in 0..3} \cup {<<[i \in 1..256 |-> "x"]>>}
=============================================================================
