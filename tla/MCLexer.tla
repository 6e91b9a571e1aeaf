------------------------------- MODULE MCLexer -------------------------------
(***************************************************************************)
(* Sources for the lexer, written from what they mean: a writer puts terms *)
(* and operators together, knows which tokens each stands for, and places  *)
(* the bodies of heredocs behind the next line end.                        *)
(***************************************************************************)
EXTENDS Lexer
LOCAL INSTANCE SequencesExt

\* A fragment: its text, its tokens, and the heredoc bodies that have to follow its line.
F(text, toks) == [text |-> text, toks |-> toks, docs |-> <<>>]
D(text, toks, docs) == [text |-> text, toks |-> toks, docs |-> docs]
Sc(name) == T("ScalarVar", <<name>>)
Lit(val) == T("StringLit", val)
Dq(val) == T("InterpString", val)
End1 == <<"A", "\n">>
Body1 == <<"u", "$", "x", "\n">>

\* Terms that read the same wherever they are.
Plain == {
    F(<<"$", "a">>, <<Sc("a")>>),
    F(<<"$", "$", " ">>, <<Sc("$")>>),
    F(<<"$", "$", "$", "r">>, <<T("ScalarDeref", <<"$", "r">>)>>),
    F(<<"$", "/">>, <<Sc("/")>>),
    F(<<"$", "{", "a", "}">>, <<Sc("a")>>),
    F(<<"$", "#", "{", "a", "}">>, <<T("ArrayLen", <<"{">>), Op("{"), T("Ident", <<"a">>), Op("}")>>),
    F(<<"@", "{", "$", "r", "}">>, <<T("ArrayDeref", <<"r">>)>>),
    F(<<"@", "{", " ", "f", " ", "}">>, <<T("ArrayBlockDerefOpen", <<>>), T("Ident", <<"f">>), Op("}")>>),
    F(<<"$", "a", "::", "b">>, <<T("ScalarVar", <<"a", "::", "b">>)>>),
    F(<<"1", ".", "2">>, <<T("Float", <<"1", ".", "2">>)>>),
    F(<<"f", "(", "1", ".", ".", "2", ")">>,
      <<T("Ident", <<"f">>), Op("("), T("Integer", <<"1">>), Op(".."), T("Integer", <<"2">>), Op(")")>>),
    F(<<"'", "a", "\\", "'", "'">>, <<Lit(<<"a", "'">>)>>),
    F(<<"\"", "a", "\\", "$", "b", "\"">>, <<Lit(<<"a", "$", "b">>)>>),
    F(<<"\"", "\\", "$", "a", "$", "b", "\"">>, <<Dq(<<"F1", "a", "$", "b">>)>>),
    F(<<"tick", "a", "tick">>, <<T("Ident", <<"backtick">>), Lit(<<"a">>)>>),
    F(<<"q", "(", "a", "(", "\\", ")", ")", "b", ")">>, <<Lit(<<"a", "(", ")", ")", "b">>)>>),
    F(<<"q", "#", "a", "#">>, <<Lit(<<"a">>)>>),
    F(<<"qq", "/", "\\", "/", "$", "a", "/">>, <<Dq(<<"/", "$", "a">>)>>),
    F(<<"qq", "{", "\\", "@", "\\", "n", "}">>, <<Lit(<<"@", "\n">>)>>),
    F(<<"qw", "<", "a", " ", "b", ">">>, <<T("QW", <<"a", "b">>)>>),
    F(<<"qr", "'", "$", "a", "'", "i">>, <<T("QrLit", << <<"\\", "$", "a">>, <<"i">> >>)>>),
    F(<<"m", "{", "a", "{", "1", "}", "}", "g">>, <<T("RegexLit", << <<"a", "{", "1", "}">>, <<"g">> >>)>>),
    F(<<"s", "{", "a", "}", " ", "{", "b", "}", "e">>, <<T("Substitution", << <<"a">>, <<"b">>, <<"e">> >>)>>),
    F(<<"y", "/", "a", "/", "b", "/">>, <<T("Transliterate", << <<"a">>, <<"b">>, <<>> >>)>>),
    F(<<"tr", "/", "\\", "N", "{", "U", "+", "1", "}", "/", "b", "/">>,
      <<T("Transliterate", << <<"\\", "N", "{", "U", "+", "1", "}">>, <<"b">>, <<>> >>)>>),
    F(<<"{", "y", " ", "=", ">", "s", " ", "=", ">", "1", "}">>,
      <<Op("{"), Lit(<<"y">>), Op("=>"), Lit(<<"s">>), Op("=>"), T("Integer", <<"1">>), Op("}")>>),
    F(<<"shift", " ", "/", "/", "1">>, <<Op("shift"), Op("//"), T("Integer", <<"1">>)>>)}
\* Terms with heredocs.
Docs == {
    D(<<"<", "<", "A">>, <<Dq(Body1)>>, Body1 \o End1),
    D(<<"<", "<", "'", "A", "'">>, <<Lit(<<"\\", "$", "x", "\n">>)>>, <<"\\", "$", "x", "\n">> \o End1),
    D(<<"<", "<", "~", "A">>, <<Dq(<<"u", "\n", "\n", " ", "v", "\n">>)>>,
      <<" ", "u", "\n", "\n", " ", " ", "v", "\n", " ">> \o End1),
    D(<<"<", "<", "tick", "A", "tick">>, <<T("Ident", <<"backtick">>), Dq(Body1)>>, Body1 \o End1),
    D(<<"<", "<", "A">>, <<Dq(<<"@", "{", "q", "[", "\\", "[", "\n", "]", "}", "w", "\n">>)>>,
      <<"@", "{", "<", "<", "'", "B", "'", "}", "w", "\n", "[", "\n", "B", "\n">> \o End1),
    D(<<"\"", "$", "{", "\\", "<", "<", "A", "}", "\"">>,
      <<Dq(<<"$", "{", "\\", "\"", "u", "$", "x", "\\", "n", "\"", "}">>)>>, Body1 \o End1),
    D(<<"qq", "{", "@", "{", "[", "<", "<", "'", "A", "'", "]", "}", "}">>,
      <<Dq(<<"@", "{", "[", "q", "[", "u", "$", "x", "\n", "]", "]", "}">>)>>, Body1 \o End1),
    D(<<"s", "/", "a", "/", "<", "<", "A", "/", "e">>,
      <<T("Substitution", << <<"a">>, <<"\"", "u", "$", "x", "\\", "n", "\"">>, <<"e">> >>)>>, Body1 \o End1),
    D(<<"s", "/", "<", "<", "A", "/", "b", "/">>,
      <<T("Substitution", << <<"\"", "u", "$", "x", "\\", "n", "\"">>, <<"b">>, <<>> >>)>>, Body1 \o End1)}
\* Terms whose first sign could be an operator.
Signed == {
    F(<<"/", "a", "\\", "/", "/", "g">>, <<T("RegexLit", << <<"a", "\\", "/">>, <<"g">> >>)>>),
    F(<<"%", "h">>, <<T("HashVar", <<"h">>)>>),
    F(<<"%", "$", "r">>, <<T("HashDeref", <<"r">>)>>),
    F(<<"%", "{", "^", "H", "}">>, <<T("HashVar", <<"^", "H">>)>>),
    F(<<"%", "{", "$", "r", "}">>, <<T("HashBlockDerefOpen", <<>>), Op("{"), Sc("r"), Op("}")>>),
    F(<<"*", "f">>, <<T("Glob", <<"f">>)>>),
    F(<<"*", "{", "$", "r", "}">>, <<T("Glob", <<"$", "r">>)>>),
    F(<<"<", "$", "f", ">">>, <<T("Diamond", <<"$", "f">>)>>),
    F(<<"-", "e", " ", "-", "f", " ", "$", "a">>,
      <<T("Ident", <<"-", "e">>), T("Ident", <<"-", "f">>), Sc("a")>>),
    F(<<"~", "~", "$", "a">>, <<Op("~"), Op("~"), Sc("a")>>),
    F(<<"scalar", " ", "%", "h">>, <<T("Ident", <<"scalar">>), T("HashVar", <<"h">>)>>),
    F(<<"(", "v", "1", ".", "2", ")">>, <<Op("("), Lit(<<"chr", "chr">>), Op(")")>>)}
Terms == Plain \cup Docs \cup Signed
\* Operators, and whether the lexer's list says that a term follows.
Listed == {F(<<"/">>, <<Op("/")>>), F(<<"%">>, <<Op("%")>>), F(<<"*">>, <<Op("*")>>), F(<<"-">>, <<Op("-")>>),
           F(<<"<">>, <<Op("<")>>), F(<<"<", "<">>, <<Op("<<")>>), F(<<"/", "/">>, <<Op("//")>>),
           F(<<"=", "~">>, <<Op("=~")>>), F(<<"<", "=", ">">>, <<Op("<=>")>>), F(<<".">>, <<Op(".")>>),
           F(<<"~", "~">>, <<Op("~~")>>), F(<<"?">>, <<Op("?")>>)}
Unlisted == {F(<<"x">>, <<Op("x")>>), F(<<"x", "=">>, <<Op("x=")>>), F(<<"eq">>, <<Op("eq")>>),
             F(<<"/", "/", "=">>, <<Op("//=")>>), F(<<"x", "2", " ", ".">>, <<Op("x"), T("Integer", <<"2">>), Op(".")>>)}

\* What is between tokens: text, the number the next line gets (0: the next one), and a file's name.
Gap1(text, next, file) == [text |-> text, next |-> next, file |-> file]
Space == Gap1(<<" ">>, 0, <<>>)
Line == Gap1(<<"\n">>, 0, <<>>)
NoGap == Gap1(<<>>, 0, <<>>)
CommentGap == Gap1(<<" ", "#", "'", "\n">>, 0, <<>>)
LineNumber == Gap1(<<"#", " ", "line", " ", "2", "\n">>, 2, <<>>)
FileName == Gap1(<<" ", "#", "line", " ", "1", " ", "\"", "F", "\"", "\n">>, 1, <<"F">>)
PodText == Gap1(<<"=", "head", " ", "'", "\n", "=", "cut", "2", "\n", "=", "cut", "\n">>, 0, <<>>)
FormatText == Gap1(<<"format", " ", "F", " ", "=", "\n", "@", "'", "\n", ".", " ", "\n">>, 0, <<>>)

Newlines(text) == Cardinality({i \in DOMAIN text : text[i] = "\n"})
\* The writer: a gap with a line end is followed by the bodies that are due.
Put(acc, f) ==
    [acc EXCEPT !.text = @ \o f.text, !.toks = @ \o f.toks, !.docs = @ \o f.docs,
                !.lines = @ \o [i \in DOMAIN f.toks |-> acc.line]]
Skip(acc, g) ==
    LET due == IF Newlines(g.text) > 0 THEN acc.docs ELSE <<>> IN
    [acc EXCEPT !.text = @ \o g.text \o due, !.docs = IF due = <<>> THEN @ ELSE <<>>,
                !.line = (IF g.next = 0 THEN @ + Newlines(g.text) ELSE g.next) + Newlines(due),
                !.files = IF g.file = <<>> THEN @ ELSE Append(@, [before |-> Len(acc.toks), file |-> g.file])]
Blank1 == [text |-> <<>>, toks |-> <<>>, lines |-> <<>>, docs |-> <<>>, line |-> 1, files |-> <<>>,
           data |-> None, err |-> None]
Semicolon == F(<<";">>, <<Op(";")>>)
\* A source ends with its text, or with the marker and data behind it.
Ended(acc) == Put(acc, F(<<>>, <<Op("EOF")>>))
Marked1(acc) == [acc EXCEPT !.text = @ \o <<"__END__", "\n", "/">>, !.data = <<"/">>]
Binary(t1, op, gap, t2) ==
    Ended(Skip(Put(Put(Skip(Put(Skip(Put(Blank1, t1), Space), op), gap), t2), Semicolon), Line))
Framed(lead, t1, t2) ==
    Ended(Skip(Put(Put(Put(Put(Skip(Blank1, lead), t1), F(<<",">>, <<Op(",")>>)), t2), Semicolon), Line))
Followed(t1, gap, t2) ==
    Marked1(Skip(Put(Skip(Skip(Put(Put(Blank1, t1), Semicolon), Line), gap), t2), Line))

\* Texts that end inside something, or hold what is an error, after a term.
Bad(text, err) == [text |-> text, err |-> err]
Broken == {
    Bad(<<"/", "a", "\\", "/">>, "pattern"), Bad(<<"m", "{", "a", "{", "}">>, "pattern"),
    Bad(<<"qr", "(", "a", "\\", ")">>, "pattern"),
    Bad(<<"s", "/", "a">>, "substitution pattern"), Bad(<<"s", "{", "a", "}", "{", "b">>, "substitution replacement"),
    Bad(<<"s", "/", "a", "/", "b">>, "substitution replacement"),
    Bad(<<"tr", "(", "a", "(", ")", "b">>, "substitution pattern"),
    Bad(<<"<", "<", "A">>, "no terminator"), Bad(<<"<", "<", "A", ";", "\n", "A", " ", "\n">>, "no terminator"),
    Bad(<<"<", "<", "\"", "A", "\n", "A", "\n">>, "delimiter"),
    Bad(<<"<", "<", "\"", "\"", "1">>, "number"), Bad(<<"<", "<", "\"", "\"", "\n", "u">>, "no terminator"),
    Bad(<<"<", "<", "~", "A", "\n", "u", "\n", " ", "A", "\n">>, "indentation"),
    Bad(<<"<", "<", "A", "\n", "u", "$", " ", "\n", "A", "\n">>, "final $"),
    Bad(<<"\"", "@", "{", "<", "<", "A", "}", "\"", "\n", "u", "\n">>, "no terminator"),
    Bad(<<"s", "/", "a", "/", "<", "<", "A", "\n", "u", "/", ";">>, "no terminator"),
    Bad(<<"tr", "/", "\\", "N", "{", "u", "}", "/", "b", "/">>, "named character"),
    Bad(<<"^A">>, "character")}
Breaking(t1, gap, b) ==
    LET acc == Skip(Put(Skip(Put(Blank1, t1), Line), F(<<",">>, <<Op(",")>>)), gap)
    IN [acc EXCEPT !.text = @ \o b.text, !.err = b.err]

MCSources ==
    [listed   |-> {Binary(t1, op, Space, t2) : t1 \in Terms, op \in Listed, t2 \in Docs \cup Signed},
     wrapped  |-> {Binary(t1, op, Line, t2) : t1 \in Docs, op \in Listed, t2 \in Signed},
     unlisted |-> {Binary(t1, op, Space, t2) : t1 \in Terms, op \in Unlisted, t2 \in Plain},
     framed   |-> {Framed(lead, t1, t2) : lead \in {NoGap, CommentGap, LineNumber, FileName, PodText, FormatText},
                                          t1 \in Docs \cup Signed, t2 \in Terms},
     followed |-> {Followed(t1, gap, t2) : t1 \in Docs, gap \in {NoGap, CommentGap, LineNumber, FileName, PodText},
                                           t2 \in Terms \ Docs},
     broken   |-> {Breaking(t1, gap, b) : t1 \in Terms, gap \in {Space, Line, CommentGap}, b \in Broken}]
=============================================================================
