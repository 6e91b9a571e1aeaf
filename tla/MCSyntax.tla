------------------------------ MODULE MCSyntax ------------------------------
(***************************************************************************)
(* Programs for the parser.  A sample is an expression or statement as     *)
(* tokens and as the tree they stand for; an expression also has the level *)
(* of its operator in perlop's table, loosest first, and is parenthesised  *)
(* where a tighter one is called for.                                      *)
(***************************************************************************)
EXTENDS Syntax

E(t, e, l) == [t |-> t, e |-> e, l |-> l]
X == E(<<"$x">>, Leaf("$x"), 21)
Constant == E(<<"1">>, Leaf("1"), 21)
In(x, l) == IF x.l < l THEN <<"(">> \o x.t \o <<")">> ELSE x.t

\* Operator, its level, the levels of its operands.
Table == {<<"or", 1, 1, 2>>, <<"xor", 1, 1, 2>>, <<"and", 2, 2, 3>>, <<"..", 6, 7, 7>>,
          <<"||", 7, 7, 8>>, <<"//", 7, 7, 8>>, <<"&&", 8, 8, 9>>, <<"|", 9, 9, 10>>,
          <<"^", 10, 10, 11>>, <<"&", 11, 11, 12>>, <<"==", 12, 13, 13>>, <<"<=>", 12, 13, 13>>,
          <<"<", 13, 14, 14>>, <<"<<", 14, 14, 15>>, <<"+", 15, 15, 16>>, <<".", 15, 15, 16>>,
          <<"*", 16, 16, 17>>, <<"**", 19, 20, 18>>}
Comparing(e) == HasOp(e, Equality \cup NonAssoc \cup Relational)
\* Comparisons of comparisons are left out: the parser takes parentheses for a chain.
Combined(a, b) == {E(In(a, o[3]) \o <<o[1]>> \o In(b, o[4]), N(o[1], <<a.e, b.e>>), o[2]) :
                 o \in {q \in Table : q[2] \in {12, 13} => ~Comparing(a.e) /\ ~Comparing(b.e)}}
Others(a, b) ==
    {E(<<"$x", "=">> \o In(a, 4), N("=", <<X.e, a.e>>), 4),
     E(<<"$x", "+=">> \o In(a, 4), N("+=", <<X.e, a.e>>), 4),
     E(In(a, 6) \o <<"?">> \o In(b, 4) \o <<":">> \o In(b, 5), N("?:", <<a.e, b.e, b.e>>), 5),
     E(<<"not">> \o In(a, 3), N("not", <<a.e>>), 3),
     E(<<"-">> \o In(a, 18), N("prefix", <<Leaf("-"), a.e>>), 18),
     E(<<"!">> \o In(a, 18), N("prefix", <<Leaf("!"), a.e>>), 18),
     E(In(a, 18) \o <<"=~", "/p/">>, N("=~", <<a.e, Leaf("/p/")>>), 17),
     E(<<"$x", "[">> \o a.t \o <<"]">>, N("[]", <<X.e, a.e>>), 20),
     E(<<"$x", "->", "[">> \o a.t \o <<"]", "++">>,
       N("postfix", <<Leaf("++"), N("->[]", <<X.e, a.e>>)>>), 20),
     E(<<"$x", "{", "w", "}", "{", "1", "}">>, N("->{}", <<N("{}", <<X.e, Quoted("w")>>), Constant.e>>), 20),
     E(<<"f", "(">> \o a.t \o <<",">> \o b.t \o <<")">>, N("call", <<Leaf("f"), a.e, b.e>>), 21),
     E(<<"length", "(">> \o a.t \o <<")">>, N("length", <<a.e>>), 21),
     E(<<"[">> \o a.t \o <<",">> \o b.t \o <<"]">>, N("array", <<a.e, b.e>>), 21),
     E(<<"$x", "->", "w", "(">> \o a.t \o <<")">>, N("method", <<X.e, Leaf("w"), a.e>>), 20),
     E(<<"(">> \o a.t \o <<",">> \o b.t \o <<")", "[", "1", "]">>,
       N("list[]", <<N("list", <<a.e, b.e>>), Constant.e>>), 20),
     E(<<"shift", "||">> \o In(a, 8), N("||", <<Leaf("shift"), a.e>>), 7),
     E(<<"w", "(", "sub", "{">> \o a.t \o <<"}", ")">>,
       N("call", <<Leaf("w"), N("sub", <<N("block", <<a.e>>)>>)>>), 21)}
\* Operands of other forms around the expression a: named operators bind tighter than
\* comparisons (10 in perlop), list operators take all that follows.
Terms(a) ==
    {E(<<"defined", "(">> \o a.t \o <<")">>, N("defined", <<a.e>>), 18),
     E(<<"defined", "$x">>, N("defined", <<X.e>>), 13),
     E(<<"-e", "$x">>, N("-e", <<X.e>>), 13),
     E(<<"backslash", "(">> \o a.t \o <<",", "$y", ")">>, N("refs", <<a.e, Leaf("$y")>>), 18),
     E(<<"backslash", "@a">>, N("ref", <<Leaf("@a")>>), 18),
     E(<<"&", "f", "(">> \o a.t \o <<")">>, N("call", <<Leaf("f"), a.e>>), 18),
     E(<<"&", "f">>, N("call", <<Leaf("f"), Leaf("@_")>>), 18),
     E(<<"&", "$x", "(">> \o a.t \o <<")">>, N("->()", <<X.e, a.e>>), 18),
     E(<<"&", "{">> \o a.t \o <<"}", "(", ")">>, N("->()", <<a.e>>), 18),
     E(<<"@{">> \o a.t \o <<"}">>, N("@{}", <<a.e>>), 21),
     E(<<"${">> \o a.t \o <<"}">>, N("${}", <<a.e>>), 21),
     E(<<"$$r", "[">> \o a.t \o <<"]">>, N("->[]", <<Leaf("$$r"), a.e>>), 20),
     E(<<"${", "$x", "}", "{">> \o a.t \o <<"}">>, N("->{}", <<X.e, a.e>>), 20),
     E(<<"@a", "[">> \o a.t \o <<",", "1", "]">>, N("slice", <<Leaf("["), Leaf("@a"), a.e, Constant.e>>), 20),
     E(<<"%h", "{", "'s'", ",">> \o a.t \o <<"}">>, N("slice", <<Leaf("{"), Leaf("%h"), Leaf("'s'"), a.e>>), 20),
     E(<<"$x", "->", "@", "[">> \o a.t \o <<"]">>, N("slice", <<Leaf("@"), X.e, a.e>>), 20),
     E(<<"$x", "->", "$#", "*">>, N("flat", <<Leaf("$#"), X.e>>), 20),
     E(<<"$x", "->", "(">> \o a.t \o <<")", "->", "{", "w", "}">>,
       N("->{}", <<N("->()", <<X.e, a.e>>), Quoted("w")>>), 20),
     E(<<"Cls", "->", "w">>, N("method", <<Quoted("Cls"), Leaf("w")>>), 20),
     E(<<"w", "Cls", "(">> \o a.t \o <<")">>, N("method", <<Quoted("Cls"), Leaf("w"), a.e>>), 21),
     E(<<"undef", "(">> \o a.t \o <<")">>, N("undef", <<a.e>>), 21),
     E(<<"[", "{", "w", "=>">> \o a.t \o <<"}", "]">>, N("array", <<N("hash", <<Quoted("w"), a.e>>)>>), 21),
     E(<<"map", "{">> \o a.t \o <<"}", "@a">>, N("map", <<N("do", <<N("block", <<a.e>>)>>), Leaf("@a")>>), 0),
     E(<<"sort", "{">> \o a.t \o <<"}", "@a">>, N("sort", <<N("do", <<N("block", <<a.e>>)>>), Leaf("@a")>>), 0),
     E(<<"map", "(">> \o a.t \o <<",", "@a", ")">>, N("map", <<a.e, Leaf("@a")>>), 21),
     E(<<"keys", "%$r">>, N("keys", <<Leaf("%$r")>>), 13),
     E(<<"delete", "$x", "{">> \o a.t \o <<"}">>, N("delete", <<N("{}", <<X.e, a.e>>)>>), 18),
     E(<<"delete", "local", "$x", "{">> \o a.t \o <<"}">>,
       N("delete local", <<X.e, Leaf("{"), a.e>>), 18),
     E(<<"do", "{">> \o a.t \o <<"}">>, N("do", <<N("block", <<a.e>>)>>), 21),
     E(<<"eval", "{">> \o a.t \o <<"}">>, N("eval", <<N("block", <<a.e>>)>>), 0),
     E(<<"join", "'s'", ",">> \o a.t, N("join", <<Leaf("'s'"), a.e>>), 0),
     E(<<"join", "(", "'s'", ",">> \o a.t \o <<")">>, N("join", <<Leaf("'s'"), a.e>>), 21),
     E(<<"die", "(">> \o a.t \o <<")">>, N("die", <<a.e>>), 0),
     E(<<"shift">>, Leaf("shift"), 0), E(<<"time">>, N("call", <<Leaf("time")>>), 0),
     E(<<"scalar", "(">> \o a.t \o <<")">>, N("call", <<Leaf("scalar"), a.e>>), 21),
     E(<<"scalar", "@a">>, N("call", <<Leaf("scalar"), Leaf("@a")>>), 13),
     E(<<"rand", "1.5">>, N("call", <<Leaf("rand"), Leaf("1.5")>>), 13),
     E(<<"wantarray">>, Leaf("wantarray"), 21), E(<<"qw">>, Leaf("qw"), 21),
     E(<<"s/p/">>, N("s/p/", <<Topic>>), 21),
     E(<<"$x", "=~", "s/p/">>, N("s/p/", <<X.e>>), 17)}
Trees == UNION {Terms(a) : a \in {X, Constant} \cup Combined(X, Constant)}
\* An operand of level 0 takes what follows it, so it is only ever the last.
Around == UNION ({Trees} \cup {Combined(X, a) : a \in Terms(X)}
                 \cup {Combined(a, Constant) : a \in {b \in Terms(X) : b.l > 0}})
Level1 == Combined(X, Constant) \cup Others(X, Constant)
Level2 == UNION {UNION {Combined(a, Constant), Combined(Constant, a), Combined(a, a), Others(a, Constant)} :
                 a \in Level1}
Few == {a \in Level1 : a.l \in {2, 4, 5, 7, 12, 15, 18, 19}}
Mixed == UNION {Combined(a, b) : a \in Few, b \in Few}

\* Statements around the statement b and the expression c.
S(t, e) == [t |-> t, e |-> e]
B(b) == <<"{">> \o b.t \o <<"}">>
P(c) == <<"(">> \o c.t \o <<")">>
Inside(b) == N("block", <<b.e>>)
Simple(c) == {S(c.t \o <<";">>, c.e), S(<<"last", ";">>, Leaf("last")),
              S(<<"return">> \o c.t \o <<";">>, N("return", <<c.e>>)),
              S(<<"print">> \o c.t \o <<";">>, N("print", <<c.e>>)),
              S(<<"my", "$y", "=">> \o c.t \o <<";">>, N("my", <<Leaf("$y"), c.e>>)),
              S(<<"local", "$y", "{", "w", "}", "=">> \o c.t \o <<";">>,
                N("local element", <<Leaf("$y"), Leaf("{"), Quoted("w"), c.e>>)),
              S(c.t \o <<"if", "$y", ";">>, N("postfix", <<Leaf("if"), c.e, Leaf("$y")>>)),
              S(<<"w", "(", ")", ",", "next", "unless">> \o c.t \o <<";">>,
                N("postfix", <<Leaf("unless"), N("block", <<N("call", <<Leaf("w")>>), Leaf("next")>>), c.e>>))}
\* Declarations and the statements that have no block.
Plain(c) ==
    {S(<<"our", "$x", "=">> \o c.t \o <<";">>, N("our", <<X.e, c.e>>)),
     S(<<"my", "(", "$x", ",", "@a", ")", "=">> \o c.t \o <<";">>,
       N("my", <<N("list", <<X.e, Leaf("@a")>>), c.e>>)),
     S(<<"state", "$x", "=">> \o c.t \o <<";">>, N("state", <<X.e, c.e>>)),
     S(<<"local", "$x", ";">>, N("local", <<X.e>>)),
     S(<<"local", "$_", "=">> \o c.t \o <<";">>, N("local", <<Topic, c.e>>)),
     S(<<"local", "(", "%h", "{", "'s'", ",">> \o c.t \o <<"}", ")", "=", "@a", ";">>,
       N("local slice", <<Leaf("%h"), Leaf("'s'"), c.e, Leaf("@a")>>)),
     S(<<"my", "$x", ":", "w", "(", "1", ")", "=">> \o c.t \o <<";">>, N("my", <<X.e, c.e>>)),
     S(<<"use", "Cls", "qw", ";">>, N("use", <<Leaf("Cls"), Leaf("qw")>>)),
     S(<<"no", "w", ";">>, N("no", <<Leaf("w")>>)), S(<<"use", "1.5", ";">>, Leaf("nop")),
     S(<<"require">> \o c.t \o <<";">>, N("require", <<c.e>>)),
     S(<<"package", "Cls", ";">>, N("package", <<Leaf("Cls")>>)),
     S(<<"package", "Cls", "1.5", ";">>, N("package", <<Leaf("Cls"), Leaf("1.5")>>)),
     S(<<"goto", "&", "f", ";">>, N("goto", <<Leaf("f")>>)), S(<<"goto", "W", ";">>, N("goto", <<Leaf("W")>>)),
     S(<<"sub", "f", "(", "$x", ")", ":", "lvalue", ";">>, N("sub", <<Leaf("f")>>)),
     S(<<"return", "unless">> \o c.t \o <<";">>, N("postfix", <<Leaf("unless"), Leaf("return"), c.e>>)),
     S(<<"next", "W", "if">> \o c.t \o <<";">>, N("postfix", <<Leaf("if"), N("next", <<Leaf("W")>>), c.e>>)),
     S(<<"die">> \o c.t \o <<",", "1", "for", "@a", ",", "$x", ";">>,
       N("postfix", <<Leaf("for"), N("die", <<c.e, Constant.e>>), N("list", <<Leaf("@a"), X.e>>)>>)),
     S(<<"print", "W">> \o c.t \o <<";">>, N("print to", <<Leaf("W"), c.e>>)),
     S(<<"print", "(">> \o c.t \o <<")", ";">>, N("print", <<c.e>>)),
     S(<<"print", "(">> \o c.t \o <<")", "if", "$y", ";">>,
       N("postfix", <<Leaf("if"), N("print", <<c.e>>), Leaf("$y")>>)),
     S(<<"print", "+">> \o c.t \o <<";">>, N("print", <<c.e>>)),
     S(<<"...", ";">>, N("die", <<>>)),
     S(<<"eval", "{">> \o c.t \o <<"}", "||", "$y", ";">>,
       N("||", <<N("eval", <<Inside(c)>>), Leaf("$y")>>)),
     S(<<"sub", "{">> \o c.t \o <<"}", "->", "(", ")", ";">>, N("->()", <<N("sub", <<Inside(c)>>)>>)),
     S(<<"while", "(", "<F>", ")", "{", "}">>,
       N("while", <<N("defined", <<N("=", <<Topic, Leaf("<F>")>>)>>), N("block", <<>>)>>)),
     S(<<"while", "(", ")", "{", "}">>, N("while", <<Constant.e, N("block", <<>>)>>)),
     S(<<"while", "(", "$y", "=", "<F>", ")", "{", "}">>,
       N("while", <<N("defined", <<N("=", <<Leaf("$y"), Leaf("<F>")>>)>>), N("block", <<>>)>>)),
     S(<<"for", "(", "my", "$x", "=">> \o c.t \o <<";", "$x", "<", "1", ";", "$x", "++", ")", "{", "}">>,
       N("for", <<N("my", <<X.e, c.e>>), N("<", <<X.e, Constant.e>>), N("postfix", <<Leaf("++"), X.e>>), N("block", <<>>)>>))}
Compound(b, c) ==
    {S(<<"if">> \o P(c) \o B(b), N("if", <<c.e, Inside(b)>>)),
     S(<<"if">> \o P(c) \o B(b) \o <<"elsif">> \o P(c) \o B(b) \o <<"else">> \o B(b),
       N("if", <<c.e, Inside(b), c.e, Inside(b), Inside(b)>>)),
     S(<<"unless">> \o P(c) \o B(b) \o <<"else">> \o B(b), N("unless", <<c.e, Inside(b), Inside(b)>>)),
     S(<<"while">> \o P(c) \o B(b) \o <<"continue">> \o B(b), N("while", <<c.e, Inside(b), Inside(b)>>)),
     S(<<"W", ":", "until">> \o P(c) \o B(b), N("label", <<Leaf("W"), N("until", <<c.e, Inside(b)>>)>>)),
     S(<<"for", "(", ";">> \o c.t \o <<";", ")">> \o B(b),
       N("for", <<Leaf(""), c.e, Leaf(""), Inside(b)>>)),
     S(<<"for", "my", "$y">> \o P(c) \o B(b), N("foreach", <<Leaf("$y"), c.e, Inside(b)>>)),
     S(<<"for">> \o P(c) \o B(b), N("foreach", <<Leaf("$_"), c.e, Inside(b)>>)),
     S(B(b) \o <<"continue">> \o B(b), N("bare", <<Inside(b), Inside(b)>>)),
     S(<<"sub", "f">> \o B(b), N("sub", <<Leaf("f"), Inside(b)>>)),
     S(<<"eval">> \o B(b) \o <<";">>, N("eval", <<Inside(b)>>)),
     S(<<"package", "Cls">> \o B(b), N("package", <<Leaf("Cls"), Inside(b)>>)),
     S(<<"END">> \o B(b), N("END", <<Inside(b)>>)), S(<<"BEGIN">> \o B(b), N("BEGIN", <<Inside(b)>>)),
     S(<<"defer">> \o B(b), N("defer", <<Inside(b)>>)),
     S(<<"my", "$y", "=", "{", "w", "=>">> \o c.t \o <<"}", ";">>,
       N("my", <<Leaf("$y"), N("hash", <<Quoted("w"), c.e>>)>>))}
Conditions == {X, E(<<"$x", "+", "1">>, N("+", <<X.e, Constant.e>>), 15)}
S0 == UNION {Simple(c) \cup Plain(c) : c \in Conditions}
S1 == UNION {Compound(b, X) : b \in S0}
S2 == UNION {Compound(b, X) : b \in UNION {Compound(a, X) : a \in Simple(X)}}
Program(t, trees) == [t |-> t, trees |-> trees, is |-> "good"]
Not(t, kind) == [t |-> t, trees |-> <<>>, is |-> kind]
\* Behind `print (...);` a statement's word is read as a modifier: left out.
Printed(a, b) == a.t[1] = "print" /\ a.t[2] = "(" /\ b.t[1] \in Modifiers
Pairs == {<<a, b>> : a, b \in S0 \cup Compound(S(<<"w", ";">>, Quoted("w")), X)}
Good == UNION {
    {Program(s.t \o <<";">>, <<s.e>>) : s \in UNION {Level1, Level2, Mixed, Around}},
    {Program(s.t, <<s.e>>) : s \in UNION {S1, S2}},
    {Program(p[1].t \o p[2].t, <<p[1].e, p[2].e>>) : p \in {q \in Pairs : ~Printed(q[1], q[2])}},
    {Program(<<"$x", o, "1", q, "$y">>,
                   <<N("&&", <<N(o, <<X.e, Constant.e>>), N(q, <<Constant.e, Leaf("$y")>>)>>)>>) :
                <<o, q>> \in (Equality \X Equality) \cup (Relational \X Relational)}}
Bad == {Not(a.t \o <<o[1]>> \o e, "bad") : a \in Level1, o \in {q \in Table : q[1] \notin {"..", "**"}},
                                    e \in {<<>>, <<";">>}}
       \cup {Not(<<"$x", o, "1", q, "$y">>, "bad") :
                <<o, q>> \in (NonAssoc \X (Equality \cup NonAssoc)) \cup (Equality \X NonAssoc)}
\* Any tokens: all short sequences, and longer ones over fewer tokens.
Every == Variables \cup Derefs \cup BlockDerefs \cup Idents \cup Literals \cup NamedUnary \cup ListOps
         \cup Modifiers \cup Named \cup UNION ToSet(Infixes)
         \cup {"(", ")", "[", "]", "{", "}", ";", ",", "=>", ":", "->", "=~", "!", "backslash", "++", "-e", "<F>",
               "/p/", "s/p/", "qw", "*F", "$#a", "$*", "undef", "defined", "map", "sort", "keys", "delete",
               "state", "BEGIN", "elsif", "else", "continue"}
Soup == {"$x", "w", "f", "(", ")", "{", "}", ";", ",", "if", "for", "+", "&&", "my", "local", "sub", "print", "->", "["}
Brackets == {"(", ")", "{", "}", ";", "$x", "sub", "if"}
AnyTokens == {Not(t, "any") : t \in UNION {
    {<<a>> : a \in Every}, {<<a, b>> : a, b \in Every}, {<<a, b, c>> : a, b, c \in Soup},
    {<<a, b, c, d>> : a, b, c, d \in Brackets}}}
MCPrograms == [good |-> Good, bad |-> Bad, any |-> AnyTokens]
=============================================================================
