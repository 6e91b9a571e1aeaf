------------------------------ MODULE Syntax -------------------------------
(***************************************************************************)
(* The parser: recursive descent over the token list, one operator per     *)
(* function of the source.  A token is the string that names it; tokens of *)
(* one class that every function treats alike (the named unary builtins,   *)
(* the list operators, the names of variables) are one or two members of a *)
(* set.  A tree is [n |-> name, k |-> children].                           *)
(*                                                                         *)
(* The parser never stops at an error: it records one and goes on, and     *)
(* expect() passes over what is missing.  What is checked is therefore     *)
(* that it always comes to the end of the tokens, and that programs        *)
(* written out by the precedence table come back as the trees they were    *)
(* written from.                                                           *)
(***************************************************************************)
EXTENDS Integers, Sequences, FiniteSets, SequencesExt, FiniteSetsExt

CONSTANTS Programs,     \* a set for each kind: [t |-> tokens, trees |-> statements, is |-> the kind]
          None

Kinds == {"good", "bad", "any"}

VARIABLES program,      \* the program chosen
          at,           \* the parser: [t, p, e, err, stuck]
          stmts         \* the statements parsed so far

vars == <<program, at, stmts>>
-----------------------------------------------------------------------------
(***************************************************************************)
(* Tokens.                                                                 *)
(***************************************************************************)
Scalars == {"$x", "$y", "$_"}
Derefs == {"$$r", "@$r", "%$r"}
Variables == Scalars \cup {"@a", "%h"}
Lower == {"w", "f", "ok", "scalar", "time", "rand", "exit", "pos", "prototype", "no", "lvalue",
          "shared"}
Upper == {"W", "Cls", "DESTROY"}
Idents == Lower \cup Upper \cup {"...", "defer"}
Literals == {"'s'", "qq", "1", "1.5"}
Strings == {"'s'", "qq"}
NamedUnary == {"length", "shift", "exists", "eof"}
ListOps == {"push", "join", "open"}
Modifiers == {"if", "unless", "while", "until", "for"}
Closers == {";", "EOF", "}", ")", "]"}
AssignOps == {"=", "+=", ".=", "||=", "&&=", "//=", "**=", "<<="}
Equality == {"==", "!=", "eq", "ne"}
NonAssoc == {"<=>", "cmp", "~~", "isa"}
Relational == {"<", ">", "<=", ">=", "lt", "gt"}
\* The infix operators, a level for each function of the parser, loosest first (none for `not`).
Infixes == <<{"or", "xor"}, {"and"}, {}, AssignOps, {"?"}, {"..", "..."}, {"||", "//", "^^"}, {"&&"},
             {"|"}, {"^"}, {"&"}, Equality \cup NonAssoc, Relational, {"<<", ">>"}, {"+", "-", "."},
             {"*", "/", "%", "x"}>>
Tightest == Len(Infixes)
LevelOf(op) == Min({l \in 1 .. Tightest : op \in Infixes[l]} \cup {Tightest + 1})
Excluded == {"ok", "scalar", "time", "rand", "exit", "pos", "no"}  \* is_method_name_excluded
Named == {"length", "print", "return", "my", "our", "local", "sub", "if", "unless", "while",
          "until", "for", "do", "last", "use", "package", "require", "die", "eval", "goto",
          "not", "and", "or", "xor"}  \* named_op_token_name

N(n, k) == [n |-> n, k |-> k]
Leaf(t) == N(t, <<>>)
Undef == Leaf("undef")
Topic == Leaf("$_")
-----------------------------------------------------------------------------
(***************************************************************************)
(* The parser's state.                                                     *)
(***************************************************************************)
TokenAt(t, p) == IF p \in 1 .. Len(t) THEN t[p] ELSE "EOF"
Tok(s) == TokenAt(s.t, s.p)
Peek(s, i) == TokenAt(s.t, s.p + i)
Skip(s, i) == [s EXCEPT !.p = @ + i]
Eat(s, x) == IF Tok(s) = x THEN Skip(s, 1) ELSE s
EatAny(s, X) == IF Tok(s) \in X THEN Skip(s, 1) ELSE s
Give(s, e) == [s EXCEPT !.e = e]
Fail(s) == [s EXCEPT !.err = TRUE]
FailIf(b, s) == IF b THEN Fail(s) ELSE s
\* To the first token of X, or the first not of X, or the end.
Stops(s, X) == {i \in s.p .. Len(s.t) : s.t[i] \in X} \cup {Max({s.p, Len(s.t) + 1})}
SkipTo(s, X) == [s EXCEPT !.p = Min(Stops(s, X))]
SkipOver(s, X) == [s EXCEPT !.p = Min(Stops(s, ToSet(s.t) \ X))]

\* scan_sub_names: the names declared anywhere in the tokens, and those of t/test.pl.
Known(s) == {"ok"} \cup {s.t[i + 1] : i \in {j \in 1 .. Len(s.t) - 1 :
                                              s.t[j] = "sub" /\ s.t[j + 1] \in Idents}}

\* The brackets open at q, counted from the bracket at p.
Depth(t, p, q, open, close) == Cardinality({i \in p .. q : t[i] \in open})
                               - Cardinality({i \in p .. q : t[i] \in close})
\* Where the bracket at p closes, or one beyond the end.
Closing(t, p, open, close) ==
    Min({q \in p .. Len(t) : Depth(t, p, q, open, close) = 0} \cup {Len(t) + 1})
\* Whether a token of X stands directly inside the bracket at p.
Holds(t, p, open, close, X) ==
    \E q \in p + 1 .. Closing(t, p, open, close) - 1 :
        t[q] \in X /\ Depth(t, p, q, open, close) = 1
-----------------------------------------------------------------------------
\* Every function of the parser that comes back to itself is called through Run.
RECURSIVE Run(_, _, _)
Parse(what, s) == Run(what, s, <<>>)
ParseFrom(l, s) == Run("from", s, l)
Infix(from, to, s) == Run("infix", s, <<from, to>>)
Postfix(s) == Run("postfix", s, <<>>)
Items(s, seps, stops, so_far) == Run("items", s, <<seps, stops, so_far>>)
ListRest(s, so_far) == Run("rest", s, so_far)
Body(s, so_far) == Run("body", s, so_far)
Elsifs(s, so_far) == Run("elsifs", s, so_far)
Group(s, so_far) == Run("group", s, so_far)

ParseExpr(s) == Parse("expr", s)

(***************************************************************************)
(* Lists.  Items: expressions with separators of seps between, ended also  *)
(* by a separator before a token of stops.                                 *)
(***************************************************************************)
ItemsFrom(s, seps, stops, so_far) ==
    LET one == ParseExpr(s)
        all == Append(so_far, one.e)
    IN IF Tok(one) \in seps /\ Tok(Skip(one, 1)) \notin stops
       THEN Items(Skip(one, 1), seps, stops, all)
       ELSE Give(EatAny(one, seps), all)
Commas == {",", "=>"}

AtListEnd(s) == Tok(s) \in Closers \cup Modifiers
ListRestFrom(s, so_far) ==
    LET next == SkipOver(s, Commas)
        one == ParseExpr(next)
    IN IF Tok(s) \notin Commas \/ AtListEnd(next) THEN Give(next, so_far)
       ELSE ListRest(one, Append(so_far, one.e))
ParseList(s) == IF AtListEnd(s) THEN Give(s, <<>>)
                ELSE LET one == ParseExpr(s) IN ListRest(one, <<one.e>>)
One(list) == IF Len(list) = 1 THEN list[1] ELSE N("list", list)

\* `( LIST )` when the parenthesis is there; has says whether it was.
Parenthesised(s) == Eat(ParseList(Skip(s, 1)), ")")
ArgsIfAny(s) == IF Tok(s) = "(" THEN Parenthesised(s) ELSE Give(s, <<>>)

Block(s) == LET body == Body(Eat(s, "{"), <<>>)
            IN Give(Eat(body, "}"), N("block", body.e))
BodyFrom(s, so_far) ==
    CASE Tok(s) \in {"}", "EOF"} -> Give(s, so_far)
      [] Tok(s) = ";" -> Body(Skip(s, 1), so_far)
      [] OTHER -> LET one == Parse("stmt", s) IN Body(one, Append(so_far, one.e))
-----------------------------------------------------------------------------
(***************************************************************************)
(* The binary operators, loosest first.                                    *)
(***************************************************************************)
RECURSIVE HasOp(_, _)
HasOp(e, ops) ==
    \/ e.n \in ops
    \/ e.n = "&&" /\ \E i \in 1 .. 2 : HasOp(e.k[i], ops)

\* One comparison more.  A comparison of a comparison of the same class is a chain:
\* it becomes the conjunction of the two, the middle operand in both.
Chained(s, op, right, class) ==
    IF op \in class /\ s.e.n \in class
    THEN N("&&", <<s.e, N(op, <<s.e.k[2], right.e>>)>>)
    ELSE N(op, <<s.e, right.e>>)
ParseEquality(s, right) ==
    LET op == Tok(s)
        mixed == \/ op \in NonAssoc /\ Tok(right) \in NonAssoc \cup Equality
                 \/ op \in Equality /\ Tok(right) \in NonAssoc
                 \/ HasOp(s.e, Relational) \/ HasOp(right.e, Relational)
                 \/ op \in NonAssoc /\ (HasOp(s.e, Equality) \/ HasOp(right.e, Equality))
    IN Give(FailIf(mixed, right), Chained(s, op, right, Equality))
ParseRelational(s, right) == Give(right, Chained(s, Tok(s), right, Relational))

ParseTernary(s, then) ==
    LET else == ParseFrom(4, Eat(then, ":")) IN Give(else, N("?:", <<s.e, then.e, else.e>>))

\* The right operand is of the next tighter level, but for `=` and `?`, and the operator
\* is applied to s.e.
Operand(l) == IF l \in {4, 5} THEN 4 ELSE l + 1
Applied(l, s) ==
    LET op == Tok(s)
        right == ParseFrom(Operand(l), Skip(s, 1))
    IN CASE l = 5 -> ParseTernary(s, right)
         [] l = 6 -> Give(right, N("..", <<s.e, right.e>>))
         [] l = 12 -> ParseEquality(s, right)
         [] l = 13 -> ParseRelational(s, right)
         [] OTHER -> Give(right, N(IF op = "^^" THEN "xor" ELSE op, <<s.e, right.e>>))

\* The functions of levels from .. to in one: s.e is the operand the tightest of them has
\* returned.  One that loops sees its own operators again, and the others do not: what
\* they leave is for the looser ones.  (Faulty variant: `+` and its like see their own
\* operators before their right operand is complete.)
Again(l, op) == IF l \in {4, 5, 6} \/ op \in NonAssoc THEN l - 1 ELSE l
InfixRightward(from, to, s) ==
    LET l == LevelOf(Tok(s))
        right == Infix(15, 15, ParseFrom(16, Skip(s, 1)))
        one == IF l = 15 THEN Give(right, N(Tok(s), <<s.e, right.e>>)) ELSE Applied(l, s)
    IN IF l \in from .. to THEN Infix(from, Again(l, Tok(s)), one) ELSE s
InfixFrom(from, to, s) ==
    LET l == LevelOf(Tok(s))
    IN IF l \in from .. to THEN Infix(from, Again(l, Tok(s)), Applied(l, s)) ELSE s

\* `=~` and `!~` with anything but a regex, a scalar or a parenthesis lose the operator.
ParseRegexOps(s) ==
    LET left == Parse("unary", s)
        of == Skip(left, 1)
        pattern == Parse("unary", of)
        substituted == N("s/p/", <<left.e>>)
        Binds(X) == Tok(left) \in {"=~", "!~"} /\ Tok(of) \in X
    IN CASE Tok(left) \notin {"=~", "!~"} -> left
         [] Binds({"s/p/"}) -> Give(Skip(of, 1), IF Tok(left) = "=~" THEN substituted
                                                 ELSE N("prefix", <<Leaf("!"), substituted>>))
         [] Binds({"/p/", "qr/p/", "tr/p/"}) -> Give(Skip(of, 1), N(Tok(left), <<left.e, Leaf(Tok(of))>>))
         [] Binds(Scalars \cup {"("}) -> Give(pattern, N(Tok(left), <<left.e, pattern.e>>))
         [] OTHER -> Give(of, left.e)

ParseNot(s) == LET of == ParseFrom(3, Skip(s, 1)) IN Give(of, N("not", <<of.e>>))
FromLevel(l, s) == IF Tok(s) = "not" /\ l <= 3 THEN Infix(l, 2, ParseNot(s))
                   ELSE Infix(l, Tightest, ParseRegexOps(s))
-----------------------------------------------------------------------------
(***************************************************************************)
(* Unary operators, postfix operators and subscripts.                      *)
(***************************************************************************)
\* The names in `my (...)`; a declared name in an expression.
RECURSIVE Names(_, _, _)
Names(s, X, so_far) ==
    IF Tok(s) \notin X THEN Give(s, so_far)
    ELSE IF Peek(s, 1) = "," THEN Names(Skip(s, 2), X, Append(so_far, Tok(s)))
    ELSE Give(Skip(s, 1), Append(so_far, Tok(s)))
Declared(s) ==
    LET word == Tok(s)
        Name(n) == IF word = "our" THEN Leaf(n) ELSE N(word, <<Leaf(n)>>)
        names == Names(Skip(s, 2), Variables \cup (IF word = "local" THEN {"undef"} ELSE {}), <<>>)
        parsed == [i \in 1 .. Len(names.e) |-> Name(names.e[i])]
    IN CASE Peek(s, 1) \in Variables -> Give(Skip(s, 2), Name(Peek(s, 1)))
         [] Peek(s, 1) = "(" -> Give(Eat(names, ")"), IF parsed = <<>> THEN Undef ELSE One(parsed))
         [] OTHER -> Give(Skip(s, 1), Undef)

\* `state $x = ...`; the other forms are those of my.
StateVar(s) ==
    LET init == Parse("assign", Skip(s, 3))
    IN IF Peek(s, 1) \in Scalars /\ Peek(s, 2) = "="
       THEN Give(init, N("state", <<Leaf(Peek(s, 1)), init.e>>))
       ELSE IF Peek(s, 1) = "(" THEN Give(Skip(s, 1), Undef) ELSE Declared(s)

Ampersand(s) ==
    LET name == Peek(s, 1)
        args == ArgsIfAny(Skip(s, 2))
        inner == ParseExpr(Skip(s, 2))
        ofBlock == ArgsIfAny(Eat(inner, "}"))
        of == Parse("unary", Skip(s, 1))
        given == IF Peek(s, 2) # "(" THEN <<Leaf("@_")>>
                 ELSE IF args.e = <<>> THEN <<Leaf("()")>> ELSE args.e
    IN CASE name \in Idents -> Give(args, N("call", <<Leaf(name)>> \o given))
         [] name \in Scalars -> Give(args, N("->()", <<Leaf(name)>> \o args.e))
         [] name = "{" -> Give(ofBlock, N("->()", <<inner.e>> \o ofBlock.e))
         [] OTHER -> Give(of, N("ref", <<of.e>>))

Defined(s) ==
    LET next == Skip(s, 1)
        inner == ParseExpr(Skip(s, 2))
        of == Parse("unary", next)
        parsed == IF Tok(next) = "(" THEN IF Peek(s, 2) = ")" THEN Give(Skip(s, 3), Topic)
                                          ELSE Eat(inner, ")")
                  ELSE IF Tok(next) \in Closers \cup Commas \cup {"?", ":"} THEN Give(next, Topic)
                  ELSE of
    IN Give(parsed, N("defined", <<parsed.e>>))

FileTest(s) ==
    LET next == Skip(s, 1)
        of == CASE Tok(next) \in (Closers \ {"EOF"}) \cup {",", "?", ":", "&&", "||", "//", "and", "or", "<",
                                    ">", "<=", ">=", "==", "!=", "eq", "ne"} -> Give(next, Topic)
                [] Tok(next) = "-e" -> Parse("unary", next)
                [] OTHER -> Parse("primary", next)
    IN Give(of, N("-e", <<of.e>>))

\* Right-associative, its right operand a unary expression.
ParsePower(s) ==
    LET base == Postfix(Parse("primary", s))
        exponent == Parse("unary", Skip(base, 1))
    IN IF Tok(base) = "**" THEN Give(exponent, N("**", <<base.e, exponent.e>>)) ELSE base

ParseUnary(s) ==
    LET op == Tok(s)
        of == Parse("unary", Skip(s, 1))
        items == IF Peek(s, 2) = ")" THEN Give(Skip(s, 2), <<>>)
                 ELSE Items(Skip(s, 2), Commas, {")"}, <<>>)
    IN CASE op \in {"-", "+", "!", "~", "++", "--"} ->
              FailIf(op \in {"++", "--"} /\ of.e = Undef, Give(of, N("prefix", <<Leaf(op), of.e>>)))
         [] op = "backslash" -> IF Peek(s, 1) = "(" THEN Give(Eat(items, ")"), N("refs", items.e))
                         ELSE Give(of, N("ref", <<of.e>>))
         [] op = "&" -> Ampersand(s)
         [] op = "defined" -> Defined(s)
         [] op \in {"my", "our"} -> Declared(s)
         [] op = "state" -> StateVar(s)
         [] op = "-e" -> FileTest(s)
         [] OTHER -> ParsePower(s)

Quoted(n) == N("quoted", <<Leaf(n)>>)
Elements == {"[]", "{}", "->[]", "->{}"}
\* What a subscript applies to: the array or hash of that name, or what a reference holds.
IsNamed(e, X) == \/ e.n \in X
                 \/ e.n = "my" /\ e.k[1].n \in Scalars
Target(e) == IF e.n = "${}" /\ Len(e.k) = 1 THEN e.k[1] ELSE e
ByReference(e) == \/ e.n \in Elements \cup {"$$r"}
                  \/ e.n = "${}" /\ Len(e.k) = 1

Index(s) ==
    LET items == Items(Skip(s, 1), {","}, {"]"}, <<>>)
        list == N("list[]", <<s.e>> \o items.e)
        single == Len(items.e) = 1
    IN Give(Eat(items, "]"),
            CASE IsNamed(s.e, Scalars \cup {"@a"}) ->
                   N(IF single THEN "[]" ELSE "slice[]", <<s.e>> \o items.e)
              [] s.e.n = "%h" -> N("pairs[]", <<s.e>> \o items.e)
              [] ByReference(s.e) -> IF single THEN N("->[]", <<Target(s.e), items.e[1]>>) ELSE list
              [] OTHER -> list)

\* A lone word in braces is quoted.
Key(s) == IF Tok(s) \in Idents \cup Named /\ Peek(s, 1) = "}" THEN Give(Skip(s, 1), Quoted(Tok(s)))
          ELSE ParseExpr(s)
Values == Literals \cup Variables \cup Idents \cup NamedUnary
          \cup {"defined", "join", "eval", "-", "+", "!", "not", "backslash"}
\* Whether the brace is a subscript: a value comes first and no statement is in it.
IsSubscript(s) == Peek(s, 1) \in Values
                  /\ ~Holds(s.t, s.p, {"{"}, {"}"}, {";"} \cup Modifiers)
HashKey(s) ==
    LET first == Key(Skip(s, 1))
        items == Items(Skip(s, 1), {","}, {"}"}, <<>>)
        key == IF Tok(first) = "," THEN Give(items, N("join", items.e)) ELSE first
    IN Give(Eat(key, "}"),
            CASE IsNamed(s.e, Scalars \cup {"%h"}) -> N("{}", <<s.e, key.e>>)
              [] ByReference(s.e) -> N("->{}", <<Target(s.e), key.e>>)
              [] OTHER -> N("{}", <<Leaf("_deref_"), key.e>>))

\* After `->`: dereferences, slices, elements, calls and methods.
Arrow(s) ==
    LET a == Skip(s, 1)
        index == ParseExpr(Skip(a, 1))
        key == Key(Skip(a, 1))
        args == ArgsIfAny(Skip(a, 1))
        codeArgs == ArgsIfAny(Skip(a, 2))
        inner == ParseExpr(Eat(Skip(a, 1), "{"))
        innerArgs == ArgsIfAny(Eat(inner, "}"))
        Sliced(from, close) == LET items == Items(from, Commas, {close}, <<>>)
                               IN Give(Eat(items, close), N("slice", <<Leaf(Tok(a)), s.e>> \o items.e))
    IN CASE Tok(a) = "$*" -> Give(Skip(a, 1), N("${}", <<s.e>>))
         [] Tok(a) \in {"@", "%", "$#"} /\ Peek(a, 1) = "*" ->
               Give(Skip(a, 2), N("flat", <<Leaf(Tok(a)), s.e>>))
         [] Tok(a) = "&" /\ Peek(a, 1) = "*" -> Give(codeArgs, N("->()", <<s.e>> \o codeArgs.e))
         [] Tok(a) \in {"@", "%"} /\ Peek(a, 1) = "[" -> Sliced(Skip(a, 2), "]")
         [] Tok(a) \in {"@", "%"} /\ Peek(a, 1) = "{" -> Sliced(Skip(a, 2), "}")
         [] Tok(a) \in {"@{", "%{"} -> Sliced(Eat(Skip(a, 1), "{"), "}")
         [] Tok(a) = "[" -> Give(Eat(index, "]"), N("->[]", <<s.e, index.e>>))
         [] Tok(a) = "{" -> Give(Eat(key, "}"), N("->{}", <<s.e, key.e>>))
         [] Tok(a) = "(" -> Give(Parenthesised(a), N("->()", <<s.e>> \o Parenthesised(a).e))
         [] Tok(a) \in Idents \cup {"isa"} \cup Scalars ->
               Give(args, N("method", <<s.e, Leaf(Tok(a))>> \o args.e))
         [] Tok(a) = "${" -> Give(innerArgs, N("method", <<s.e, N("${}", <<inner.e>>)>> \o innerArgs.e))
         [] OTHER -> a
Dangling(s) == /\ ~ (Tok(s) \in {"@", "%", "$#", "&"} /\ Peek(s, 1) = "*")
               /\ ~ (Tok(s) \in {"@", "%"} /\ Peek(s, 1) \in {"[", "{"})
               /\ Tok(s) \notin {"$*", "@{", "%{", "[", "{", "(", "isa", "${"} \cup Idents \cup Scalars

PostfixFrom(s) ==
    CASE Tok(s) \in {"++", "--"} -> Postfix(Give(Skip(s, 1), N("postfix", <<Leaf(Tok(s)), s.e>>)))
      [] Tok(s) = "[" -> Postfix(Index(s))
      [] Tok(s) = "{" /\ IsSubscript(s) -> Postfix(HashKey(s))
      [] Tok(s) = "->" /\ ~Dangling(Skip(s, 1)) -> Postfix(Arrow(s))
      [] Tok(s) = "->" /\ Dangling(Skip(s, 1)) -> Arrow(s)
      [] OTHER -> s
-----------------------------------------------------------------------------
(***************************************************************************)
(* Primary expressions.                                                    *)
(***************************************************************************)
\* Variables, slices, and `@{...}`, `%{...}`, `*{...}`, `${...}`, `$#{...}`.
Variable(s) ==
    LET name == Tok(s)
        keys == ParseList(Skip(s, 2))
        bracket == Peek(s, 1)
    IN IF <<name, bracket>> \in ({"@a", "@$r"} \X {"[", "{"}) \cup {<<"%h", "{">>}
       THEN Give(Eat(keys, IF bracket = "[" THEN "]" ELSE "}"),
                 N("slice", <<Leaf(bracket), Leaf(name)>> \o keys.e))
       ELSE Give(Skip(s, 1), Leaf(name))
BlockDerefs == {"@{", "*{", "%{", "${", "$#{"}
BlockDeref(s) ==
    LET from == Eat(Skip(s, 1), "{")
        inner == ParseExpr(from)
        items == ParseList(from)
    IN IF Tok(s) # "${" THEN Give(Eat(inner, "}"), N(Tok(s) \o "}", <<inner.e>>))
       ELSE IF Tok(from) = "..." /\ Peek(from, 1) = "}" THEN Give(Skip(from, 2), Leaf("..."))
       ELSE Give(Eat(items, "}"), N("${}", items.e))

UndefOf(s) ==
    LET next == Skip(s, 1)
        inner == ParseExpr(Skip(s, 2))
        of == Parse("unary", next)
        constant == Parse("primary", next)
    IN CASE Tok(next) = "(" /\ Peek(s, 2) = ")" -> Give(Skip(s, 3), Undef)
         [] Tok(next) = "(" /\ Peek(s, 2) # ")" -> Give(Eat(inner, ")"), N("undef", <<inner.e>>))
         [] Tok(next) \in Variables \cup {"&"} -> Give(of, N("undef", <<of.e>>))
         [] Tok(next) \in Idents \cup {"1", "1.5", "'s'"} -> Give(constant, N("undef", <<constant.e>>))
         [] OTHER -> Give(next, Undef)

\* One parenthesised expression is itself, but a list before `x`, `=` and `[`.
Paren(s) ==
    LET items == Items(Skip(s, 1), Commas, {")"}, <<>>)
        closed == Eat(items, ")")
        isList == \/ Tok(ParseExpr(Skip(s, 1))) \in Commas
                  \/ Tok(closed) \in {"x", "=", "["}
    IN IF Peek(s, 1) = ")" THEN Give(Skip(s, 2), N("list", <<>>))
       ELSE Give(closed, IF isList THEN N("list", items.e) ELSE items.e[1])

Collected(s, close, name) ==
    LET items == IF Tok(s) \in {close, "EOF"} THEN Give(s, <<>>)
                 ELSE Items(s, Commas, {close, "EOF"}, <<>>)
    IN Give(Eat(items, close), N(name, items.e))

\* `{`: a hash constructor, or a block.
Opens == {"{", "(", "["}
Closes == {"}", ")", "]"}
LooksLikePair(s) == Tok(s) \in Idents \cup {"'s'", "1"} /\ Peek(s, 1) = "=>"
IsHash(s) ==
    \/ Peek(s, 1) = "}" \/ LooksLikePair(Skip(s, 1))
    \/ /\ ~Holds(s.t, s.p, Opens, Closes, {";"})
       /\ \/ Holds(s.t, s.p, Opens, Closes, {"..", ",", "=>"})
          \/ s.p = 1 \/ s.t[s.p - 1] \in {"=", "=>", ",", "(", "return", "print"}
Brace(s) == IF IsHash(s) THEN Collected(Skip(s, 1), "}", "hash")
            ELSE LET block == Block(s) IN Give(block, N("do", <<block.e>>))

RECURSIVE Attributes(_)
Attributes(s) == IF Tok(s) # ":" THEN s ELSE Attributes(EatAny(Skip(s, 1), Idents))
Prototype(s) == IF Tok(s) = "(" THEN Eat(SkipTo(s, {")"}), ")") ELSE s
AnonSub(s) ==
    LET head == Attributes(Prototype(Skip(s, 1)))
        block == Block(head)
    IN IF Tok(head) # "{" THEN Fail(Give(head, Undef)) ELSE Give(block, N("sub", <<block.e>>))

\* A named unary operator takes no operand before the tokens of NoOperand.
NoOperand == (Closers \ {"EOF"}) \cup {",", "?", ":", "&&", "||", "and", "or", "//", "==", "!=", "<", ">", "<=",
              ">=", "eq", "ne", "->"} \cup Modifiers
Unary(s, none) ==
    LET of == Parse("unary", Skip(s, 1))
    IN IF Tok(Skip(s, 1)) \in none THEN Give(Skip(s, 1), Leaf(Tok(s)))
       ELSE Give(of, N(Tok(s), <<of.e>>))
Called(s, args) == Give(args, N(Tok(s), args.e))

\* map, grep and sort: a block first, unless it looks like a hash; `map $f (...)` is refused.
BlockFirst(s, from) ==
    LET block == Block(from)
        list == ParseList(IF Tok(s) = "sort" THEN block ELSE Eat(block, ","))
    IN Give(list, <<N("do", <<block.e>>)>> \o list.e)
IsBlock(s, from) == Tok(from) = "{" /\ (Tok(s) = "map" => ~LooksLikePair(Skip(from, 1)))
MapLike(s) ==
    LET next == Skip(s, 1)
        inside == Skip(s, 2)
        args == IF IsBlock(s, inside) /\ Tok(s) = "map" THEN BlockFirst(s, inside) ELSE ParseList(inside)
    IN CASE IsBlock(s, next) -> Called(s, BlockFirst(s, next))
         [] ~IsBlock(s, next) /\ Tok(next) = "(" -> Called(s, Eat(args, ")"))
         [] Tok(s) = "map" /\ Tok(next) \in Scalars /\ Peek(next, 1) = "(" -> Give(next, Leaf("missing comma"))
         [] OTHER -> Called(s, ParseList(next))

KeysOf(s) ==
    LET inner == ParseExpr(Skip(s, 2))
        of == Parse("unary", Skip(s, 1))
    IN IF Peek(s, 1) = "(" THEN Give(Eat(inner, ")"), N(Tok(s), <<inner.e>>))
       ELSE Give(of, N(Tok(s), <<of.e>>))

\* delete, and `delete local` of an element or of a slice.
DeleteOf(s) ==
    LET paren == Peek(s, 1) = "("
        next == IF paren THEN Skip(s, 2) ELSE Skip(s, 1)
        name == IF Tok(next) = "local" THEN Skip(next, 1) ELSE next
        key == ParseExpr(Skip(name, 2))
        keys == Items(Skip(name, 2), {","}, {}, <<>>)
        Close(k) == IF paren THEN Eat(k, ")") ELSE k
        of == IF paren THEN Eat(ParseExpr(name), ")") ELSE Parse("unary", name)
        bracketed == Tok(next) = "local" /\ Peek(name, 1) \in {"[", "{"}
    IN CASE bracketed /\ Tok(name) \in Scalars ->
              Give(Close(Eat(key, IF Peek(name, 1) = "{" THEN "}" ELSE "]")),
                   N("delete local", <<Leaf(Tok(name)), Leaf(Peek(name, 1)), key.e>>))
         [] bracketed /\ Tok(name) \in {"@a", "%h"} ->
              Give(Close(EatAny(keys, {"]", "}"})), N("delete local", <<Leaf(Tok(name))>> \o keys.e))
         [] OTHER -> Give(of, N("delete", <<of.e>>))

\* `eval {...}`, `eval(...)`; else its operand ends before comparisons.
EvalOf(s) ==
    LET block == Block(Skip(s, 1))
        of == Parse("add", Skip(s, 1))
    IN CASE Peek(s, 1) = "{" -> Give(block, N("eval", <<block.e>>))
         [] Peek(s, 1) = "(" -> Called(s, Parenthesised(Skip(s, 1)))
         [] OTHER -> Give(of, N("eval", <<of.e>>))

DoOf(s) ==
    LET block == Block(Skip(s, 1))
        file == Parse("primary", Skip(s, 1))
    IN IF Peek(s, 1) = "{" THEN Give(block, N("do", <<block.e>>)) ELSE Give(file, N("do file", <<file.e>>))

Jump(s) == IF Peek(s, 1) \in Idents THEN Give(Skip(s, 2), N(Tok(s), <<Leaf(Peek(s, 1))>>))
           ELSE Give(Skip(s, 1), Leaf(Tok(s)))

\* print, die and the like as operands.
PrintOf(s) ==
    CASE Peek(s, 1) = "(" -> Called(s, Parenthesised(Skip(s, 1)))
      [] Peek(s, 1) = ":" -> Give(Skip(s, 1), Leaf(Tok(s)))
      [] OTHER -> Called(s, ParseList(Skip(s, 1)))

(***************************************************************************)
(* Words.  `w Cls ...` and `w $x ...` are method calls; some words take no *)
(* operand, or at most one; `w ...` before what can begin an operand is a  *)
(* call; a word known as a sub is a call; the rest is a string.            *)
(***************************************************************************)
Receives(s) ==
    /\ Tok(s) \in Lower \ Excluded
    /\ \/ Peek(s, 1) \in Upper
       \/ Peek(s, 1) \in Scalars /\ (Tok(s) \notin Known(s) \/ Peek(s, 2) \in {"("} \cup Strings)
IndirectMethod(s) ==
    LET next == Skip(s, 2)
        args == IF Tok(next) \in Closers \cup {","} THEN Give(next, <<>>) ELSE
                IF Tok(next) = "(" THEN Parenthesised(next) ELSE ParseList(next)
        receiver == IF Peek(s, 1) \in Upper THEN Quoted(Peek(s, 1)) ELSE Leaf(Peek(s, 1))
    IN Give(args, N("method", <<receiver, Leaf(Tok(s))>> \o args.e))

Operands == Literals \cup Variables \cup Derefs \cup BlockDerefs \cup NamedUnary \cup ListOps \cup Idents
            \cup {"$#a", "+", "-", "!", "backslash", "defined", "undef", "not", "eval", "my", "our", "local",
                  "qr/p/", "print", "sort", "map", "keys", "delete", "*F", "<F>", "do", "-e"}
StartsOperand(s) == Tok(s) \in Operands \ {"...", "*{"}
RandEnds == (NoOperand \ {"->", "//"}) \cup {"+", "-", "*", "/", "%", "."}
ExitEnds == {";", "EOF", "}", ")", "]", ",", "?", ":", "&&", "||", "and", "or", "xor"} \cup Modifiers
PosArgs == Variables \cup {"*F", "*"}
Word(s) ==
    LET name == Tok(s)
        next == Skip(s, 1)
        additive == Parse("add", next)
        Call(args) == Give(args, N("call", <<Leaf(name)>> \o args.e))
        Of(x) == Give(x, N("call", <<Leaf(name), x.e>>))
        Bare == Give(next, N("call", <<Leaf(name)>>))
        plain == Tok(next) # "("
    IN CASE Receives(s) -> IndirectMethod(s)
         [] name = "time" /\ plain -> Bare
         [] name = "prototype" /\ plain /\ ~Receives(s) ->
               IF Tok(next) \in Closers \cup Commas THEN Bare ELSE Of(additive)
         [] name = "pos" /\ plain -> IF Tok(next) \in PosArgs THEN Of(Parse("unary", next))
                                     ELSE Give(next, N("call", <<Leaf(name), Topic>>))
         [] name = "exit" /\ plain -> IF Tok(next) \in ExitEnds THEN Bare ELSE Of(Parse("unary", next))
         [] name = "rand" /\ plain -> IF Tok(next) \in RandEnds THEN Bare ELSE Of(Parse("unary", next))
         [] ~plain /\ ~Receives(s) -> Call(Parenthesised(next))
         [] OTHER -> IF StartsOperand(next)
                     THEN IF name = "scalar" THEN Of(Parse("unary", next)) ELSE Call(ParseList(next))
                     ELSE IF name \in Known(s) THEN Bare ELSE Give(next, Quoted(name))

\* Anything else: an error that leaves the token to the caller, the first time, if it
\* cannot begin an operand for certain; and else a token passed over.
BinaryOps == {"&&", "||", "//", "and", "or", "<=>", "==", "!=", "<=", ">="}
\* (Faulty variant: the end of the tokens only.)
MissingAtEnd(s) == IF Tok(s) = "EOF" /\ ~s.err THEN Fail(Give(s, Undef)) ELSE Give(Skip(s, 1), Undef)
Missing(s) == IF Tok(s) \in {";", "EOF"} \cup BinaryOps /\ ~s.err THEN Fail(Give(s, Undef))
              ELSE Give(Skip(s, 1), Undef)

ParsePrimary(s) ==
    LET tok == Tok(s) IN
    CASE tok = "..." -> Fail(Give(Skip(s, 1), Undef))
      [] tok \in Literals \cup {"qr/p/", "qw", "$$r", "%$r", "*F", "$#a", "<F>"} -> Give(Skip(s, 1), Leaf(tok))
      [] tok = "s/p/" -> Give(Skip(s, 1), N("s/p/", <<Topic>>))
      [] tok \in {"/p/", "tr/p/"} -> Give(Skip(s, 1), N("=~", <<Topic, Leaf(tok)>>))
      [] tok \in Variables \cup {"@$r"} -> Variable(s)
      [] tok \in BlockDerefs -> BlockDeref(s)
      [] tok = "undef" -> UndefOf(s)
      [] tok = "(" -> Paren(s)
      [] tok = "[" -> Collected(Skip(s, 1), "]", "array")
      [] tok = "{" -> Brace(s)
      [] tok = "sub" -> AnonSub(s)
      [] tok \in NamedUnary -> IF Peek(s, 1) = "(" THEN Called(s, Parenthesised(Skip(s, 1))) ELSE Unary(s, NoOperand)
      [] tok = "wantarray" -> Give(Skip(s, 1), Leaf(tok))
      [] tok \in {"map", "sort"} -> MapLike(s)
      [] tok = "keys" -> KeysOf(s)
      [] tok \in ListOps -> CASE Peek(s, 1) = "(" -> Called(s, Parenthesised(Skip(s, 1)))
                              [] Peek(s, 1) \in Closers \cup {","} -> Give(Skip(s, 1), Leaf(tok))
                              [] OTHER -> Called(s, ParseList(Skip(s, 1)))
      [] tok = "delete" -> DeleteOf(s)
      [] tok = "eval" -> EvalOf(s)
      [] tok = "do" -> DoOf(s)
      [] tok \in {"last", "next", "redo"} -> Jump(s)
      [] tok = "local" -> Declared(s)
      [] tok \in {"print", "die"} -> PrintOf(s)
      [] tok \in Idents \ {"..."} -> Word(s)
      [] OTHER -> Missing(s)
-----------------------------------------------------------------------------
(***************************************************************************)
(* Statements.                                                             *)
(***************************************************************************)
\* A modifier behind the statement in s.e; one `;` is passed over in any case.
MaybePostfix(s) ==
    LET cond == ParseExpr(Skip(s, 1))
        list == ParseList(Skip(s, 1))
    IN CASE Tok(s) \in Modifiers \ {"for"} ->
              Give(Eat(cond, ";"), N("postfix", <<Leaf(Tok(s)), s.e, cond.e>>))
         [] Tok(s) = "for" -> Give(Eat(list, ";"), N("postfix", <<Leaf("for"), s.e, One(list.e)>>))
         [] OTHER -> Eat(s, ";")
Ended(s, e) == MaybePostfix(Give(s, e))
Declaration(s, e) == Eat(Ended(s, e), ";")  \* two of them may be passed over

ParenExpr(s) == Eat(ParseExpr(Eat(s, "(")), ")")
ContinueOf(s) == IF Tok(s) = "continue" THEN Block(Skip(s, 1)) ELSE Give(s, None)
\* A loop's or bare block's node: without a continue block there is no third child.
WithContinue(s, n, parts) ==
    Give(s, N(n, IF s.e = None THEN parts ELSE Append(parts, s.e)))

ElsifsFrom(s, so_far) ==
    LET cond == ParenExpr(Skip(s, 1))
        block == Block(cond)
        last == Block(Skip(s, 1))
    IN CASE Tok(s) = "elsif" -> Elsifs(block, so_far \o <<cond.e, block.e>>)
         [] Tok(s) = "else" -> Give(last, Append(so_far, last.e))
         [] OTHER -> Give(s, so_far)
IfStmt(s) ==
    LET cond == ParenExpr(Skip(s, 1))
        then == Block(cond)
        others == IF Tok(s) = "unless" /\ Tok(then) = "elsif" THEN Give(then, <<>>) ELSE Elsifs(then, <<>>)
    IN Give(others, N(Tok(s), <<cond.e, then.e>> \o others.e))

\* A condition that reads or iterates is tested for definedness.
Iterates(e) == e.n \in {"<F>", "each"}
IterCond(e) ==
    IF e.n = "<F>" THEN N("defined", <<N("=", <<Topic, e>>)>>)
    ELSE IF Iterates(e) \/ (e.n = "=" /\ IsNamed(e.k[1], Scalars) /\ Iterates(e.k[2]))
    THEN N("defined", <<e>>) ELSE e
WhileStmt(s) ==
    LET cond == IF Tok(s) = "while" /\ Peek(s, 1) = "(" /\ Peek(s, 2) = ")"
                THEN Give(Skip(s, 3), Leaf("1")) ELSE ParenExpr(Skip(s, 1))
        body == Block(cond)
    IN WithContinue(ContinueOf(body), Tok(s),
                    <<IF Tok(s) = "while" THEN IterCond(cond.e) ELSE cond.e, body.e>>)

\* `sub NAME (PROTO) :ATTR {...}`, or without a body.
SubDecl(s, name) ==
    LET head == Attributes(Prototype(s))
        block == Block(head)
    IN CASE Tok(head) = ";" -> FailIf(name = "", Give(Skip(head, 1), N("sub", <<Leaf(name)>>)))
         [] Tok(head) = "{" -> Give(block, N("sub", <<Leaf(name), block.e>>))
         [] OTHER -> FailIf(name = "", Give(head, N("sub", <<Leaf(name)>>)))
NamedSub(s) == IF Tok(s) \in Idents THEN SubDecl(Skip(s, 1), Tok(s)) ELSE SubDecl(s, "")
\* `sub {...}` at the start of a statement is an operand if what follows the block goes on
\* with the expression or ends it.
RECURSIVE PastAttributes(_)
PastAttributes(s) == IF Tok(s) # ":" THEN s ELSE PastAttributes(EatAny(Skip(s, 1), Idents))
AnonSubStarts(s) ==
    LET brace == PastAttributes(Skip(s, 1))
        after == Closing(s.t, brace.p, {"{"}, {"}"}) + 1
    IN Tok(brace) = "{" /\ TokenAt(s.t, after) \in
          {"->", "(", "+", "-", "x", "/", "*", "%", ".", "&&", "||", "//", "?", ",", "}", ";", "EOF"}
(***************************************************************************)
(* Declarations.                                                           *)
(***************************************************************************)
\* `:NAME` and `:NAME(...)` behind a declared name; `:shared` is refused (e = None).
PastParens(s) == [s EXCEPT !.p = Min({Closing(s.t, s.p, {"("}, {")"}), Len(s.t)}) + 1]
RECURSIVE VarAttributes(_)
VarAttributes(s) ==
    LET a == Skip(s, 1)
    IN IF Tok(s) # ":" THEN s
       ELSE IF Tok(a) = "shared" THEN Give(SkipTo(Fail(a), {";", "}"}), None)
       ELSE IF Tok(a) \notin Idents THEN a
       ELSE VarAttributes(IF Peek(a, 1) = "(" THEN PastParens(Skip(a, 1)) ELSE Skip(a, 1))
\* The names in parentheses: also `$x{word}`, undef and globs.
RECURSIVE ListedNames(_, _)
ListedNames(s, so_far) ==
    LET isKey == /\ Tok(s) \in Scalars /\ Peek(s, 1) = "{"
                 /\ Peek(s, 2) \in Idents \cup {"'s'"} /\ Peek(s, 3) = "}"
        name == IF isKey THEN N("{}", <<Leaf(Tok(s)), Quoted(Peek(s, 2))>>) ELSE Leaf(Tok(s))
        after == Skip(s, IF isKey THEN 4 ELSE 1)
    IN IF Tok(s) \notin Variables \cup {"undef", "*F"} THEN Give(s, so_far)
       ELSE IF Tok(after) = "," THEN ListedNames(Skip(after, 1), Append(so_far, name))
       ELSE Give(after, Append(so_far, name))
Initialised(s, node) ==
    LET init == ParseExpr(Skip(s, 1))
    IN IF Tok(s) = "=" THEN Give(init, N(node.n, Append(node.k, init.e))) ELSE Give(s, node)
VarList(s, word) ==
    LET names == ListedNames(Skip(s, 1), <<>>)
        after == VarAttributes(Give(Skip(s, 1), Undef))
    IN IF Tok(s) = "(" THEN Initialised(Eat(names, ")"), N(word, <<N("list", names.e)>>))
       ELSE IF Tok(s) \notin Variables \cup {"*F"} THEN Give(s, N(word, <<>>))
       ELSE IF after.e = None THEN Give(after, N(word, <<>>))
       ELSE Initialised(after, N(word, <<Leaf(Tok(s))>>))

\* `my sub`; `my $$x` and `my $_` are refused, and the statement is nothing.
MyDecl(s) ==
    LET probe == IF Tok(s) = "(" THEN Skip(s, 1) ELSE s
    IN IF Tok(s) = "sub" THEN NamedSub(Skip(s, 1))
       ELSE IF Tok(probe) \in Derefs \cup {"$_"} THEN Fail(Give(Eat(Skip(probe, 1), ")"), Leaf("nop")))
       ELSE VarList(s, "my")
OurDecl(s) ==
    LET names == VarList(s, "our")
    IN IF Tok(names) \in {"++", "--"} /\ Tok(s) \in Variables /\ Len(names.e.k) = 1
       THEN Give(Skip(names, 1), N("our", Append(names.e.k, N("postfix", <<Leaf(Tok(names)), Leaf(Tok(s))>>))))
       ELSE names
StateDecl(s) ==
    LET names == VarList(s, "state")
        init == ParseExpr(Skip(names, 1))
    IN IF Tok(s) = "(" /\ Tok(names) = "//=" /\ Len(names.e.k) = 1 /\ Len(names.e.k[1].k) = 1
       THEN Give(init, N("state", Append(names.e.k, init.e))) ELSE names

\* `local($$r ...)` is passed over up to its parenthesis or a token `eof`: where there is
\* neither, the loop goes on for ever beyond the end of the tokens.
LocalDeref(s) ==
    LET of == Parse("unary", s)
        end == Min({Closing(s.t, s.p, {"("}, {")"})}
                   \cup {i \in s.p .. Len(s.t) : s.t[i] = "eof"})
        passed == Eat([s EXCEPT !.p = end], ")")
        after == IF Tok(s) = "(" THEN passed ELSE of
        stuck == Tok(s) = "(" /\ end = Len(s.t) + 1
    IN Give(IF Tok(after) = "=" THEN ParseExpr(Skip(after, 1)) ELSE [after EXCEPT !.stuck = @ \/ stuck],
            N("die", <<>>))
LocalDecl(s) ==
    LET in == IF Tok(s) = "(" THEN Skip(s, 1) ELSE s
        key == ParseExpr(Skip(in, 2))
        keys == Items(Skip(in, 2), {","}, {}, <<>>)
        After(k) == IF Tok(s) = "(" THEN Eat(k, ")") ELSE k
        bracketed == Peek(in, 1) \in {"[", "{"}
    IN CASE Tok(in) \in Derefs -> LocalDeref(s)
         [] bracketed /\ Tok(s) = "(" /\ Tok(in) \in {"@a", "%h"} ->
              Initialised(Eat(EatAny(keys, {"]", "}"}), ")"), N("local slice", <<Leaf(Tok(in))>> \o keys.e))
         [] bracketed /\ Tok(in) \in Scalars ->
              Initialised(After(Eat(key, IF Peek(in, 1) = "{" THEN "}" ELSE "]")),
                    N("local element", <<Leaf(Tok(in)), Leaf(Peek(in, 1)), key.e>>))
         [] OTHER -> VarList(s, "local")

\* `for my $x (...)`, `for (init; cond; step)`, `for (...)`, `for EXPR`.
Optional(s, X) == IF Tok(s) \in X THEN Give(s, None) ELSE ParseExpr(s)
ForeachStmt(s, var) ==
    LET list == ParseList(Eat(s, "("))
        body == Block(Eat(list, ")"))
    IN WithContinue(ContinueOf(body), "foreach", <<Leaf(var), One(list.e), body.e>>)
CStyle(s) ==
    LET init == IF Tok(s) = "my" THEN VarList(Skip(s, 1), "my") ELSE Optional(s, {";"})
        cond == Optional(Eat(init, ";"), {";"})
        step == Optional(Eat(cond, ";"), {")"})
        body == Block(Eat(step, ")"))
        parts == <<init.e, IF cond.e = None THEN None ELSE IterCond(cond.e), step.e>>
    IN Give(body, N("for", Append([i \in 1 .. 3 |-> IF parts[i] = None THEN Leaf("") ELSE parts[i]], body.e)))
ForStmt(s) ==
    LET next == Skip(s, 1)
        var == EatAny(next, {"my", "our"})
        list == ParseExpr(next)
        body == Block(list)
    IN CASE Tok(next) \in {"my", "our"} \cup Scalars ->
              ForeachStmt(EatAny(var, Scalars), IF Tok(var) \in Scalars THEN Tok(var) ELSE "$_")
         [] Tok(next) = "(" -> IF Holds(s.t, next.p, {"("}, {")"}, {";"}) THEN CStyle(Skip(next, 1))
                               ELSE ForeachStmt(next, "$_")
         [] OTHER -> WithContinue(ContinueOf(body), "foreach", <<Leaf("$_"), list.e, body.e>>)

-----------------------------------------------------------------------------
PackageStmt(s) ==
    LET named == Peek(s, 1) \in Idents \cup Modifiers \cup {"next", "last", "redo", "my", "our"}
        next == Skip(s, IF named THEN 2 ELSE 1)
        version == IF Tok(next) \in {"1", "1.5"} THEN Parse("unary", next) ELSE Give(next, None)
        name == Leaf(IF named THEN Peek(s, 1) ELSE "main")
        parts == IF version.e = None THEN <<name>> ELSE <<name, version.e>>
        block == Block(version)
    IN IF Tok(version) = "{" THEN Give(block, N("package", Append(parts, block.e)))
       ELSE Give(Eat(version, ";"), N("package", parts))

UseStmt(s) ==
    LET name == Peek(s, 1)
        next == Skip(s, 2)
        args == IF Tok(next) \in {";", "EOF"} THEN Give(next, <<>>) ELSE ParseList(next)
    IN CASE name \in {"1", "1.5"} -> Give(Eat(SkipOver(next, {".", "1", "1.5"}), ";"), Leaf("nop"))
         [] name \in Idents \cup Modifiers \cup {"my", "our"} ->
              Give(Eat(args, ";"), N(Tok(s), <<Leaf(name)>> \o args.e))
         [] OTHER -> Give(Eat(Skip(s, 1), ";"), Leaf("nop"))

\* BEGIN, END, CHECK, INIT; but for BEGIN, the bare word is a string.
Phaser(s) ==
    LET block == Block(Skip(s, 1))
    IN IF Tok(s) = "BEGIN" \/ Peek(s, 1) = "{" THEN Give(block, N(Tok(s), <<block.e>>))
       ELSE Eat(Ended(Skip(s, 1), Quoted(Tok(s))), ";")

Goto(s) ==
    LET next == Skip(s, 1)
        inner == ParseExpr(Skip(s, 3))
        To(x, n) == Give(x, N("goto", <<Leaf(n)>>))
        target == IF Tok(next) = "backslash" THEN Skip(next, 2) ELSE Skip(next, 1)
    IN CASE Tok(next) = "&" /\ Peek(next, 1) = "{" -> Give(Eat(inner, "}"), N("goto", <<inner.e>>))
         [] Tok(next) = "&" /\ Peek(next, 1) \in Idents \cup Scalars -> To(Skip(target, 1), Tok(target))
         [] Tok(next) = "&" /\ Peek(next, 1) \notin Idents \cup Scalars \cup {"{"} -> To(target, "")
         [] Tok(next) = "backslash" /\ Peek(next, 1) = "&" /\ Tok(target) \in Idents -> To(Skip(target, 1), Tok(target))
         [] Tok(next) \in Idents -> To(Skip(next, 1), Tok(next))
         [] OTHER -> To(next, "")

ReturnStmt(s, ends) ==
    LET of == ParseExpr(Skip(s, 1))
    IN IF Peek(s, 1) \in ends THEN Give(Skip(s, 1), Leaf("return")) ELSE Give(of, N("return", <<of.e>>))

(***************************************************************************)
(* print: `print(...)` and what follows it after commas, already ended by  *)
(* its `;`; else a handle without a comma behind it, and the list.         *)
(***************************************************************************)
PrintParens(s) ==
    LET args == Parenthesised(Skip(s, 1))
        next == Skip(args, 1)
        tail == IF Tok(args) \notin Commas THEN Give(args, <<>>)
                ELSE IF Tok(next) \in {";", "EOF"} THEN Give(next, <<>>)
                ELSE Items(next, Commas, {";", "EOF"}, <<>>)
        print == N("print", args.e)
    IN Ended(tail, IF tail.e = <<>> THEN print ELSE N("block", <<print>> \o tail.e))
HasHandle(s) ==
    LET name == Tok(s)
        next == Peek(s, 1)
    IN \/ /\ name \in Idents /\ next \notin {"..", "...", "->", "=>"}
          /\ \/ name \in {"W", "DESTROY"}
             \/ next \in Strings \cup Variables /\ name \notin Known(s) \cup {"scalar"}
       \/ name \in Scalars /\ next \in Literals \cup Scalars \cup {"@a", "("}
PrintList(s) ==
    LET next == Skip(s, 1)
        from == Eat(next, "+")
        list == ParseList(Skip(next, 1))
    IN IF Tok(next) # "+" /\ HasHandle(next)
       THEN Give(list, N("print to", <<Leaf(Tok(next))>> \o list.e))
       ELSE Called(s, ParseList(from))

\* eval BLOCK is a statement unless an operator follows.
EvalIsStmt(s) == /\ Peek(s, 1) = "{"
                 /\ TokenAt(s.t, Closing(s.t, s.p + 1, {"{"}, {"}"}) + 1) \notin
                       {"//", "||", "&&", "or", "and", "+", "-", "*", "/", ".", "..", "?"}

\* `EXPR, EXPR, last if ...`: the jump ends the group, and a modifier is for all of it.
GroupFrom(s, so_far) ==
    LET next == Skip(s, 1)
        jump == IF Tok(next) = "redo" THEN Give(Skip(next, 1), Leaf("redo"))
                ELSE IF Tok(next) = "return" THEN ReturnStmt(next, {";", "if", "unless"}) ELSE Jump(next)
        one == ParseExpr(next)
    IN IF Tok(s) \notin Commas THEN Give(s, One(so_far))
       ELSE IF Tok(next) \in {";", "EOF", "}"} THEN Give(next, One(so_far))
       ELSE IF Tok(next) \in {"last", "next", "redo", "return"}
       THEN Give(jump, N("block", <<One(so_far), jump.e>>))
       ELSE Group(one, Append(so_far, one.e))
ExprStmt(s) == LET one == ParseExpr(s) IN MaybePostfix(Group(one, <<one.e>>))

YadaYada(s) == IF Peek(s, 1) \in {";", "EOF", "}"} THEN Give(Eat(Skip(s, 1), ";"), N("die", <<>>))
               ELSE Fail(Give(Skip(s, 1), Leaf("nop")))
BareBlock(s) == LET body == Block(s) IN WithContinue(ContinueOf(body), "bare", <<body.e>>)

Loops == {"{", "while", "until", "for"}
IsLabel(s) == Tok(s) \in Idents /\ Peek(s, 1) = ":" /\ Peek(s, 2) # ":"
Labelled(s) ==
    LET one == Parse("stmt", Skip(s, 2))
    IN IF Peek(s, 2) \in Loops THEN Give(one, N("label", <<Leaf(Tok(s)), one.e>>))
       ELSE IF Peek(s, 2) \in {"if", "unless", "do"} THEN one
       ELSE Give(Skip(s, 2), N("label", <<Leaf(Tok(s))>>))

ParseStmt(s) ==
    LET tok == Tok(s)
        next == Skip(s, 1)
        require == ParseExpr(next)
        block == Block(next)
    IN CASE IsLabel(s) -> Labelled(s)
         [] tok = ";" -> Give(next, Leaf("nop"))
         [] tok = "defer" /\ Tok(next) = "{" -> Give(block, N("defer", <<block.e>>))
         [] tok = "..." /\ ~IsLabel(s) -> YadaYada(s)
         [] tok = "{" -> BareBlock(s)
         [] tok \in {"if", "unless"} -> IfStmt(s)
         [] tok \in {"while", "until"} -> WhileStmt(s)
         [] tok = "for" -> ForStmt(s)
         [] tok = "sub" /\ ~AnonSubStarts(s) -> NamedSub(next)
         [] tok = "sub" /\ AnonSubStarts(s) -> LET one == ParseExpr(s) IN Declaration(one, one.e)
         [] tok = "my" -> Eat(MaybePostfix(MyDecl(next)), ";")
         [] tok = "our" -> Eat(MaybePostfix(OurDecl(next)), ";")
         [] tok = "local" -> Eat(MaybePostfix(LocalDecl(next)), ";")
         [] tok = "state" -> Eat(MaybePostfix(StateDecl(next)), ";")
         [] tok = "package" -> PackageStmt(s)
         [] tok = "use" -> UseStmt(s)
         [] tok = "no" /\ ~IsLabel(s) /\ Tok(next) \in Idents \cup Modifiers -> UseStmt(s)
         [] tok = "require" -> Give(Eat(require, ";"), N("require", <<require.e>>))
         [] tok \in {"BEGIN", "END", "CHECK", "INIT"} -> Phaser(s)
         [] tok \in {"last", "next", "redo"} -> MaybePostfix(Jump(s))
         [] tok = "goto" -> MaybePostfix(Goto(s))
         [] tok = "return" -> MaybePostfix(ReturnStmt(s, {";", "}", "if", "unless"}))
         [] tok = "print" -> MaybePostfix(IF Tok(next) = "(" THEN PrintParens(s) ELSE PrintList(s))
         [] tok = "die" -> MaybePostfix(Called(s, ParseList(next)))
         [] tok = "eval" /\ EvalIsStmt(s) -> Ended(block, N("eval", <<block.e>>))
         [] tok = "DESTROY" /\ Tok(next) = "{" -> NamedSub(s)
         [] OTHER -> ExprStmt(s)
-----------------------------------------------------------------------------
Run(what, s, x) ==
    CASE what = "expr" -> ParseFrom(1, s)
      [] what = "assign" -> ParseFrom(4, s)
      [] what = "add" -> ParseFrom(15, s)
      [] what = "unary" -> ParseUnary(s)
      [] what = "primary" -> ParsePrimary(s)
      [] what = "stmt" -> ParseStmt(s)
      [] what = "from" -> FromLevel(x, s)
      [] what = "infix" -> InfixFrom(x[1], x[2], s)
      [] what = "postfix" -> PostfixFrom(s)
      [] what = "items" -> ItemsFrom(s, x[1], x[2], x[3])
      [] what = "rest" -> ListRestFrom(s, x)
      [] what = "body" -> BodyFrom(s, x)
      [] what = "elsifs" -> ElsifsFrom(s, x)
      [] what = "group" -> GroupFrom(s, x)

(***************************************************************************)
(* parse_program, a statement at a time.                                   *)
(***************************************************************************)
Init == /\ \E kind \in Kinds : program \in Programs[kind]
        /\ at = [t |-> program.t, p |-> 1, e |-> Undef, err |-> FALSE, stuck |-> FALSE]
        /\ stmts = <<>>

AtEnd == Tok(at) = "EOF"

\* Faulty variant: the brace is reported and stays.
UnmatchedStays == at' = Fail(at)
Unmatched == at' = Fail(Skip(at, 1))

Stray == /\ Tok(at) = ";"
         /\ at' = Skip(at, 1)
         /\ UNCHANGED <<program, stmts>>
UnmatchedBrace == /\ Tok(at) = "}" /\ ~at.err
                  /\ Unmatched
                  /\ UNCHANGED <<program, stmts>>
Statement == /\ Tok(at) \notin {";", "EOF"} /\ (Tok(at) = "}" => at.err) /\ ~at.stuck
             /\ at' = Parse("stmt", at)
             /\ stmts' = Append(stmts, at'.e)
             /\ UNCHANGED program
Next == Stray \/ UnmatchedBrace \/ Statement
Spec == Init /\ [][Next]_vars
-----------------------------------------------------------------------------
\* A program written out by the precedence table is parsed without an error into the
\* statements it was written from.
Kept == (AtEnd /\ program.is = "good") => stmts = program.trees /\ ~at.err

\* A program in which an infix operator has nothing behind it, or in which comparisons
\* that do not chain are chained, is reported; and so is every program, whatever its tokens
\* are, whose end some handler ran past (expect goes on where a token is missing).
Refused == /\ (AtEnd /\ program.is = "bad") => at.err
           /\ at.p > Len(at.t) + 1 => at.err

\* Whatever the tokens are, every step takes at least one of them, so the parser comes to
\* the end: "Skip the bad token to make progress".
Progress == [][at'.p > at.p]_vars
=============================================================================
