-------------------------------- MODULE Lexer --------------------------------
(***************************************************************************)
(* The lexer's loop (tokenize in lexer.rs).  Every action is one turn: the *)
(* blanks and the comment before a token and then the token, or a stretch  *)
(* of text that gives none.  What a sign means is judged by the token      *)
(* before it.  A heredoc's body is read at the next line end; its token,   *)
(* or the place in a token where it was declared, is filled in then.       *)
(*                                                                         *)
(* A token is its kind and its value; keywords and operators are kinds of  *)
(* their own.  Each token's line is noted once for all tokens of a turn,   *)
(* or, where the code goes on with `continue`, in a later turn.            *)
(***************************************************************************)
EXTENDS Quotes
LOCAL INSTANCE SequencesExt

CONSTANT Sources  \* what may be read, by kind: records with a text and what was meant by it

VARIABLES src,            \* the source being read
          at,             \* the readers' cursor
          tokens, lines,  \* the tokens so far and the line each began on
          offset,         \* what `# line` adds to the physical line
          files,          \* `# line N FILE`: how many tokens come before it
          data,           \* what follows __END__
          phase           \* "read", "strip" (behind the loop) or "done"
vars == <<src, at, tokens, lines, offset, files, data, phase>>

----------------------------------------------------------------------------
(* Tokens.                                                                 *)
Op(kind) == T(kind, <<>>)
Keywords ==
    {"if", "else", "elsif", "unless", "while", "until", "for", "foreach", "my", "our", "local",
     "state", "sub", "return", "last", "next", "redo", "goto", "continue", "print", "say", "die",
     "warn", "BEGIN", "END", "CHECK", "INIT", "bless", "use", "require", "package", "do", "eval",
     "undef", "defined", "not", "and", "or", "xor", "eq", "ne", "lt", "gt", "le", "ge", "cmp",
     "isa", "chomp", "chop", "push", "pop", "shift", "unshift", "splice", "delete", "exists",
     "keys", "values", "each", "reverse", "sort", "join", "split", "grep", "map", "abs", "int",
     "length", "substr", "index", "rindex", "sprintf", "printf", "chr", "ord", "lc", "uc",
     "lcfirst", "ucfirst", "hex", "oct", "ref", "wantarray", "caller", "open", "close", "read",
     "eof", "tell", "binmode", "unlink", "rename", "mkdir", "rmdir", "chdir", "stat"}
Punctuators ==
    {"(", ")", "[", "]", "{", "}", ";", ",", "?", ":", "::", "\\", "+", "++", "+=", "-", "--", "-=",
     "->", "*", "**", "**=", "*=", "/", "/=", "//", "//=", ".", "..", "...", ".=", "=", "==", "=~",
     "=>", "!", "!=", "!~", "<", "<=", "<=>", "<<", "<<=", ">", ">=", ">>", ">>=", "&", "&&", "&&=",
     "&=", "|", "||", "||=", "|=", "^", "^^", "^^=", "^=", "~", "~~", "%", "%="}
\* The kinds behind which a term is expected: only those listed in the code.
OperandKinds ==
    (Keywords \ {"redo", "goto", "continue", "CHECK", "INIT", "bless", "use", "require", "package",
                 "eq", "ne", "lt", "gt", "le", "ge", "cmp", "isa", "lcfirst", "ucfirst", "wantarray",
                 "caller", "eof", "tell"})
    \cup (Punctuators \ {")", "]", "}", "++", "--", "**", "::", "...", "||=", "&&=", "//=", "&=", "|=",
                         "^=", "^^", "^^=", "<<=", ">>="})
    \cup {"**", "newline", "EOF"}
LastOf(toks) == IF toks = <<>> THEN Op("none") ELSE Last(toks)
LastKind == LastOf(tokens).kind
LastIdent == IF LastKind = "Ident" THEN LastOf(tokens).val ELSE <<>>
ExpectsOperand == LastKind = "none" \/ LastKind \in OperandKinds
last_is_named_unary ==
    \/ LastKind \in {"tell", "eof"}
    \/ \E w \in {"scalar", "pos", "tie", "untie", "tied", "is", "ok", "like", "note", "plan"} : LastIdent = <<w>>
LastIsFileTest == Len(LastIdent) = 2 /\ LastIdent[1] = "-"
TermNext == ExpectsOperand \/ last_is_named_unary
StartsStatement == LastKind \in {"none", "newline", ";"}

----------------------------------------------------------------------------
(* Turns.                                                                  *)
Text == src.text
At(i) == Piece(Text, i)
Here == at.pos
C == At(Here)
Next1 == At(Here + 1)
Reading == phase = "read"
PhysicalLine(i) == 1 + Cardinality({j \in 1 .. i - 1 : At(j) = "\n"})
recompute_line(i, off) == IF PhysicalLine(i) + off < 1 THEN 1 ELSE PhysicalLine(i) + off
Filled(toks, line) == lines \o [i \in 1 .. Len(toks) - Len(lines) |-> line]
\* A turn that adds `toks` and leaves the cursor at `to`; `fill`: lines are noted.
Turn(toks, to, fill) == /\ tokens' = tokens \o toks
                        /\ at' = to
                        /\ lines' = IF fill THEN Filled(tokens', recompute_line(Here, offset)) ELSE lines
                        /\ UNCHANGED <<src, offset, files, data, phase>>
Read(r) == Turn(<<r.tok>>, r.at, TRUE)
ReadOn(r) == Turn(<<r.tok>>, r.at, FALSE)

IdentEnd(i) == FirstAt(Text, i, LAMBDA c : ~Alnum(c) /\ c # "::")
read_ident(i) == SubSeq(Text, i, IdentEnd(i) - 1)
V(kind, val, to) == [tok |-> T(kind, val), at |-> Moved(at, to)]
Named(kind, mark, i) == V(kind, mark \o read_ident(i), IdentEnd(i))
Unbraced(i) == IF At(i) = "}" THEN i + 1 ELSE i
NamedIn(kind, mark, i) == V(kind, mark \o read_ident(i), Unbraced(IdentEnd(i)))
lookahead_close_brace_after_ident(i) ==
    LET from == IF At(i) = "$" THEN i + 1 ELSE i IN Alnum(At(from)) /\ At(IdentEnd(from)) = "}"

\* `# line N FILE`, alone on its line, the number being at `num` and the name before `to`.
FileOf(i, num, to, from, quoted) ==
    [ok |-> /\ \A j \in 1 .. i - 1 : At(j) = " " \/ \E k \in j .. i - 1 : At(k) = "\n"
            /\ At(Past(Text, i + 1, {" "})) = "line" /\ num > Past(Text, i + 1, {" "}) + 1
            /\ At(num) \in Digits
            /\ quoted => At(to) = "\""
            /\ At(Past(Text, IF quoted THEN to + 1 ELSE to, {" "})) \in {"\n", ""},
     n |-> IF At(num) = "1" THEN 1 ELSE 2, file |-> SubSeq(Text, from, to - 1)]
NameOf(i, num, name) ==
    LET quoted == At(name) = "\""
        from == IF quoted THEN name + 1 ELSE name
    IN FileOf(i, num, Upto(Text, from, {"\n", IF quoted THEN "\"" ELSE " "}), from, quoted)
Directive(i) ==
    LET num == Past(Text, Past(Text, i + 1, {" "}) + 1, {" "}) IN NameOf(i, num, Past(Text, num + 1, {" "}))
\* A faulty variant: the number is taken for the comment's own line.
OwnLineDirective(i, d) ==
    IF d.ok THEN /\ offset' = d.n - PhysicalLine(i)
                 /\ files' = IF d.file = <<>> THEN files
                             ELSE Append(files, [before |-> Len(tokens), file |-> d.file])
    ELSE UNCHANGED <<offset, files>>
try_handle_line_directive(i, d) ==
    IF d.ok THEN /\ offset' = d.n - (PhysicalLine(i) + 1)
                 /\ files' = IF d.file = <<>> THEN files
                             ELSE Append(files, [before |-> Len(tokens), file |-> d.file])
    ELSE UNCHANGED <<offset, files>>
\* Before each token: its line ends and blanks, and a comment, whose text may number the next line.
Blank == /\ Reading /\ C = " "
         /\ at' = Moved(at, Past(Text, Here, {" "}))
         /\ UNCHANGED <<src, tokens, lines, offset, files, data, phase>>
Comment == /\ Reading /\ C = "#"
           /\ try_handle_line_directive(Here, Directive(Here))
           /\ at' = Moved(at, Upto(Text, Here, {"\n"}))
           /\ UNCHANGED <<src, tokens, lines, data, phase>>

----------------------------------------------------------------------------
(* Ends of lines and of the text.                                          *)
PodWords == {"pod", "head", "over", "item", "begin", "for", "encoding"}
IsCut(j) == At(j) = "\n" /\ At(j + 1) = "=" /\ At(j + 2) = "cut" /\ ~Alnum(At(j + 3))
\* Behind the line that begins with =cut, or the end.
skip_pod(i) ==
    LET cut == CHOOSE j \in i .. Len(Text) + i : /\ j > Len(Text) \/ IsCut(j)
                                                 /\ \A k \in i .. j - 1 : ~IsCut(k)
    IN Upto(Text, cut + 1, {"\n"}) + 1
AtPod == StartsStatement /\ C = "=" /\ Next1 \in PodWords \cup {"cut"}
Pod == Reading /\ AtPod /\ Turn(<<>>, Moved(at, skip_pod(Here)), FALSE)
\* `format NAME =` goes to a line that is a dot.
AtFormat == StartsStatement /\ C = "format" /\ Next1 = " "
Format ==
    /\ Reading /\ AtFormat
    /\ LET dots == {j \in Here .. Len(Text) : /\ At(j) = "\n" /\ At(j + 1) = "."
                                              /\ At(Past(Text, j + 2, {" "})) \in {"\n", ""}}
           dot == CHOOSE j \in dots : \A k \in dots : j <= k
       IN Turn(<<>>, Moved(at, IF dots = {} THEN Len(Text) + 1 ELSE Upto(Text, dot + 1, {"\n"}) + 1), FALSE)

Strings == {"StringLit", "InterpString"}
\* A heredoc's body comes to its token, if that is still of the kind it was queued for.
Deliver(toks, b) ==
    LET i == b.h.slot
        kind == IF i \in DOMAIN toks THEN toks[i].kind ELSE None
        lit == heredoc_body_as_perl_literal(b.body, b.h.interp)
        In(part) == [toks EXCEPT ![i].val[part] = Spliced(@, b.h.mark, lit)]
    IN CASE b.h.target = "Token" /\ kind \in Strings -> [toks EXCEPT ![i].val = b.body]
         [] b.h.target = "SubstPatMarker" /\ kind = "Substitution" -> In(1)
         [] b.h.target = "SubstReplMarker" /\ kind = "Substitution" -> In(2)
         [] b.h.target = "InterpMarker" /\ kind \in Strings -> [toks EXCEPT ![i].val = Spliced(@, b.h.mark, lit)]
         [] OTHER -> toks
LineEnds(to, toks) ==
    LET pod == At(to.pos) = "=" /\ At(to.pos + 1) \in PodWords
    IN /\ at' = IF pod THEN Moved(to, skip_pod(to.pos)) ELSE to
       /\ tokens' = IF pod \/ LastOf(toks).kind \in {"none", "newline", ";", "{"} THEN toks
                    ELSE Append(toks, Op("newline"))
       /\ lines' = IF pod THEN lines ELSE Filled(tokens', recompute_line(Here, offset))
Drain(got) == LineEnds(got.at, FoldLeft(Deliver, tokens, got.read))
Newline ==
    /\ Reading /\ C = "\n"
    /\ Drain(Bodies(Text, Moved(at, Here + 1), TRUE))
    /\ UNCHANGED <<src, offset, files, data, phase>>
EndOfText ==
    /\ Reading /\ C = ""
    /\ at' = Bodies(Text, Moved(at, Here), FALSE).at
    /\ tokens' = Append(tokens, Op("EOF"))
    /\ lines' = Filled(tokens', recompute_line(Here, offset))
    /\ phase' = "strip" /\ UNCHANGED <<src, offset, files, data>>
\* Line-end tokens go, and so does a token no line was noted for.
Strip ==
    /\ phase = "strip" /\ phase' = "done"
    /\ LET kept == SelectSeq([i \in DOMAIN lines |-> i], LAMBDA i : tokens[i].kind # "newline")
           Swept(t) == IF t.kind = "StringLit" THEN [t EXCEPT !.val = Without(@, "F3")] ELSE t
       IN /\ tokens' = [i \in DOMAIN kept |-> Swept(tokens[kept[i]])]
          /\ lines' = [i \in DOMAIN kept |-> lines[kept[i]]]
          /\ files' = [n \in DOMAIN files |->
                          [files[n] EXCEPT !.before = Cardinality({i \in DOMAIN kept : kept[i] <= @})]]
    /\ UNCHANGED <<src, at, offset, data>>

----------------------------------------------------------------------------
(* Variables, globs and block dereferences.                                *)
Specials == {"/", "\\", ",", "@", "!", ".", "\"", ";", "|", "?", "&", "tick", "'", "-", "+", "#",
             "*", "~", "%", "=", ":", "]", "["}
\* Behind ${ or @{: a name, $name or ^NAME up to }, else a block begins.
Braced(var, deref, block, i) ==
    CASE At(i) = "^" -> NamedIn(var, <<"^">>, i + 1)
      [] /\ At(i) = "$" /\ (var = "ScalarVar" \/ IsWord(At(i + 1)))
         /\ lookahead_close_brace_after_ident(i) -> NamedIn(deref, <<>>, i + 1)
      [] IsWord(At(i)) /\ lookahead_close_brace_after_ident(i) -> NamedIn(var, <<>>, i)
      [] OTHER -> V(block, <<>>, i)
\* $$ and more: the dollars before a name or a brace are dereferences.
Dollars(i) ==
    LET j == CHOOSE k \in i + 1 .. Len(Text) + 1 :
                 LET More(m) == At(m) = "$" /\ (IsWord(At(m + 1)) \/ At(m + 1) \in {"$", "{"})
                 IN ~More(k) /\ \A m \in i + 1 .. k - 1 : More(m)
    IN IF read_ident(j) = <<>> /\ At(j) # "{" THEN V("ScalarVar", <<"$">>, j)
       ELSE Named("ScalarDeref", SubSeq(Text, i + 1, j - 1), j)
LastIndex(i) ==
    CASE At(i) = "$" -> Named("ArrayLen", <<"$">>, i + 1)
      [] At(i) = "{" -> V("ArrayLen", <<"{">>, i)
      [] OTHER -> Named("ArrayLen", <<>>, i)
ScalarSigil ==
    /\ Reading /\ C = "$"
    /\ LET i == Here + 1
           brace == Past(Text, i, {" "})
           c == At(i)
       IN Read(CASE c = "#" /\ At(i + 1) # "[" -> LastIndex(i + 1)
                 [] c = "$" -> Dollars(i)
                 [] c = "::" -> Named("ScalarVar", <<"::">>, i + 1)
                 [] At(brace) = "{" -> Braced("ScalarVar", "ScalarDeref", "ScalarBlockDerefOpen", brace + 1)
                 [] c = "^" -> V("ScalarVar", <<"^", At(i + 1)>>, i + 2)
                 [] IsWord(c) -> Named("ScalarVar", <<>>, i)
                 [] c \in Digits -> V("ScalarVar", <<c>>, i + 1)
                 [] (c = "#" /\ At(i + 1) = "[") \/ (c = "." /\ At(i + 1) \notin Digits)
                        \/ c \in Specials \ {"#", "."} -> V("ScalarVar", <<c>>, i + 1)
                 [] OTHER -> V("ScalarVar", <<"_">>, i))
SigilDeref(kind, i) == IF At(i + 1) = "{" THEN NamedIn(kind, <<>>, i + 2) ELSE Named(kind, <<>>, i + 1)
ArraySigil ==
    /\ Reading /\ C = "@"
    /\ LET i == Here + 1 IN
       Read(CASE Next1 \in {"+", "-"} \cup Digits -> V("ArrayVar", <<Next1>>, i + 1)
              [] IsWord(Next1) -> Named("ArrayVar", <<>>, i)
              [] Next1 = "$" -> SigilDeref("ArrayDeref", i)
              [] Next1 = "{" -> Braced("ArrayVar", "ArrayDeref", "ArrayBlockDerefOpen", i + 1)
              [] OTHER -> V("ArrayVar", <<>>, i))
\* % where a term is expected, except before what no hash's name begins with.
AtHash == /\ C = "%"
          /\ (Next1 = "$" /\ ExpectsOperand) \/ (TermNext /\ (IsWord(Next1) \/ Next1 = "{"))
HashSigil ==
    /\ Reading /\ AtHash
    /\ LET i == Here + 1
           caret == Past(Text, i + 1, {" "})
           end == FirstAt(Text, caret + 1, LAMBDA c : ~Alnum(c))
           close == Past(Text, end, {" "})
           special == At(caret) = "^" /\ end > caret + 1 /\ At(close) = "}"
       IN IF Next1 = "{" /\ special
          THEN ReadOn(V("HashVar", <<"^">> \o SubSeq(Text, caret + 1, end - 1), close + 1))
          ELSE Read(CASE Next1 = "$" -> SigilDeref("HashDeref", i)
                      [] IsWord(Next1) -> Named("HashVar", <<>>, i)
                      [] OTHER -> V("HashBlockDerefOpen", <<>>, i))
AtGlob == /\ C = "*" /\ TermNext
          /\ Alnum(Next1) \/ Next1 = "{" \/ (Next1 = "$" /\ IsWord(At(Here + 2)))
Glob ==
    /\ Reading /\ AtGlob
    /\ LET i == Here + 1
           scalar == At(i + 1) = "$"
           from == IF scalar THEN i + 2 ELSE i + 1
           closed == IsWord(At(from)) /\ At(IdentEnd(from)) = "}"
       IN Read(CASE Next1 = "$" -> Named("Glob", <<"$">>, i + 1)
                 [] Next1 = "{" /\ closed -> NamedIn("Glob", IF scalar THEN <<"$">> ELSE <<>>, from)
                 [] Next1 = "{" /\ ~closed -> V("GlobBlockDerefOpen", <<>>, i)
                 [] IsWord(Next1) -> Named("Glob", <<>>, i)
                 [] OTHER -> V("Glob", <<Next1>>, i + 1))

----------------------------------------------------------------------------
(* Words, numbers and quotes.                                              *)
AtNumber == C \in Digits \/ (C = "." /\ Next1 \in Digits)
\* A point belongs to the number unless a second one follows.
Number ==
    /\ Reading /\ AtNumber
    /\ LET whole == Past(Text, Here, Digits)
           float == At(whole) = "." /\ At(whole + 1) # "."
           end == IF float THEN Past(Text, whole + 1, Digits) ELSE whole
       IN Read(V(IF float THEN "Float" ELSE "Integer", SubSeq(Text, Here, end - 1), end))
SingleQuoted == Reading /\ C = "'" /\ Read(read_single_quoted_string(Text, at, Here + 1))
DoubleQuoted == Reading /\ C = "\"" /\ Read(read_dq_str_interp_at(Text, at, Here + 1, Len(tokens) + 1))
Backtick ==
    /\ Reading /\ C = "tick"
    /\ LET r == read_double_quoted_string(Text, at, Here + 1)
       IN Turn(<<T("Ident", <<"backtick">>), r.tok>>, r.at, TRUE)

AtRepeat == C = "x" /\ Next1 \in Digits /\ ~ExpectsOperand
Repeat == Reading /\ AtRepeat /\ ReadOn(V("x", <<>>, Here + 1))
\* v1.2: a string of characters by number.
VEnd == CHOOSE k \in Here + 2 .. Len(Text) + 1 :
            LET More(m) == At(m) = "." /\ At(m + 1) \in Digits
                Part(m) == At(m) \in Digits /\ At(m - 1) = "."
            IN ~More(k) /\ ~Part(k) /\ \A m \in Here + 2 .. k - 1 : More(m) \/ Part(m)
AtVString == /\ C = "v" /\ Next1 \in Digits /\ ExpectsOperand /\ tokens # <<>>
             /\ ~IsWord(At(VEnd)) /\ At(VEnd) # "::"
VString == /\ Reading /\ AtVString
           /\ ReadOn(V("StringLit", [k \in 1 .. (VEnd - Here) \div 2 |-> "chr"], VEnd))
AtWord == IsWord(C) /\ ~AtFormat /\ ~AtRepeat /\ ~AtVString
Ident == read_ident(Here)
End == IdentEnd(Here)
AtEndMarker == AtWord /\ Ident \in {<<"__END__">>, <<"__DATA__">>}
\* The text is over; what comes after the line is data.
EndMarker ==
    /\ Reading /\ AtEndMarker
    /\ data' = SubSeq(Text, Upto(Text, End, {"\n"}) + 1, Len(Text))
    /\ at' = Moved(at, Len(Text) + 1) /\ phase' = "strip"
    /\ UNCHANGED <<src, tokens, lines, offset, files>>
Arrow == Past(Text, End, Blanks)
AtFatComma == AtWord /\ ~AtEndMarker /\ At(Arrow) = "=" /\ At(Arrow + 1) = ">"
\* A word before => is a string, unless it is qualified.
FatComma ==
    /\ Reading /\ AtFatComma
    /\ LET kind == IF Holds(Ident, {"::"}) THEN "Ident" ELSE "StringLit"
       IN Turn(<<T(kind, Ident), Op("=>")>>, Moved(at, Arrow + 2), FALSE)
\* What must not come after m, s, tr and y for them to be quote operators.
NoDelim == {";", ")", "}", "]"}
Quotes1 == {"q", "qq", "qw", "qr"}
AtQuote ==
    /\ AtWord /\ ~AtEndMarker /\ ~AtFatComma /\ Len(Ident) = 1
    /\ LET d == At(End) IN
       \/ C \in Quotes1
       \/ C = "m" /\ d \notin NoDelim \cup {"="} /\ (d = "," => LastKind \in {"=~", "!~"})
       \/ C \in {"s", "tr", "y"} /\ d \notin NoDelim \cup {","}
QuoteLike ==
    /\ Reading /\ AtQuote
    /\ LET slot == Len(tokens) + 1 IN
       ReadOn(CASE C = "q" -> read_q_string(Text, at, End)
                [] C = "qq" -> read_qq_string_at(Text, at, End, slot)
                [] C = "qw" -> read_qw(Text, at, End)
                [] C = "qr" -> read_qr(Text, at, End, "QrLit")
                [] C = "m" -> read_qr(Text, at, End, "RegexLit")
                [] C = "s" -> read_substitution(Text, at, End, slot, "Substitution")
                [] OTHER -> read_transliterate(Text, at, End))
\* A keyword, the operator x where no term is expected, or a name.
Word ==
    /\ Reading /\ AtWord /\ ~AtEndMarker /\ ~AtFatComma /\ ~AtQuote
    /\ LET times == Ident = <<"x">> /\ ~ExpectsOperand
           assigns == At(End) = "=" /\ At(End + 1) # "="
       IN Read(CASE times /\ assigns -> V("x=", <<>>, End + 1)
                 [] times /\ ~assigns -> V("x", <<>>, End)
                 [] Len(Ident) = 1 /\ C \in Keywords -> V(C, <<>>, End)
                 [] OTHER -> V("Ident", Ident, End))

----------------------------------------------------------------------------
(* Signs with more than one meaning, and plain punctuation.                *)
Letters == {"e", "f", "s", "x", "y", "q", "m", "a", "b"}
AtFileTest == /\ C = "-" /\ Next1 \in Letters /\ ~Alnum(At(Here + 2))
              /\ ExpectsOperand \/ LastIsFileTest
FileTest == Reading /\ AtFileTest /\ Read(V("Ident", <<"-", Next1>>, Here + 2))
\* A faulty variant: only file tests are thought of.
FileTestOnly == LastIsFileTest
\* Behind these // is the operator, although a term could follow.
DorSource == LastKind \in {"shift", "pop", "defined", "undef", "caller", "wantarray"} \/ LastIsFileTest
AtRegex == C = "/" /\ ExpectsOperand /\ ~(DorSource /\ Next1 = "/")
Regex == Reading /\ AtRegex /\ Read(read_regex(Text, at, Here + 1))
AtHeredoc == /\ C = "<" /\ Next1 = "<"
             /\ LET c == At(Here + 2) IN IsWord(c) \/ c \in {"'", "\"", "tick", "~", "\\"}
\* A faulty variant: the token before a command is not counted.
NextSlot(command) == Len(tokens) + 1
\* The place of a heredoc's own token: a command has one more before it.
HeredocSlot(command) == Len(tokens \o command) + 1
Heredoc ==
    /\ Reading /\ AtHeredoc
    /\ LET h == Header(Text, Here, {"'", "\"", "tick"})
           command == IF h.quote = "tick" THEN <<T("Ident", <<"backtick">>)>> ELSE <<>>
           string == T(IF h.interp THEN "InterpString" ELSE "StringLit", <<>>)
           to == [at EXCEPT !.pos = h.to,
                            !.pend = Append(@, Pending(h, "Token", HeredocSlot(command), None))]
       IN Turn(command \o <<string>>,
               CASE ~h.closed -> Failed(to, "delimiter")
                 [] h.closed /\ h.tag = <<>> /\ At(h.to) \in Digits -> Failed(to, "number")
                 [] OTHER -> to,
               TRUE)
AtDiamond == C = "<" /\ TermNext /\ (IsWord(Next1) \/ Next1 \in {">", "$"})
Diamond ==
    /\ Reading /\ AtDiamond
    /\ LET close == Upto(Text, Here + 1, {">"})
       IN Read(V("Diamond", SubSeq(Text, Here + 1, close - 1), IF close > Len(Text) THEN close ELSE close + 1))
Spelling(n) == CASE n = 1 -> C [] n = 2 -> C \o Next1 [] OTHER -> C \o Next1 \o At(Here + 2)
Width == CHOOSE n \in 1 .. 3 : /\ Spelling(n) \in Punctuators
                               /\ \A m \in n + 1 .. 3 : Spelling(m) \notin Punctuators
\* The longest operator spelled here; ~~ is one only behind a term.
Punctuation ==
    /\ Reading /\ C \in Punctuators
    /\ ~(AtPod \/ AtHash \/ AtGlob \/ AtNumber \/ AtFileTest \/ AtRegex \/ AtHeredoc \/ AtDiamond)
    /\ LET n == IF Spelling(2) = "~~" /\ ExpectsOperand THEN 1 ELSE Width
           name == Spelling(n)
       IN Read(V(IF name \in {"::", "..."} THEN "Ident" ELSE name,
                 IF name \in {"::", "..."} THEN <<name>> ELSE <<>>, Here + n))
\* A faulty variant: it is reported and looked at again.
Reconsidered == Reading /\ C = "^A" /\ Turn(<<>>, Failed(at, "character"), TRUE)
\* Any other character is reported and skipped.
Unrecognized == Reading /\ C = "^A" /\ Turn(<<>>, Failed(Moved(at, Here + 1), "character"), TRUE)

----------------------------------------------------------------------------
Init == /\ \E kind \in DOMAIN Sources : src \in Sources[kind]
        /\ at = [pos |-> 1, pend |-> <<>>, n |-> 0, err |-> None]
        /\ tokens = <<>> /\ lines = <<>> /\ offset = 0 /\ files = <<>> /\ data = None
        /\ phase = "read"
Next == \/ Blank \/ Comment \/ Newline \/ EndOfText \/ Pod \/ Format
        \/ ScalarSigil \/ ArraySigil \/ HashSigil \/ Glob
        \/ Number \/ SingleQuoted \/ DoubleQuoted \/ Backtick
        \/ Repeat \/ VString \/ EndMarker \/ FatComma \/ QuoteLike \/ Word
        \/ FileTest \/ Regex \/ Heredoc \/ Diamond \/ Punctuation \/ Unrecognized
        \/ Strip
Done == phase = "done" /\ UNCHANGED vars
Spec == Init /\ [][Next \/ Done]_vars

----------------------------------------------------------------------------
(* Properties.                                                             *)
Marks == {Marker(n) : n \in 1 .. 4}
\* The marks in a token's value.
MarksIn(t) ==
    CASE t.kind \in Strings -> {t.val[i] : i \in DOMAIN t.val} \cap Marks
      [] t.kind = "Substitution" ->
             UNION {{t.val[part][i] : i \in DOMAIN t.val[part]} : part \in 1 .. 2} \cap Marks
      [] OTHER -> {}

\* What was written is what is read (tokenize): every string, pattern, heredoc and name comes back
\* as the token it was written for, whatever stands before it, and nothing else does.
Recognised ==
    phase = "done" /\ src.err = None => tokens = src.toks /\ data = src.data

\* Each token has the line it was written on (recompute_line and the notes of token_lines), also
\* behind heredocs, pod and formats; `# line` changes only what comes after it.
LinesRight ==
    phase = "done" /\ src.err = None => lines = src.lines /\ files = src.files

\* A text that ends inside a pattern, a substitution or a heredoc, or breaks one of the heredoc
\* rules, is refused with its own error, the first one found (self.error); no other text is.
Reported == phase = "done" => at.err = src.err

\* A heredoc whose body is still to come has its place (HeredocTarget): an empty string token that
\* nothing else filled or moved, or its mark in the token that declares it; and no mark is left in a
\* token once its body was read.
MarksPlaced ==
    /\ \A k \in DOMAIN at.pend :
           LET h == at.pend[k] IN
           IF h.target = "Token" THEN tokens[h.slot].kind \in Strings /\ tokens[h.slot].val = <<>>
           ELSE h.mark \in MarksIn(tokens[h.slot])
    /\ at.err = None =>
           \A i \in DOMAIN tokens : \A m \in MarksIn(tokens[i]) :
               \E k \in DOMAIN at.pend : at.pend[k].slot = i /\ at.pend[k].mark = m

\* Every turn moves on in the text (the comment at "Skip the unknown char so we don't
\* infinite-loop"): no sign, reader or error leaves the loop where it was.
Advances == [][phase' # phase \/ at'.pos > at.pos]_vars
=============================================================================
