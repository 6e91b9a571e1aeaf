-------------------------------- MODULE Quotes --------------------------------
(***************************************************************************)
(* What the lexer's readers make of strings, patterns and heredocs         *)
(* (lexer.rs): delimiters, escapes, interpolated islands, heredoc headers  *)
(* and bodies.                                                             *)
(*                                                                         *)
(* A text is a sequence of pieces: a run of letters, a number, "::", and   *)
(* every other character.  A reader starts from a cursor [pos, pend, n,    *)
(* err]: the next piece, the heredocs whose body is still to come, the     *)
(* markers handed out, and the first error, None while there is none.      *)
(***************************************************************************)
EXTENDS Integers, Sequences, FiniteSets
LOCAL INSTANCE SequencesExt

CONSTANT None

Digits == {"1", "2"}
Signs == {"$", "@", "%", "&", "*", "/", "(", ")", "[", "]", "{", "}", ";", ",", "=", "<", ">", "~",
          "\\", "-", "+", "#", ":", "::", ".", "?", "!", "|", "^", " ", "\n", "'", "\"", "tick", "^A", ""}
IsWord(c) == c \notin Signs \cup Digits
Alnum(c) == c \notin Signs
Piece(s, i) == IF i \in DOMAIN s THEN s[i] ELSE ""
\* The first place from i on where Is holds, else behind the end.
FirstAt(s, i, Is(_)) ==
    CHOOSE j \in i .. Len(s) + i : /\ j > Len(s) \/ Is(s[j])
                                   /\ \A k \in i .. j - 1 : k <= Len(s) /\ ~Is(s[k])
Upto(s, i, set) == FirstAt(s, i, LAMBDA c : c \in set)
Past(s, i, set) == FirstAt(s, i, LAMBDA c : c \notin set)
Holds(s, set) == \E i \in DOMAIN s : s[i] \in set
Without(s, c) == SelectSeq(s, LAMBDA p : p # c)
find_matching_delim(c) ==
    CASE c = "(" -> ")" [] c = "[" -> "]" [] c = "{" -> "}" [] c = "<" -> ">" [] OTHER -> c

T(kind, val) == [kind |-> kind, val |-> val]
Moved(at, to) == [at EXCEPT !.pos = to]
\* Only the first error is kept.
Failed(at, e) == IF at.err = None THEN [at EXCEPT !.err = e] ELSE at

----------------------------------------------------------------------------
(* Escapes and islands.  "F1", "F2" and "F3" are the placeholders of an    *)
(* escaped $, an escaped @ and a variable's end; "chr" is a character      *)
(* given by its number or name.                                            *)
Sigils == {"$", "@"}
Island(s, i) == Piece(s, i) \in Sigils /\ Piece(s, i + 1) = "{"
\* Behind the } of the island at i.
IslandEnd(s, i) ==
    LET f[j \in i + 2 .. Len(s) + 1, deep \in 0 .. Len(s)] ==
            CASE j > Len(s) \/ deep = 0 -> j
              [] j <= Len(s) /\ deep > 0 /\ s[j] = "{" -> f[j + 1, deep + 1]
              [] j <= Len(s) /\ deep > 0 /\ s[j] = "}" -> f[j + 1, deep - 1]
              [] OTHER -> f[j + 1, deep]
    IN f[i + 2, 1]

CaseEscapes == {"u", "L", "E"}
\* What the escape whose letter is at i stands for, and where it ends; in
\* "..." the case escapes are marks at once.
Escape(s, i, dq) ==
    LET c == s[i]
        E(val) == [val |-> val, to |-> i + 1]
    IN CASE c = "n" -> E(<<"\n">>)
         [] c \in {"\\", "\""} -> E(<<c>>)
         [] c = "$" -> E(<<"F1">>)
         [] c = "@" -> E(<<"F2">>)
         [] c \in Digits -> E(<<"chr">>)
         [] c = "x" -> [val |-> <<"chr">>,
                        to |-> IF Piece(s, i + 1) = "{" THEN Upto(s, i + 1, {"}"}) + 1 ELSE i + 2]
         [] c \in CaseEscapes -> E(IF dq THEN <<"case", c>> ELSE <<"\\", c>>)
         [] OTHER -> E(<<"F3", c>>)
process_escapes(s, dq) ==
    LET f[i \in 1 .. Len(s) + 2] ==
            IF i > Len(s) THEN <<>>
            ELSE IF Island(s, i) THEN SubSeq(s, i, IslandEnd(s, i) - 1) \o f[IslandEnd(s, i)]
            ELSE IF s[i] = "\\" /\ i < Len(s) THEN LET e == Escape(s, i + 1, dq) IN e.val \o f[e.to]
            ELSE <<s[i]>> \o f[i + 1]
    IN f[1]
Restored(s) == [i \in DOMAIN s |-> CASE s[i] = "F1" -> "$" [] s[i] = "F2" -> "@" [] OTHER -> s[i]]
\* A backslash before one of `special` is taken away.
Stripped(s, special) ==
    LET f[i \in 1 .. Len(s) + 1] ==
            IF i > Len(s) THEN <<>>
            ELSE IF s[i] = "\\" /\ Piece(s, i + 1) \in special THEN <<s[i + 1]>> \o f[i + 2]
            ELSE <<s[i]>> \o f[i + 1]
    IN f[1]

----------------------------------------------------------------------------
(* Heredocs.                                                               *)
Quotes2 == {"'", "\""}
\* A heredoc's header behind its << and ~, \ and quote q: the tag, and where the header ends.
HeaderTag(s, from, q, bare, indent) ==
    LET to == IF q = None THEN FirstAt(s, from, LAMBDA c : ~Alnum(c)) ELSE Upto(s, from, {q, "\n"})
        closed == q = None \/ Piece(s, to) = q
    IN [tag |-> SubSeq(s, from, to - 1), indent |-> indent, interp |-> ~bare /\ q # "'", quote |-> q,
        closed |-> closed, to |-> IF q # None /\ closed THEN to + 1 ELSE to]
HeaderQuote(s, i, bare, indent, quotes) ==
    HeaderTag(s, IF Piece(s, i) \in quotes THEN i + 1 ELSE i,
              IF Piece(s, i) \in quotes THEN Piece(s, i) ELSE None, bare, indent)
HeaderBare(s, i, indent, quotes) ==
    HeaderQuote(s, IF Piece(s, i) = "\\" THEN i + 1 ELSE i, Piece(s, i) = "\\", indent, quotes)
\* <<TAG, <<~TAG, <<\TAG, <<'TAG' and <<"TAG" at i.
Header(s, i, quotes) ==
    HeaderBare(s, IF Piece(s, i + 2) = "~" THEN Past(s, i + 3, {" "}) ELSE i + 2,
               Piece(s, i + 2) = "~", quotes)
NamesTag(h) == h.quote # None \/ (h.tag # <<>> /\ IsWord(h.tag[1]))
\* Whether a header is at i of a string or pattern.
try_parse_heredoc_header(s, i) ==
    /\ Piece(s, i) = "<" /\ Piece(s, i + 1) = "<"
    /\ NamesTag(Header(s, i, Quotes2))
Marker(n) == <<"HD1", "HD2", "HD3", "HD4">>[n]
\* A heredoc whose body goes to the token at `slot`: into it, or where its mark is.
Pending(h, target, slot, mark) ==
    [tag |-> h.tag, indent |-> h.indent, interp |-> h.interp, target |-> target, slot |-> slot, mark |-> mark]
Queued(at, h, target, slot) ==
    [at EXCEPT !.n = @ + 1, !.pend = Append(@, Pending(h, target, slot, Marker(at.n + 1)))]

heredoc_body_as_perl_literal(body, interp) ==
    LET open == IF interp THEN <<"\"">> ELSE <<"q", "[">>
        close == IF interp THEN <<"\"">> ELSE <<"]">>
        quoted == {"\\"} \cup IF interp THEN {"\""} ELSE {"[", "]"}
        Char(c) == IF c \in quoted THEN <<"\\", c>>
                   ELSE IF c = "\n" /\ interp THEN <<"\\", "n">> ELSE <<c>>
    IN open \o FlattenSeq([i \in DOMAIN body |-> Char(body[i])]) \o close
Spliced(s, mark, lit) == FlattenSeq([i \in DOMAIN s |-> IF s[i] = mark THEN lit ELSE <<s[i]>>])

\* A body made of its lines: the terminator's indentation goes, and for <<"" the last blank lines.
Dedented(lead, line) ==
    IF IsPrefix(lead, line) THEN SubSeq(line, Len(lead) + 1, Len(line))
    ELSE IF \A j \in DOMAIN line : line[j] = " " THEN <<>> ELSE line
BodyText(lead, lines) == FlattenSeq([i \in DOMAIN lines |-> Append(Dedented(lead, lines[i]), "\n")])
WithoutLastBlanks(lines) ==
    SubSeq(lines, 1, CHOOSE m \in 0 .. Len(lines) : /\ m = 0 \/ lines[m] # <<>>
                                                    /\ \A j \in m + 1 .. Len(lines) : lines[j] = <<>>)
BodyOf(h, got) ==
    LET toEnd == ~got.found /\ h.tag = <<>> /\ got.nl
        bad == \E i \in DOMAIN got.lines : /\ ~IsPrefix(got.lead, got.lines[i])
                                           /\ \E j \in DOMAIN got.lines[i] : got.lines[i][j] # " "
        body == BodyText(got.lead, IF toEnd /\ got.at.err = None THEN WithoutLastBlanks(got.lines)
                                   ELSE got.lines)
    IN [at |-> IF ~got.found /\ ~toEnd THEN Failed(got.at, "no terminator")
               ELSE IF bad THEN Failed(got.at, "indentation") ELSE got.at,
        body |-> IF h.interp THEN process_escapes(body, FALSE) ELSE body]
IsEnd(h, line, lead) ==
    /\ lead >= 0 /\ SubSeq(line, lead + 1, Len(line)) = h.tag
    /\ IF h.indent THEN \A j \in 1 .. lead : line[j] = " " ELSE lead = 0

RECURSIVE read_heredoc_body(_, _, _), BodyLines(_, _, _, _, _), expand_inner_heredocs_in_line(_, _, _)
read_heredoc_body(s, at, h) == BodyOf(h, BodyLines(s, at, h, <<>>, FALSE))
\* The lines up to the tag, alone on its line; `nl`: the last one had an end.
LineRead(s, h, read, nl, got) == BodyLines(s, got.at, h, Append(read, got.val), nl)
BodyLine(s, at, h, read, end, line) ==
    IF IsEnd(h, line, Len(line) - Len(h.tag))
    THEN [at |-> Moved(at, end + 1), lines |-> read, found |-> TRUE, nl |-> TRUE,
          lead |-> SubSeq(line, 1, Len(line) - Len(h.tag))]
    ELSE LineRead(s, h, read, end <= Len(s),
                  IF h.interp THEN expand_inner_heredocs_in_line(s, Moved(at, end + 1), line)
                  ELSE [at |-> Moved(at, end + 1), val |-> line])
LineTo(s, at, h, read, end) == BodyLine(s, at, h, read, end, SubSeq(s, at.pos, end - 1))
BodyLines(s, at, h, read, nl) ==
    IF at.pos > Len(s) THEN [at |-> at, lines |-> read, found |-> FALSE, nl |-> nl, lead |-> <<>>]
    ELSE LineTo(s, at, h, read, Upto(s, at.pos, {"\n"}))
\* A heredoc declared in a line of a body: its own body follows that line at once.
Joined(before, lit, rest) == [at |-> rest.at, val |-> before \o lit \o rest.val]
InnerRead(s, line, i, h, in) ==
    Joined(SubSeq(line, 1, i - 1), heredoc_body_as_perl_literal(in.body, h.interp),
           expand_inner_heredocs_in_line(s, in.at, SubSeq(line, h.to, Len(line))))
Inner(s, at, line, i, h) == InnerRead(s, line, i, h, read_heredoc_body(s, at, h))
ExpandedFrom(s, at, line, i) ==
    IF i > Len(line) THEN [at |-> at, val |-> line]
    ELSE Inner(s, at, line, i, Header(line, i, Quotes2))
expand_inner_heredocs_in_line(s, at, line) ==
    ExpandedFrom(s, at, line,
                 FirstAt([j \in DOMAIN line |-> j], 1, LAMBDA j : try_parse_heredoc_header(line, j)))

\* A faulty variant: only the body's very last character is looked at.
LastDollar(body) == Piece(body, Len(body)) = "$"
\* A body that ends in a $ with no name.
FinalDollar(body) ==
    LET m == CHOOSE k \in 0 .. Len(body) : /\ k = 0 \/ body[k] \notin {" ", "\n"}
                                           /\ \A j \in k + 1 .. Len(body) : body[j] \in {" ", "\n"}
    IN Piece(body, m) = "$" /\ Piece(body, m - 1) \notin {"\\", "$"}
\* The bodies of all that is pending, one after the other.
BodyRead(acc, h, got, strict) ==
    [at |-> IF strict /\ h.interp /\ FinalDollar(got.body) THEN Failed(got.at, "final $") ELSE got.at,
     read |-> Append(acc.read, [h |-> h, body |-> got.body])]
Bodies(s, at, strict) ==
    FoldLeft(LAMBDA acc, h : BodyRead(acc, h, read_heredoc_body(s, acc.at, h), strict),
             [at |-> [at EXCEPT !.pend = <<>>], read |-> <<>>], at.pend)

----------------------------------------------------------------------------
(* Strings.                                                                *)
\* The islands of s; where `escapes` says so, a backslash hides one.
Islands(s, escapes) ==
    LET f[i \in 1 .. Len(s) + 2] ==
            IF i > Len(s) THEN {}
            ELSE IF Island(s, i) THEN {i .. IslandEnd(s, i) - 1} \cup f[IslandEnd(s, i)]
            ELSE IF escapes /\ s[i] = "\\" THEN f[i + 2] ELSE f[i + 1]
    IN f[1]
\* The headers in its islands become marks, and are queued for the token at `slot`.
RECURSIVE Marked(_, _, _, _)
MarkedAt(s, at, slot, escapes, i, h) ==
    Marked(SubSeq(s, 1, i - 1) \o <<Marker(at.n + 1)>> \o SubSeq(s, h.to, Len(s)),
           Queued(at, h, "InterpMarker", slot), slot, escapes)
MarkedFirst(s, at, slot, escapes, heads) ==
    IF heads = {} THEN [val |-> s, at |-> at]
    ELSE LET i == CHOOSE j \in heads : \A k \in heads : j <= k
         IN MarkedAt(s, at, slot, escapes, i, Header(s, i, Quotes2))
Marked(s, at, slot, escapes) ==
    MarkedFirst(s, at, slot, escapes,
                {i \in UNION Islands(s, escapes) : try_parse_heredoc_header(s, i)})
\* An unescaped sigil makes the string one that is interpolated at run time.
Interpolated(val) ==
    IF Holds(val, Sigils) THEN T("InterpString", val) ELSE T("StringLit", Without(Restored(val), "F3"))

\* Where the string that begins at i ends: islands hide the delimiter, and so does a backslash.
StringEnd(s, i, delim) ==
    LET f[j \in i .. Len(s) + 2] ==
            IF j > Len(s) THEN Len(s) + 1
            ELSE IF s[j] = delim THEN j
            ELSE IF Island(s, j) THEN f[IslandEnd(s, j)]
            ELSE IF s[j] = "\\" THEN f[j + 2] ELSE f[j + 1]
    IN f[i]
\* "..." whose text begins at i, as the token at `slot`.
DqRead(m, end) == [tok |-> Interpolated(process_escapes(m.val, TRUE)), at |-> Moved(m.at, end + 1)]
DqTo(s, at, i, slot, end) == DqRead(Marked(SubSeq(s, i, end - 1), at, slot, TRUE), end)
read_dq_str_interp_at(s, at, i, slot) == DqTo(s, at, i, slot, StringEnd(s, i, "\""))
\* `...`: escaped sigils are put back first, and then taken for unescaped ones.
Command(text) == IF Holds(text, Sigils) THEN T("InterpString", text) ELSE T("StringLit", Without(text, "F3"))
PutBack(val) == IF Holds(val, Sigils) THEN val ELSE Restored(val)
read_double_quoted_string(s, at, i) ==
    LET end == StringEnd(s, i, "tick")
        text == Stripped(SubSeq(s, i, end - 1), {"tick"})
    IN [tok |-> Command(PutBack(process_escapes(text, TRUE))), at |-> Moved(at, end + 1)]
read_single_quoted_string(s, at, i) ==
    LET f[j \in i .. Len(s) + 2] ==
            IF j > Len(s) THEN Len(s) + 1
            ELSE IF s[j] = "'" THEN j
            ELSE IF s[j] = "\\" /\ Piece(s, j + 1) \in {"'", "\\"} THEN f[j + 2] ELSE f[j + 1]
    IN [tok |-> T("StringLit", Stripped(SubSeq(s, i, f[i] - 1), {"'", "\\"})), at |-> Moved(at, f[i] + 1)]

----------------------------------------------------------------------------
(* Quote operators.  i is behind the operator's name.                      *)
Blanks == {" ", "\n"}
\* The opening delimiter; a comment may come before it, for q and the like only behind a blank.
RECURSIVE DelimAt(_, _, _)
DelimAt(s, i, atOnce) ==
    LET k == Past(s, i, Blanks) IN
    IF Piece(s, k) = "#" /\ Piece(s, k + 1) \in {" ", "\n", ""} /\ (atOnce \/ k > i)
    THEN DelimAt(s, Upto(s, k, {"\n"}), atOnce) ELSE k
\* Pairs nest and keep their backslashes; otherwise one before the delimiter goes.
DelimitedIn(s, at, open, close, hidden) ==
    LET f[j \in at + 1 .. Len(s) + 2, deep \in 1 .. Len(s)] ==
            IF j > Len(s) THEN Len(s) + 1
            ELSE IF s[j] = "\\" /\ Piece(s, j + 1) \in hidden THEN f[j + 2, deep]
            ELSE IF s[j] = close THEN (IF deep = 1 THEN j ELSE f[j + 1, deep - 1])
            ELSE IF s[j] = open THEN f[j + 1, deep + 1] ELSE f[j + 1, deep]
        end == f[at + 1, 1]
        raw == SubSeq(s, at + 1, end - 1)
    IN [open |-> open, close |-> close, ok |-> end <= Len(s), to |-> end + 1,
        raw |-> IF open = close THEN Stripped(raw, hidden) ELSE raw]
Delimited(s, at, open, close) ==
    DelimitedIn(s, at, open, close,
                IF open = "\\" THEN {} ELSE IF open = close THEN {close} ELSE {"\\", open, close})
DelimitedAt(s, at) == Delimited(s, at, Piece(s, at), find_matching_delim(Piece(s, at)))
read_delimited_string_term(s, i) == DelimitedAt(s, DelimAt(s, i, FALSE))
FlagWords == {"g", "i", "e"}
FlagsEnd(s, i) == IF Piece(s, i) \in FlagWords THEN i + 1 ELSE i
Flags(s, i) == SubSeq(s, i, FlagsEnd(s, i) - 1)

Quoted(d, at) ==
    [tok |-> T("StringLit", IF d.open = d.close THEN d.raw ELSE Stripped(d.raw, {d.open, d.close, "\\"})),
     at |-> Moved(at, d.to)]
read_q_string(s, at, i) == Quoted(read_delimited_string_term(s, i), at)
QqRead(m, to) == [tok |-> Interpolated(process_escapes(m.val, FALSE)), at |-> Moved(m.at, to)]
QqOf(d, at, slot) == QqRead(Marked(d.raw, at, slot, FALSE), d.to)
read_qq_string_at(s, at, i, slot) == QqOf(read_delimited_string_term(s, i), at, slot)
Words(d, at) ==
    [tok |-> T("QW", SelectSeq(Stripped(d.raw, {"\\", d.open, d.close}), LAMBDA c : c \notin Blanks)),
     at |-> Moved(at, d.to)]
read_qw(s, at, i) == Words(read_delimited_string_term(s, i), at)
\* qr and m; between single quotes nothing is interpolated.
Neutral(raw, j) ==
    IF raw[j] \in Sigils /\ (IsWord(Piece(raw, j + 1)) \/ Piece(raw, j + 1) = "{")
    THEN <<"\\", raw[j]>> ELSE <<raw[j]>>
Pattern(raw, open) == IF open = "'" THEN FlattenSeq([j \in DOMAIN raw |-> Neutral(raw, j)]) ELSE raw
QrOf(s, d, at, kind) ==
    [tok |-> T(kind, <<Pattern(d.raw, d.open), Flags(s, d.to)>>),
     at |-> LET end == Moved(at, FlagsEnd(s, d.to)) IN IF d.ok THEN end ELSE Failed(end, "pattern")]
read_qr(s, at, i, kind) == QrOf(s, read_delimited_string_term(s, i), at, kind)
\* /.../, the text beginning at i.
read_regex(s, at, i) ==
    LET f[j \in i .. Len(s) + 2] ==
            IF j > Len(s) THEN Len(s) + 1
            ELSE IF s[j] = "/" THEN j ELSE IF s[j] = "\\" THEN f[j + 2] ELSE f[j + 1]
        end == Moved(at, FlagsEnd(s, f[i] + 1))
    IN [tok |-> T("RegexLit", <<SubSeq(s, i, f[i] - 1), Flags(s, f[i] + 1)>>),
        at |-> IF f[i] <= Len(s) THEN end ELSE Failed(end, "pattern")]

\* One part of s/// or tr///: no backslash hides the delimiter, headers become marks, and the end
\* of a line in the replacement brings the bodies of all heredocs so far.
PutBody(val, b) ==
    IF b.h.target = "Token" THEN val
    ELSE Spliced(val, b.h.mark, heredoc_body_as_perl_literal(b.body, b.h.interp))
RECURSIVE SubstPart(_, _, _, _, _)
Drained(s, got, val, deep, part) == SubstPart(s, got.at, FoldLeft(PutBody, val, got.read), deep, part)
Declared(s, at, h, val, deep, part) ==
    SubstPart(s, Queued(Moved(at, h.to), h, part.target, part.slot), Append(val, Marker(at.n + 1)), deep, part)
SubstPart(s, at, val, deep, part) ==
    LET c == Piece(s, at.pos)
        plain == c # part.open /\ c # part.close
    IN IF at.pos > Len(s) THEN [at |-> at, val |-> val, ok |-> FALSE]
       ELSE IF c = part.close /\ deep = 1 THEN [at |-> Moved(at, at.pos + 1), val |-> val, ok |-> TRUE]
       ELSE IF plain /\ c = "\n" /\ part.target = "SubstReplMarker"
            THEN Drained(s, Bodies(s, Moved(at, at.pos + 1), FALSE), Append(val, c), deep, part)
       ELSE IF plain /\ try_parse_heredoc_header(s, at.pos)
            THEN Declared(s, at, Header(s, at.pos, Quotes2), val, deep, part)
       ELSE SubstPart(s, Moved(at, at.pos + 1), Append(val, c),
                      IF c = part.close THEN deep - 1 ELSE IF c = part.open THEN deep + 1 ELSE deep, part)
PartFrom(s, at, i, open, target, slot) ==
    SubstPart(s, Moved(at, i), <<>>, 1,
              [open |-> open, close |-> find_matching_delim(open), target |-> target, slot |-> slot])
\* Behind the blanks, comments and line ends from i on.
RECURSIVE Gap(_, _)
Gap(s, i) == LET k == Past(s, i, Blanks) IN
             IF Piece(s, k) = "#" THEN Gap(s, Upto(s, k, {"\n"})) ELSE k
Subst(kind, pat, repl, flags, at) == [tok |-> T(kind, <<pat, repl, flags>>), at |-> at]
ReplRead(s, kind, pat, repl) ==
    IF ~repl.ok /\ repl.at.err = None
    THEN Subst(kind, pat.val, repl.val, <<>>, Failed(repl.at, "substitution replacement"))
    ELSE Subst(kind, pat.val, repl.val, Flags(s, repl.at.pos), Moved(repl.at, FlagsEnd(s, repl.at.pos)))
\* Paired delimiters have a second pair for the replacement.
ReplFrom(s, pat, open, next, slot) ==
    IF open = find_matching_delim(open) THEN PartFrom(s, pat.at, pat.at.pos, open, "SubstReplMarker", slot)
    ELSE PartFrom(s, pat.at, next + 1, Piece(s, next), "SubstReplMarker", slot)
PatRead(s, kind, pat, open, slot) ==
    IF ~pat.ok /\ pat.at.err = None
    THEN Subst(kind, pat.val, <<>>, <<>>, Failed(pat.at, "substitution pattern"))
    ELSE ReplRead(s, kind, pat, ReplFrom(s, pat, open, Gap(s, pat.at.pos), slot))
SubstAt(s, at, from, slot, kind) ==
    PatRead(s, kind, PartFrom(s, at, from + 1, Piece(s, from), "SubstPatMarker", slot), Piece(s, from), slot)
read_substitution(s, at, i, slot, kind) == SubstAt(s, at, DelimAt(s, i, TRUE), slot, kind)
\* \N{NAME}, neither a count nor a code point.
pattern_uses_named_char(pat) ==
    \E i \in DOMAIN pat :
        /\ pat[i] = "\\" /\ Piece(pat, i + 1) = "N" /\ Piece(pat, i + 2) = "{"
        /\ LET close == Upto(pat, i + 3, {"}"})
               name == SelectSeq(SubSeq(pat, i + 3, close - 1), LAMBDA c : c \notin Blanks)
           IN /\ close <= Len(pat) /\ name # <<>> /\ ~IsPrefix(<<"U", "+">>, name)
              /\ \E j \in DOMAIN name : name[j] \notin Digits \cup {","}
\* tr and y: heredocs have no token to go to, and names of characters are not known.
Transliterated(r) ==
    IF r.at.err = None /\ pattern_uses_named_char(r.tok.val[1])
    THEN [r EXCEPT !.at = Failed(@, "named character")] ELSE r
read_transliterate(s, at, i) == Transliterated(read_substitution(s, at, i, 0, "Transliterate"))
=============================================================================
