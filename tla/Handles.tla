------------------------------ MODULE Handles ------------------------------
(***************************************************************************)
(* File handles.  A handle is a name, looked up in four tables: readers    *)
(* and writers of files, each with its buffer, and readers and writers of  *)
(* a scalar ("in-memory" handles).  `*F = *G` makes a name stand for       *)
(* another; `local *F`, `local *F = *G` and `local $.` are undone when the *)
(* block ends.  A position is a number of records, and a record is what    *)
(* one readline returns under the `$/` in force; the buffers are those of  *)
(* std's BufReader and BufWriter.                                          *)
(***************************************************************************)
EXTENDS Integers, Sequences, FiniteSets, SequencesExt, FiniteSetsExt

CONSTANTS Names,      \* handle names
          Files, Scalars, Records,
          None,
          Hole,       \* what a write beyond the end of a file leaves before it
          MaxDepth, MaxOps,
          MaxSize,    \* records a file has at the start
          Ops         \* the operations user code uses

ASSUME HandlesAssumption ==
    /\ None \notin Names \cup Files \cup Scalars /\ Hole \notin Records
    /\ MaxDepth \in Nat \ {0} /\ MaxOps \in Nat /\ MaxSize \in Nat /\ IsFiniteSet(Names)

VARIABLES io,      \* the interpreter's tables and the world, see IO
          ops,
          reading, \* history: what each handle has read since it was opened or sought
          sent,    \* history: what was printed to each file since it was truncated
          entered  \* history: what each block found

vars == <<io, ops, reading, sent, entered>>

Text == Seq(Records \cup {Hole})
Reader == [file : Files \cup {None}, buf : Text, off : Nat]
Writer == [file : Files \cup {None}, buf : Seq(Records), off : Nat, append : BOOLEAN]
StringReader == [of : Scalars \cup {None}, pos : Nat]
NoReader == [file |-> None, buf |-> <<>>, off |-> 0]
NoWriter == [file |-> None, buf |-> <<>>, off |-> 0, append |-> FALSE]
NoString == [of |-> None, pos |-> 0]
Block == [alias : Seq([n : Names, old : Names \cup {None}]), dot : Seq(Names \cup {None}),
          globs : SUBSET Names]
NoSaves == [alias |-> <<>>, dot |-> <<>>, globs |-> {}]

(* readers, writers, strings, sinks: read_handles, write_handles, string_read_handles,
   string_write_handles; alias: fh_aliases; hidden: localized_globs; counts:
   fh_line_counts; last: last_read_fh; out: what went to the process's own output. *)
IO == [disk : [Files -> Text], mem : [Scalars -> Seq(Records)],
       readers : [Names -> Reader], writers : [Names -> Writer],
       strings : [Names -> StringReader], sinks : [Names -> Scalars \cup {None}],
       alias : [Names -> Names \cup {None}], hidden : SUBSET Names,
       counts : [Names -> Nat], last : Names \cup {None}, out : Seq(Records),
       blocks : Seq(Block)]
Log == [from : Nat, got : Text, sure : BOOLEAN]
NoLog == [from |-> 0, got |-> <<>>, sure |-> FALSE]

Init ==
    /\ \E disk \in [Files -> SeqOf(Records, MaxSize)] :
       io = [disk |-> disk, mem |-> [s \in Scalars |-> <<>>],
             readers |-> [n \in Names |-> NoReader], writers |-> [n \in Names |-> NoWriter],
             strings |-> [n \in Names |-> NoString], sinks |-> [n \in Names |-> None],
             alias |-> [n \in Names |-> None], hidden |-> {},
             counts |-> [n \in Names |-> 0], last |-> None, out |-> <<>>,
             blocks |-> <<NoSaves>>]
    /\ ops = MaxOps
    /\ reading = [n \in Names |-> NoLog]
    /\ sent = [f \in Files |-> [text |-> <<>>, sure |-> FALSE]]
    /\ entered = <<>>
-----------------------------------------------------------------------------
Resolve(m, n) == IF m.alias[n] # None THEN m.alias[n] ELSE n

(***************************************************************************)
(* Writing.                                                                *)
(***************************************************************************)
Overwrite(text, off, new) ==
    IF new = <<>> THEN text
    ELSE [i \in 1 .. Max({Len(text), off + Len(new)}) |->
             IF i \in off + 1 .. off + Len(new) THEN new[i - off]
             ELSE IF i <= Len(text) THEN text[i] ELSE Hole]

Flush(m, h) ==
    LET w == m.writers[h]
        at == IF w.append /\ w.buf # <<>> THEN Len(m.disk[w.file]) ELSE w.off
    IN IF w.file = None THEN m
       ELSE [m EXCEPT !.disk[w.file] = Overwrite(@, at, w.buf),
                      !.writers[h].buf = <<>>, !.writers[h].off = at + Len(w.buf)]

\* Where text for a name goes: a writer, a scalar, or else the process's own output,
\* whether the name is closed, open for reading or unknown.  A full buffer is written
\* out first.
WriteTo(m, n, r, full) ==
    LET h == Resolve(m, n)
        to == IF full THEN Flush(m, h) ELSE m
    IN CASE n \in m.hidden -> m
         [] n \notin m.hidden /\ m.writers[h].file # None ->
               [to EXCEPT !.writers[h].buf = Append(@, r)]
         [] n \notin m.hidden /\ m.writers[h].file = None /\ m.sinks[h] # None ->
               [m EXCEPT !.mem[m.sinks[h]] = Append(@, r)]
         [] OTHER -> [m EXCEPT !.out = Append(@, r)]
-----------------------------------------------------------------------------
(***************************************************************************)
(* Reading.                                                                *)
(***************************************************************************)
Rest(text, off) == SubSeq(text, off + 1, Len(text))

\* An empty buffer is filled with what the file holds by now.
Fill(m, h) ==
    LET r == m.readers[h]
    IN IF r.file = None \/ r.buf # <<>> THEN m
       ELSE [m EXCEPT !.readers[h].buf = Rest(m.disk[r.file], r.off),
                      !.readers[h].off = Max({r.off, Len(m.disk[r.file])})]

\* Undefined `$/`: all that is left, the buffer and the rest of the file.  (Faulty
\* variant: the buffer stays.)
SlurpKeepsBuffer(m, h) ==
    LET r == m.readers[h]
    IN [m |-> [m EXCEPT !.readers[h].off = Max({@, Len(m.disk[r.file])})],
        got |-> r.buf \o Rest(m.disk[r.file], r.off)]
Slurp(m, h) ==
    LET r == m.readers[h]
    IN [m |-> [m EXCEPT !.readers[h].off = Max({@, Len(m.disk[r.file])}),
                        !.readers[h].buf = <<>>],
        got |-> r.buf \o Rest(m.disk[r.file], r.off)]

Pull(m, h, n) ==
    LET full == Fill(m, h)
        got == SubSeq(full.readers[h].buf, 1, Min({n, Len(full.readers[h].buf)}))
    IN [m |-> [full EXCEPT !.readers[h].buf = Rest(@, Len(got))], got |-> got]

PullString(m, h, n) ==
    LET got == SubSeq(Rest(m.mem[m.strings[h].of], m.strings[h].pos), 1, n)
        rest == Rest(m.mem[m.strings[h].of], m.strings[h].pos)
        some == IF n < Len(rest) THEN got ELSE rest
    IN [m |-> [m EXCEPT !.strings[h].pos = @ + Len(some)], got |-> some]

\* A scalar is read before a file of the same name.
Take(m, h, n) ==
    CASE m.strings[h].of # None -> PullString(m, h, n)
      [] m.strings[h].of = None /\ m.readers[h].file # None -> Pull(m, h, n)
      [] OTHER -> [m |-> m, got |-> <<>>]
TakeAll(m, h) ==
    CASE m.strings[h].of # None -> PullString(m, h, Len(m.mem[m.strings[h].of]))
      [] m.strings[h].of = None /\ m.readers[h].file # None -> Slurp(m, h)
      [] OTHER -> [m |-> m, got |-> <<>>]

\* readline: `$.` counts the reads that returned something.
Counted(h, res) ==
    [res EXCEPT !.m.last = h, !.m.counts[h] = IF res.got = <<>> THEN @ ELSE @ + 1]
ReadLine(m, h) == Counted(h, Take(m, h, 1))
ReadAll(m, h) == Counted(h, TakeAll(m, h))

Eof(m, h) == [Fill(m, h) EXCEPT !.last = h]
Tell(m, h) == [IF m.readers[h].file # None THEN m ELSE Flush(m, h) EXCEPT !.last = h]

\* A reader forgets its buffer, a writer writes it out; scalars are not sought.
Seek(m, h, pos) ==
    CASE m.readers[h].file # None ->
            [m EXCEPT !.last = h, !.readers[h] = [@ EXCEPT !.buf = <<>>, !.off = pos]]
      [] m.readers[h].file = None /\ m.writers[h].file # None ->
            [Flush(m, h) EXCEPT !.last = h, !.writers[h].off = pos]
      [] OTHER -> [m EXCEPT !.last = h]
-----------------------------------------------------------------------------
(***************************************************************************)
(* Opening and closing.                                                    *)
(***************************************************************************)
OpenRead(m, h, f) == [m EXCEPT !.readers[h] = [NoReader EXCEPT !.file = f]]

\* The file is truncated first; the handle's former writer, if any, is written out when
\* the new one takes its place.
OpenWrite(m, h, f) ==
    LET truncated == [m EXCEPT !.disk[f] = <<>>]
    IN [Flush(truncated, h) EXCEPT !.writers[h] = [NoWriter EXCEPT !.file = f]]
OpenAppend(m, h, f) ==
    [Flush(m, h) EXCEPT !.writers[h] = [NoWriter EXCEPT !.file = f, !.append = TRUE,
                                                        !.off = Len(m.disk[f])]]
OpenString(m, h, s) == [m EXCEPT !.strings[h] = [of |-> s, pos |-> 0]]
OpenSink(m, h, s, truncate) ==
    [m EXCEPT !.mem[s] = IF truncate THEN <<>> ELSE @, !.sinks[h] = s]

\* (Faulty variant: the buffer is dropped.)
CloseDropsBuffer(m, h) ==
    [m EXCEPT !.writers[h] = NoWriter, !.readers[h] = NoReader,
              !.strings[h] = NoString, !.sinks[h] = None]
Close(m, h) ==
    [Flush(m, h) EXCEPT !.writers[h] = NoWriter, !.readers[h] = NoReader,
                        !.strings[h] = NoString, !.sinks[h] = None]
-----------------------------------------------------------------------------
(***************************************************************************)
(* Names and blocks.                                                       *)
(***************************************************************************)
Top(m) == Len(m.blocks)
Alias(m, n, target) == [m EXCEPT !.alias[n] = target]
LocalAlias(m, n, target) ==
    [m EXCEPT !.alias[n] = target, !.blocks[Top(m)].alias = Append(@, [n |-> n, old |-> m.alias[n]])]
LocalGlob(m, n) ==
    [LocalAlias(m, n, None) EXCEPT
        !.hidden = @ \cup {n}, !.blocks[Top(m)].globs = @ \cup ({n} \ m.hidden)]
\* local $., local $. = n: the assignment sets the counter of the handle last read.
LocalDot(m) == [m EXCEPT !.blocks[Top(m)].dot = Append(@, m.last)]
SetDot(m, n) == IF m.last = None THEN m ELSE [m EXCEPT !.counts[m.last] = n]

\* A step for each member of a list, one after another.
InTurn(Step(_, _), m, members) ==
    LET after[i \in 0 .. Len(members)] == IF i = 0 THEN m ELSE Step(after[i - 1], members[i])
    IN after[Len(members)]

\* The last save is undone first.  (Faulty variant: last.)
UndoInOrder(saves) == saves
Undo(saves) == Reverse(saves)
RestoreAlias(m, save) == [m EXCEPT !.alias[save.n] = save.old]
CloseBlock(m) ==
    LET top == Last(m.blocks)
        back == InTurn(RestoreAlias, m, Undo(top.alias))
        lasts == <<m.last>> \o Undo(top.dot)
    IN [back EXCEPT !.last = Last(lasts), !.hidden = @ \ top.globs, !.blocks = Front(@)]
-----------------------------------------------------------------------------
(***************************************************************************)
(* The program.                                                            *)
(***************************************************************************)
Tables(m, h) ==
    {t \in {"reader", "writer", "string", "sink"} :
        None # CASE t = "reader" -> m.readers[h].file [] t = "writer" -> m.writers[h].file
                 [] t = "string" -> m.strings[h].of [] t = "sink" -> m.sinks[h]}
Source(m, h) ==
    CASE m.strings[h].of # None -> m.mem[m.strings[h].of]
      [] m.strings[h].of = None /\ m.readers[h].file # None -> m.disk[m.readers[h].file]
      [] OTHER -> <<>>
Writing(m, f) == {h \in Names : m.writers[h].file = f}

\* Logs go on as long as what they were read from only grows.
Kept(m, logs) ==
    [h \in Names |-> IF /\ logs[h].sure /\ Tables(m, h) \in {{"reader"}, {"string"}}
                        /\ IsPrefix(Source(io, h), Source(m, h))
                     THEN logs[h] ELSE NoLog]
Fresh(m, h, from) == [NoLog EXCEPT !.from = from,
                                   !.sure = Tables(m, h) \in {{"reader"}, {"string"}}]

\* What the names stand for; nothing to compare with once `*F = *G` was used.
Look(m) == [alias |-> m.alias, hidden |-> m.hidden, sure |-> TRUE]
NoLook == [alias |-> <<>>, hidden |-> {}, sure |-> FALSE]

\* An operation that leads to m, with the history it makes.
Becomes(op, m, logs, texts) ==
    /\ op \in Ops /\ ops > 0
    /\ io' = m /\ ops' = ops - 1 /\ reading' = Kept(m, logs) /\ sent' = texts
    /\ entered' = IF op = "alias" THEN [d \in DOMAIN entered |-> NoLook] ELSE entered

Reads(op, n, res) ==
    LET h == Resolve(io, n)
    IN Becomes(op, res.m,
               [reading EXCEPT ![h].got = IF reading[h].sure THEN @ \o res.got ELSE @], sent)

Printed(n, r) ==
    LET f == io.writers[Resolve(io, n)].file
    IN IF f = None \/ n \in io.hidden THEN sent ELSE [sent EXCEPT ![f].text = Append(@, r)]

Opened(m, n) == [reading EXCEPT ![Resolve(io, n)] = Fresh(m, Resolve(io, n), 0)]

Input ==
    \E n \in Names :
       LET h == Resolve(io, n)
       IN \/ Reads("readline", n, ReadLine(io, h))
          \/ Reads("slurp", n, ReadAll(io, h))
          \/ Reads("read", n, Take(io, h, 2))
          \/ Becomes("eof", Eof(io, h), reading, sent)

Output ==
    \E n \in Names, r \in Records, full \in BOOLEAN :
       Becomes("print", WriteTo(io, n, r, full), reading, Printed(n, r))

Position ==
    \E n \in Names :
       LET h == Resolve(io, n)
       IN \/ Becomes("tell", Tell(io, h), reading, sent)
          \/ \E pos \in 0 .. 2 :
                Becomes("seek", Seek(io, h, pos),
                        IF io.readers[h].file # None
                        THEN [reading EXCEPT ![h] = Fresh(io, h, pos)] ELSE reading,
                        IF io.writers[h].file # None
                        THEN [sent EXCEPT ![io.writers[h].file].sure = FALSE] ELSE sent)

Open ==
    \E n \in Names :
       LET h == Resolve(io, n)
       IN \/ \E f \in Files :
                \/ LET m == OpenRead(io, h, f) IN Becomes("openread", m, Opened(m, n), sent)
                \/ LET m == OpenWrite(io, h, f)
                   IN Becomes("openwrite", m, Opened(m, n),
                              [sent EXCEPT ![f] = [text |-> <<>>, sure |-> Writing(io, f) = {}]])
                \/ LET m == OpenAppend(io, h, f)
                   IN Becomes("openappend", m, Opened(m, n),
                              [sent EXCEPT ![f] = IF Writing(io, f) = {}
                                                  THEN [text |-> io.disk[f], sure |-> TRUE]
                                                  ELSE [@ EXCEPT !.sure = FALSE]])
          \/ \E s \in Scalars :
                \/ LET m == OpenString(io, h, s) IN Becomes("openstring", m, Opened(m, n), sent)
                \/ \E truncate \in BOOLEAN :
                      LET m == OpenSink(io, h, s, truncate)
                      IN Becomes("opensink", m, Opened(m, n), sent)
          \/ Becomes("close", Close(io, h), reading, sent)

Naming ==
    \/ \E n \in Names, target \in Names :
          \/ Becomes("alias", Alias(io, n, target), reading, sent)
          \/ Top(io) > 1 /\ Becomes("local", LocalAlias(io, n, target), reading, sent)
    \/ \E n \in Names : Top(io) > 1 /\ Becomes("local", LocalGlob(io, n), reading, sent)
    \/ Top(io) > 1 /\ Becomes("localdot", LocalDot(io), reading, sent)
    \/ \E k \in {0, 2} : Becomes("setdot", SetDot(io, k), reading, sent)

OpenBlock ==
    /\ Top(io) < MaxDepth /\ ops > 0 /\ "local" \in Ops
    /\ io' = [io EXCEPT !.blocks = Append(@, NoSaves)]
    /\ entered' = Append(entered, Look(io))
    /\ ops' = ops - 1 /\ UNCHANGED <<reading, sent>>

EndBlock ==
    /\ Top(io) > 1
    /\ io' = CloseBlock(io)
    /\ entered' = Front(entered)
    /\ UNCHANGED <<ops, reading, sent>>

\* When the program is over the writers that are still open are written out.
Exit ==
    /\ ops = 0 /\ Top(io) = 1
    /\ \E left \in SetToSeqs(Names) : io' = InTurn(Close, io, left)
    /\ reading' = [h \in Names |-> NoLog]
    /\ UNCHANGED <<ops, sent, entered>>

Next == Input \/ Output \/ Position \/ Open \/ Naming \/ OpenBlock \/ EndBlock \/ Exit
Spec == Init /\ [][Next]_vars
-----------------------------------------------------------------------------
\* A handle that is open in one table gives the records of its file or scalar in their
\* order, none twice and none left out, from where it was opened or sought, however
\* readline, slurp, read, eof and tell follow each other, while others append.
ReadsInOrder ==
    \A h \in Names :
       LET log == reading[h]
       IN log.sure => IsPrefix(log.got, Rest(Source(io, h), log.from))

\* A file that one handle at a time writes holds what was printed to it since it was
\* opened, in that order, but for what is still in the writer's buffer: re-opening the
\* handle on something else, closing it and the end of the program lose nothing.
Delivered ==
    \A f \in Files : sent[f].sure =>
        \/ Writing(io, f) = {} /\ sent[f].text = io.disk[f]
        \/ \E h \in Names : /\ Writing(io, f) = {h}
                           /\ sent[f].text = io.disk[f] \o io.writers[h].buf

\* A block that localizes globs and `$.`, in any order and as often as it likes, leaves
\* every name standing for what it stood for, and the handle last read as it was when
\* the block first localized `$.`.
SameLook == Last(entered).sure => Look(io') = Last(entered)
SameLast == Last(io.blocks).dot # <<>> => io'.last = Head(Last(io.blocks).dot)
BlocksRestore == [][Top(io') < Top(io) => SameLook /\ SameLast]_vars

=============================================================================
