----------------------------- MODULE HandlesProofs -----------------------------
(***************************************************************************)
(* What Handles promises, for every set of names, files, scalars and       *)
(* records: what is read is in order, what is printed is delivered, and a  *)
(* block leaves the names and the handle last read as it found them.       *)
(*                                                                         *)
(* The invariant HandlesInv has one part for each.  Of a log (Follows): it *)
(* and what waits in the handle's buffer are the text from where the log   *)
(* began up to where the handle stands, which a reader's promise does not  *)
(* say.  Of a file (Held): no handle writes it and it holds all that was   *)
(* printed, or one handle does, which appends or stands at the file's end, *)
(* and its buffer has the rest; without the place, writing the buffer out  *)
(* could overwrite.  Of the open blocks (Chain): undoing a block's saves,  *)
(* the last first, leads to what it found, for every open block at once.   *)
(***************************************************************************)
EXTENDS Handles, SequenceLemmas, FiniteSetTheorems

\* What reading, writing and naming each leave alone.
SameReading(m, n) == n.readers = m.readers /\ n.strings = m.strings
SameWriting(m, n) == n.disk = m.disk /\ n.writers = m.writers
SameNaming(m, n) == n.alias = m.alias /\ n.hidden = m.hidden /\ n.blocks = m.blocks

-----------------------------------------------------------------------------
\* The parts of the interpreter's tables.
LEMMA Parts ==
    ASSUME NEW m \in IO
    PROVE  /\ m.disk \in [Files -> Text] /\ m.mem \in [Scalars -> Seq(Records)]
           /\ m.readers \in [Names -> Reader] /\ m.writers \in [Names -> Writer]
           /\ m.strings \in [Names -> StringReader] /\ m.sinks \in [Names -> Scalars \cup {None}]
           /\ m.alias \in [Names -> Names \cup {None}] /\ m.hidden \in SUBSET Names
           /\ m.counts \in [Names -> Nat] /\ m.last \in Names \cup {None}
           /\ m.out \in Seq(Records) /\ m.blocks \in Seq(Block)
BY DEF IO

\* The parts of a writer.
LEMMA WriterParts ==
    ASSUME NEW m \in IO, NEW h \in Names
    PROVE  /\ m.writers[h] \in Writer /\ m.writers[h].file \in Files \cup {None}
           /\ m.writers[h].buf \in Seq(Records) /\ m.writers[h].off \in Nat
           /\ m.writers[h].append \in BOOLEAN
<1>1. m.writers[h] \in Writer
  BY Parts
<1> QED BY <1>1 DEF Writer

\* The parts of a reader.
LEMMA ReaderParts ==
    ASSUME NEW m \in IO, NEW h \in Names
    PROVE  /\ m.readers[h] \in Reader /\ m.readers[h].file \in Files \cup {None}
           /\ m.readers[h].buf \in Text /\ m.readers[h].off \in Nat
           /\ m.strings[h] \in StringReader /\ m.strings[h].of \in Scalars \cup {None}
           /\ m.strings[h].pos \in Nat
<1>1. m.readers[h] \in Reader /\ m.strings[h] \in StringReader
  BY Parts
<1> QED BY <1>1 DEF Reader, StringReader

\* None names nothing.
LEMMA NamesDiffer ==
    None \notin Names /\ None \notin Files /\ None \notin Scalars
BY HandlesAssumption

\* The larger and the smaller of two.
LEMMA OfTwo ==
    ASSUME NEW a \in Nat, NEW b \in Nat
    PROVE  /\ Max({a, b}) = IF a >= b THEN a ELSE b
           /\ Min({a, b}) = IF a <= b THEN a ELSE b
<1>1. Max({a, b}) = CHOOSE x \in {a, b} : \A y \in {a, b} : x >= y
  BY DEF Max
<1>2. Min({a, b}) = CHOOSE x \in {a, b} : \A y \in {a, b} : x =< y
  BY DEF Min
<1>3. CASE a >= b
  <2>1. \A x \in {a, b} : (\A y \in {a, b} : x >= y) <=> x = a
    BY <1>3
  <2>2. \A x \in {a, b} : (\A y \in {a, b} : x =< y) <=> x = b
    BY <1>3
  <2>3. Max({a, b}) = a
    BY <1>1, <2>1
  <2>4. Min({a, b}) = b
    BY <1>2, <2>2
  <2> QED BY <1>3, <2>3, <2>4
<1>4. CASE ~ (a >= b)
  <2>1. \A x \in {a, b} : (\A y \in {a, b} : x >= y) <=> x = b
    BY <1>4
  <2>2. \A x \in {a, b} : (\A y \in {a, b} : x =< y) <=> x = a
    BY <1>4
  <2>3. Max({a, b}) = b
    BY <1>1, <2>1
  <2>4. Min({a, b}) = a
    BY <1>2, <2>2
  <2> QED BY <1>4, <2>3, <2>4
<1> QED BY <1>3, <1>4

\* What a write leaves in a file; at the end of it, it adds.
LEMMA OverwriteTyped ==
    ASSUME NEW text \in Text, NEW off \in Nat, NEW new \in Seq(Records)
    PROVE  /\ Overwrite(text, off, new) \in Text
           /\ off = Len(text) => Overwrite(text, off, new) = text \o new
<1> DEFINE n == Len(text)
           k == Len(new)
           o == Overwrite(text, off, new)
           end == IF n >= off + k THEN n ELSE off + k
<1>1. n \in Nat /\ k \in Nat /\ n + k \in Nat /\ off + k \in Nat /\ end \in Nat
  BY LenProperties DEF Text
<1>2. /\ \A i \in 1 .. n : text[i] \in Records \cup {Hole}
      /\ \A i \in 1 .. k : new[i] \in Records
  BY ElementOfSeq DEF Text
<1>3. CASE new = <<>>
  <2>1. o = text /\ text \o new = text
    BY <1>3, ConcatEmptySeq DEF Overwrite, Text
  <2> QED BY <2>1
<1>4. CASE new # <<>>
  <2> DEFINE e(i) == IF i \in off + 1 .. off + k THEN new[i - off]
                     ELSE IF i <= n THEN text[i] ELSE Hole
  <2>1. Max({n, off + k}) = end
    BY <1>1, OfTwo
  <2>2. o = [i \in 1 .. end |-> e(i)]
    BY <1>4, <2>1 DEF Overwrite
  <2> HIDE DEF n, k, end
  <2>3. \A i \in 1 .. end : e(i) \in Records \cup {Hole}
    <3>1. \A i \in 1 .. end : i \in off + 1 .. off + k => i - off \in 1 .. k
      BY <1>1
    <3>2. \A i \in 1 .. end : i <= n => i \in 1 .. n
      BY <1>1
    <3> QED BY <1>2, <3>1, <3>2
  <2> HIDE DEF e
  <2>4. o \in [1 .. end -> Records \cup {Hole}]
    BY <2>2, <2>3
  <2>5. o \in Text /\ Len(o) = end
    BY <1>1, <2>4 DEF Text
  <2>6. ASSUME off = n PROVE o = text \o new
    <3> DEFINE c == text \o new
    <3>1. /\ c \in Seq(Records \cup {Hole}) /\ Len(c) = n + k
          /\ \A i \in 1 .. n + k : c[i] = IF i <= n THEN text[i] ELSE new[i - n]
      <4>1. text \in Seq(Records \cup {Hole}) /\ new \in Seq(Records \cup {Hole})
        BY DEF Text
      <4> QED BY <4>1, ConcatProperties DEF n, k
    <3> HIDE DEF c
    <3>2. end = n + k
      BY <1>1, <2>6 DEF end
    <3>3. \A i \in 1 .. n + k : e(i) = IF i <= n THEN text[i] ELSE new[i - n]
      BY <1>1, <2>6 DEF e
    <3>4. \A i \in 1 .. n + k : o[i] = c[i]
      BY <2>2, <3>1, <3>2, <3>3
    <3> QED BY <2>5, <3>1, <3>2, <3>4, SeqEqual DEF Text, c
  <2> QED BY <2>5, <2>6 DEF n
<1> QED BY <1>3, <1>4

-----------------------------------------------------------------------------
\* A writer's buffer is written out.
LEMMA Flushed ==
    ASSUME NEW m \in IO, NEW h \in Names
    PROVE  LET n == Flush(m, h)
               w == m.writers[h]
               at == IF w.append /\ w.buf # <<>> THEN Len(m.disk[w.file]) ELSE w.off
           IN /\ n \in IO /\ SameReading(m, n) /\ SameNaming(m, n)
              /\ n.mem = m.mem /\ n.sinks = m.sinks /\ n.last = m.last
              /\ w.file = None => n = m
              /\ w.file # None =>
                    /\ n.writers = [m.writers EXCEPT ![h] = [w EXCEPT !.buf = <<>>,
                                                                      !.off = at + Len(w.buf)]]
                    /\ n.disk = [m.disk EXCEPT ![w.file] = Overwrite(@, at, w.buf)]
<1> DEFINE n == Flush(m, h)
           w == m.writers[h]
           f == w.file
           at == IF w.append /\ w.buf # <<>> THEN Len(m.disk[f]) ELSE w.off
           v == [w EXCEPT !.buf = <<>>, !.off = at + Len(w.buf)]
           D == [m.disk EXCEPT ![f] = Overwrite(@, at, w.buf)]
           W == [m.writers EXCEPT ![h] = v]
<1>1. CASE f = None
  <2>1. n = m
    BY <1>1 DEF Flush
  <2>2. SameReading(m, n) /\ SameNaming(m, n)
    BY <2>1 DEF SameReading, SameNaming
  <2>3. n \in IO /\ n.mem = m.mem /\ n.sinks = m.sinks /\ n.last = m.last
    <3> HIDE DEF n
    <3> QED BY <2>1
  <2> QED BY <1>1, <2>1, <2>2, <2>3, Zenon
<1>2. CASE f # None
  <2>1. w \in Writer /\ f \in Files /\ w.buf \in Seq(Records) /\ w.off \in Nat
    BY <1>2, WriterParts
  <2>2. m.disk[f] \in Text
    BY <2>1, Parts
  <2>3. at \in Nat /\ at + Len(w.buf) \in Nat
    <3>1. Len(m.disk[f]) \in Nat /\ Len(w.buf) \in Nat
      BY <2>1, <2>2, LenProperties DEF Text
    <3>2. at = Len(m.disk[f]) \/ at = w.off
      OBVIOUS
    <3> HIDE DEF at, w, f
    <3> QED BY <2>1, <3>1, <3>2
  <2>4. n = [m EXCEPT !.disk = D, !.writers = W]
    <3>1. n = [m EXCEPT !.disk[f] = Overwrite(@, at, w.buf), !.writers[h].buf = <<>>,
                        !.writers[h].off = at + Len(w.buf)]
      BY <1>2 DEF Flush
    <3>2. m.writers \in [Names -> Writer] /\ m.disk \in [Files -> Text]
      BY Parts
    <3> HIDE DEF at, n
    <3>3. W = [m.writers EXCEPT ![h].buf = <<>>, ![h].off = at + Len(w.buf)]
      BY <2>1, <3>2 DEF Writer
    <3>4. n = [m EXCEPT !.disk = D, !.writers = [m.writers EXCEPT ![h].buf = <<>>,
                                                              ![h].off = at + Len(w.buf)]]
      BY <3>1 DEF IO
    <3> QED BY <3>3, <3>4
  <2>5. Overwrite(m.disk[f], at, w.buf) \in Text
    <3> HIDE DEF at
    <3> QED BY <2>1, <2>2, <2>3, OverwriteTyped
  <2>6. v \in Writer
    <3> HIDE DEF at
    <3>1. <<>> \in Seq(Records)
      BY EmptySeq
    <3> QED BY <2>1, <2>3, <3>1 DEF Writer
  <2> HIDE DEF n, v, at
  <2>7. D \in [Files -> Text] /\ W \in [Names -> Writer]
    BY <2>1, <2>5, <2>6, Parts
  <2> HIDE DEF D, W
  <2>8. /\ n \in IO /\ SameReading(m, n) /\ SameNaming(m, n) /\ n.disk = D /\ n.writers = W
        /\ n.mem = m.mem /\ n.sinks = m.sinks /\ n.last = m.last
    BY <2>4, <2>7 DEF IO, SameReading, SameNaming
  <2> QED BY <1>2, <2>8 DEF n, v, at, D, W
<1> QED BY <1>1, <1>2

-----------------------------------------------------------------------------
(***************************************************************************)
(* Writing.  A file that one handle at a time writes, and t is what was    *)
(* printed to it: the writer stands at the end.                            *)
(***************************************************************************)
Holds(m, f, t, h) ==
    /\ \A g \in Names : m.writers[g].file = f <=> g = h
    /\ t = m.disk[f] \o m.writers[h].buf
    /\ m.writers[h].append \/ m.writers[h].off = Len(m.disk[f])
Free(m, f, t) == (\A g \in Names : m.writers[g].file # f) /\ t = m.disk[f]
Held(m, f, t) == Free(m, f, t) \/ \E h \in Names : Holds(m, f, t, h)

\* Delivered, for a file and what was printed to it.
LEMMA HeldMeans ==
    ASSUME NEW m, NEW f, NEW t, Held(m, f, t)
    PROVE  \/ Writing(m, f) = {} /\ t = m.disk[f]
           \/ \E h \in Names : Writing(m, f) = {h} /\ t = m.disk[f] \o m.writers[h].buf
<1>1. CASE Free(m, f, t)
  BY <1>1 DEF Free, Writing
<1>2. CASE \E h \in Names : Holds(m, f, t, h)
  <2>1. PICK h \in Names : Holds(m, f, t, h)
    BY <1>2
  <2>2. Writing(m, f) = {h}
    BY <2>1 DEF Holds, Writing
  <2> QED BY <2>1, <2>2 DEF Holds
<1> QED BY <1>1, <1>2 DEF Held

\* What is done to other files and their writers does not matter.
LEMMA HeldElsewhere ==
    ASSUME NEW m, NEW n, NEW f, NEW t, Held(m, f, t), n.disk[f] = m.disk[f],
           \A g \in Names : m.writers[g].file = f \/ n.writers[g].file = f
                              => n.writers[g] = m.writers[g]
    PROVE  Held(n, f, t)
<1>1. CASE Free(m, f, t)
  BY <1>1 DEF Free, Held
<1>2. CASE \E h \in Names : Holds(m, f, t, h)
  <2>1. PICK h \in Names : Holds(m, f, t, h)
    BY <1>2
  <2>2. m.writers[h].file = f /\ n.writers[h] = m.writers[h]
    BY <2>1 DEF Holds
  <2>3. \A g \in Names : n.writers[g].file = f <=> g = h
    BY <2>1, <2>2 DEF Holds
  <2>4. Holds(n, f, t, h)
    BY <2>1, <2>2, <2>3 DEF Holds
  <2> QED BY <2>4 DEF Held
<1> QED BY <1>1, <1>2 DEF Held

\* Writing a buffer out delivers it.
LEMMA FlushHolds ==
    ASSUME NEW m \in IO, NEW h \in Names, NEW f \in Files, NEW t, Held(m, f, t)
    PROVE  Held(Flush(m, h), f, t)
<1> DEFINE n == Flush(m, h)
           w == m.writers[h]
           at == IF w.append /\ w.buf # <<>> THEN Len(m.disk[w.file]) ELSE w.off
           v == [w EXCEPT !.buf = <<>>, !.off = at + Len(w.buf)]
<1>0. m.writers \in [Names -> Writer] /\ m.disk \in [Files -> Text]
  BY Parts
<1>1. CASE w.file = None
  <2>1. n = m
    BY <1>1, Flushed, ZenonT(60)
  <2> QED BY <2>1, SMTT(30)
<1>2. CASE w.file # None
  <2>1. /\ n.writers = [m.writers EXCEPT ![h] = v]
        /\ n.disk = [m.disk EXCEPT ![w.file] = Overwrite(@, at, w.buf)]
    BY <1>2, Flushed
  <2>2. w \in Writer /\ w.file \in Files /\ w.buf \in Seq(Records) /\ w.off \in Nat
    BY <1>2, WriterParts
  <2>3. v.file = w.file /\ v.buf = <<>> /\ v.off = at + Len(w.buf) /\ v.append = w.append
    <3> HIDE DEF at
    <3> QED BY <2>2 DEF Writer
  <2> HIDE DEF n, v
  <2>4. n.writers[h] = v /\ \A g \in Names : g # h => n.writers[g] = m.writers[g]
    BY <1>0, <2>1
  <2>5. CASE w.file # f
    <3>1. n.disk[f] = m.disk[f]
      <4> HIDE DEF at
      <4> QED BY <1>0, <2>1, <2>5
    <3>2. ASSUME NEW g \in Names, m.writers[g].file = f \/ n.writers[g].file = f
          PROVE  n.writers[g] = m.writers[g]
      BY <2>3, <2>4, <2>5, <3>2
    <3> QED BY <3>1, <3>2, HeldElsewhere DEF n
  <2>6. CASE w.file = f
    <3>1. Holds(m, f, t, h)
      BY <2>6 DEF Held, Free, Holds
    <3> DEFINE d == m.disk[f]
    <3>2. d \in Text /\ Len(d) \in Nat
      BY <1>0, LenProperties DEF Text
    <3>3. CASE w.buf = <<>>
      <4>1. at = w.off /\ Len(w.buf) = 0
        BY <3>3
      <4>2. Overwrite(d, at, w.buf) = d
        BY <3>3 DEF Overwrite
      <4>3. n.disk[f] = d
        <5> HIDE DEF at
        <5> QED BY <1>0, <2>1, <2>6, <4>2
      <4>4. v.off = w.off /\ v.buf = w.buf
        <5> HIDE DEF at
        <5> QED BY <2>2, <2>3, <3>3, <4>1
      <4> HIDE DEF at
      <4>5. Holds(n, f, t, h)
        BY <2>3, <2>4, <3>1, <4>3, <4>4 DEF Holds
      <4> QED BY <4>5 DEF Held, n
    <3>4. CASE w.buf # <<>>
      <4>1. at = Len(d)
        BY <2>6, <3>1, <3>4 DEF Holds
      <4> HIDE DEF at
      <4>2. n.disk[f] = d \o w.buf
        <5>1. Overwrite(d, at, w.buf) = d \o w.buf
          BY <2>2, <3>2, <4>1, OverwriteTyped
        <5> QED BY <1>0, <2>1, <2>6, <5>1
      <4>3. Len(d \o w.buf) = Len(d) + Len(w.buf) /\ d \o w.buf \in Seq(Records \cup {Hole})
        <5>1. d \in Seq(Records \cup {Hole}) /\ w.buf \in Seq(Records \cup {Hole})
          BY <2>2, <3>2 DEF Text
        <5> HIDE DEF d, w
        <5> QED BY <5>1, ConcatProperties
      <4>4. t = n.disk[f] /\ t = n.disk[f] \o v.buf
        <5>1. t = d \o w.buf
          BY <3>1 DEF Holds
        <5>2. (d \o w.buf) \o <<>> = d \o w.buf
          BY <4>3, ConcatEmptySeq
        <5> QED BY <2>3, <4>2, <5>1, <5>2
      <4>5. v.off = Len(n.disk[f])
        BY <2>3, <4>1, <4>2, <4>3
      <4>6. \A g \in Names : n.writers[g].file = f <=> g = h
        BY <2>3, <2>4, <2>6, <3>1 DEF Holds
      <4>7. Holds(n, f, t, h)
        BY <2>4, <4>4, <4>5, <4>6 DEF Holds
      <4> QED BY <4>7 DEF Held, n
    <3> QED BY <3>3, <3>4
  <2> QED BY <2>5, <2>6
<1> QED BY <1>1, <1>2

\* A handle gets another writer, or loses its own, once its buffer is written out.
LEMMA LinkElsewhere ==
    ASSUME NEW m \in IO, NEW h \in Names, NEW x \in Writer, NEW f, NEW t, NEW n, Held(m, f, t),
           x.file # f, m.writers[h].file = f => m.writers[h].buf = <<>>, f \in Files,
           n.writers = [m.writers EXCEPT ![h] = x], n.disk[f] = m.disk[f]
    PROVE  Held(n, f, t)
<1>0. m.writers \in [Names -> Writer]
  BY Parts
<1>1. n.writers[h] = x /\ \A g \in Names : g # h => n.writers[g] = m.writers[g]
  BY <1>0
<1>2. CASE m.writers[h].file # f
  <2>1. ASSUME NEW g \in Names, m.writers[g].file = f \/ n.writers[g].file = f
        PROVE  n.writers[g] = m.writers[g]
    BY <1>1, <1>2, <2>1
  <2> QED BY <2>1, HeldElsewhere
<1>3. CASE m.writers[h].file = f
  <2>1. Holds(m, f, t, h)
    BY <1>3 DEF Held, Free, Holds
  <2>2. m.disk[f] \o <<>> = m.disk[f]
    <3>1. m.disk[f] \in Seq(Records \cup {Hole})
      BY Parts DEF Text
    <3> QED BY <3>1, ConcatEmptySeq
  <2>3. t = n.disk[f]
    BY <1>3, <2>1, <2>2 DEF Holds
  <2>4. \A g \in Names : n.writers[g].file # f
    BY <1>1, <2>1 DEF Holds
  <2> QED BY <2>3, <2>4 DEF Held, Free
<1> QED BY <1>2, <1>3

\* A handle gets the one writer of a file, at the end of what the file holds.
LEMMA LinkFree ==
    ASSUME NEW m \in IO, NEW h \in Names, NEW x \in Writer, NEW f \in Files, NEW n,
           \A g \in Names : m.writers[g].file # f, x.file = f, x.buf = <<>>,
           x.append \/ x.off = Len(n.disk[f]), n.disk \in [Files -> Text],
           n.writers = [m.writers EXCEPT ![h] = x]
    PROVE  Held(n, f, n.disk[f])
<1>0. m.writers \in [Names -> Writer]
  BY Parts
<1>1. n.writers[h] = x /\ \A g \in Names : g # h => n.writers[g] = m.writers[g]
  BY <1>0
<1>2. n.disk[f] \o <<>> = n.disk[f]
  <2>1. n.disk[f] \in Seq(Records \cup {Hole})
    BY DEF Text
  <2> QED BY <2>1, ConcatEmptySeq
<1>3. \A g \in Names : n.writers[g].file = f <=> g = h
  BY <1>1
<1>4. Holds(n, f, n.disk[f], h)
  BY <1>1, <1>2, <1>3 DEF Holds
<1> QED BY <1>4 DEF Held

\* A record is printed to a buffer.
LEMMA PrintHeld ==
    ASSUME NEW m \in IO, NEW h \in Names, NEW r \in Records, NEW f \in Files, NEW t, NEW n,
           Held(m, f, t), m.writers[h].file = f, n.disk = m.disk,
           n.writers = [m.writers EXCEPT ![h] = [m.writers[h] EXCEPT !.buf = Append(m.writers[h].buf, r)]]
    PROVE  Held(n, f, Append(t, r))
<1> DEFINE w == m.writers[h]
           x == [w EXCEPT !.buf = Append(w.buf, r)]
<1>0. m.writers \in [Names -> Writer] /\ w \in Writer /\ w.buf \in Seq(Records)
      /\ m.disk[f] \in Text
  BY Parts, WriterParts
<1>1. x.file = w.file /\ x.append = w.append /\ x.off = w.off /\ x.buf = Append(w.buf, r)
  <2> HIDE DEF w
  <2> QED BY <1>0 DEF Writer
<1>2. n.writers[h] = x /\ \A g \in Names : g # h => n.writers[g] = m.writers[g]
  <2> HIDE DEF x
  <2>1. n.writers = [m.writers EXCEPT ![h] = x]
    BY DEF x
  <2> QED BY <1>0, <2>1
<1>3. Holds(m, f, t, h)
  BY DEF Held, Free, Holds
<1> HIDE DEF x
<1>4. \A g \in Names : n.writers[g].file = f <=> g = h
  BY <1>1, <1>2, <1>3 DEF Holds
<1>5. Append(m.disk[f] \o w.buf, r) = m.disk[f] \o Append(w.buf, r)
  <2> DEFINE d == m.disk[f]
             b == w.buf
             S == Records \cup {Hole}
  <2>1. d \in Seq(S) /\ b \in Seq(S) /\ r \in S
    BY <1>0 DEF Text
  <2> HIDE DEF d, b, S
  <2>2. <<r>> \in Seq(S)
    BY <2>1
  <2>3. d \o b \in Seq(S)
    BY <2>1, ConcatProperties
  <2>4. Append(d \o b, r) = (d \o b) \o <<r>> /\ Append(b, r) = b \o <<r>>
    BY <2>1, <2>3, AppendIsConcat
  <2>5. (d \o b) \o <<r>> = d \o (b \o <<r>>)
    BY <2>1, <2>2, ConcatAssociative
  <2> QED BY <2>4, <2>5 DEF d, b
<1>6. Holds(n, f, Append(t, r), h)
  BY <1>1, <1>2, <1>3, <1>4, <1>5 DEF Holds
<1> QED BY <1>6 DEF Held

\* The buffer is empty then, and the writers write what they wrote.
LEMMA FlushLeaves ==
    ASSUME NEW m \in IO, NEW h \in Names
    PROVE  LET n == Flush(m, h)
           IN /\ n \in IO /\ SameReading(m, n) /\ SameNaming(m, n)
              /\ \A g \in Names : n.writers[g].file = m.writers[g].file
              /\ n.writers[h].file # None => n.writers[h].buf = <<>>
              /\ \A f \in Files : f # m.writers[h].file => n.disk[f] = m.disk[f]
<1> DEFINE n == Flush(m, h)
           w == m.writers[h]
           at == IF w.append /\ w.buf # <<>> THEN Len(m.disk[w.file]) ELSE w.off
           v == [w EXCEPT !.buf = <<>>, !.off = at + Len(w.buf)]
<1>0. m.writers \in [Names -> Writer] /\ m.disk \in [Files -> Text] /\ w \in Writer
  BY Parts, WriterParts, SMTT(30)
<1>1. n \in IO /\ SameReading(m, n) /\ SameNaming(m, n) /\ (w.file = None => n = m)
  BY Flushed, ZenonT(60)
<1>2. w.file # None =>
         /\ n.writers = [m.writers EXCEPT ![h] = v]
         /\ n.disk = [m.disk EXCEPT ![w.file] = Overwrite(@, at, w.buf)]
  BY Flushed
<1>3. v.file = w.file /\ v.buf = <<>>
  <2> HIDE DEF at
  <2> QED BY <1>0 DEF Writer
<1> HIDE DEF n, v, at
<1>4. CASE w.file = None
  <2>1. n = m
    BY <1>1, <1>4
  <2> QED BY <1>1, <1>4, <2>1 DEF n
<1>5. CASE w.file # None
  <2>1. n.writers[h] = v /\ \A g \in Names : g # h => n.writers[g] = m.writers[g]
    BY <1>0, <1>2, <1>5
  <2>2. \A f \in Files : f # w.file => n.disk[f] = m.disk[f]
    BY <1>0, <1>2, <1>5
  <2>3. \A g \in Names : n.writers[g].file = m.writers[g].file
    BY <1>3, <2>1
  <2> QED BY <1>1, <1>3, <2>1, <2>2, <2>3 DEF n
<1> QED BY <1>4, <1>5

\* A handle gets another writer.
LEMMA WriterSet ==
    ASSUME NEW m \in IO, NEW h \in Names, NEW x \in Writer
    PROVE  LET n == [m EXCEPT !.writers[h] = x]
           IN /\ n \in IO /\ SameReading(m, n) /\ SameNaming(m, n)
              /\ n.writers = [m.writers EXCEPT ![h] = x] /\ n.disk = m.disk
<1> DEFINE W == [m.writers EXCEPT ![h] = x]
           n == [m EXCEPT !.writers = W]
<1>1. W \in [Names -> Writer]
  BY Parts
<1> HIDE DEF W
<1>2. n \in IO /\ SameReading(m, n) /\ SameNaming(m, n) /\ n.writers = W /\ n.disk = m.disk
  BY <1>1 DEF IO, SameReading, SameNaming
<1>3. n = [m EXCEPT !.writers[h] = x]
  BY DEF W
<1> QED BY <1>2, <1>3 DEF W

\* What an operation does to the files that others write.
Delivers(m, n, but) ==
    \A f \in Files \ but : \A t : Held(m, f, t) => Held(n, f, t)

\* Flushed, a handle takes another writer.
LEMMA Relinked ==
    ASSUME NEW m \in IO, NEW h \in Names, NEW x \in Writer
    PROVE  LET n == [Flush(m, h) EXCEPT !.writers[h] = x]
           IN /\ n \in IO /\ SameReading(m, n) /\ SameNaming(m, n)
              /\ Delivers(m, n, {x.file}) /\ n.writers[h] = x
              /\ \A f \in Files : f # m.writers[h].file => n.disk[f] = m.disk[f]
              /\ \A f \in Files :
                    /\ \A g \in Names : m.writers[g].file # f
                    /\ x.file = f /\ x.buf = <<>>
                    /\ x.append \/ x.off = Len(m.disk[f])
                    => Held(n, f, m.disk[f])
<1> DEFINE l == Flush(m, h)
           n == [l EXCEPT !.writers[h] = x]
<1>1. /\ l \in IO /\ SameReading(m, l) /\ SameNaming(m, l)
      /\ \A g \in Names : l.writers[g].file = m.writers[g].file
      /\ l.writers[h].file # None => l.writers[h].buf = <<>>
      /\ \A f \in Files : f # m.writers[h].file => l.disk[f] = m.disk[f]
  BY FlushLeaves
<1>2. \A f \in Files : \A t : Held(m, f, t) => Held(l, f, t)
  BY FlushHolds
<1> HIDE DEF l
<1>3. /\ n \in IO /\ SameReading(l, n) /\ SameNaming(l, n)
      /\ n.writers = [l.writers EXCEPT ![h] = x] /\ n.disk = l.disk
  BY <1>1, WriterSet
<1> HIDE DEF n
<1>4. ASSUME NEW f \in Files \ {x.file}, NEW t, Held(m, f, t)
      PROVE  Held(n, f, t)
  <2>1. Held(l, f, t) /\ x.file # f /\ f \in Files /\ f # None
    BY <1>2, <1>4, NamesDiffer
  <2>2. l.writers[h].file = f => l.writers[h].buf = <<>>
    BY <1>1, <2>1
  <2>3. n.disk[f] = l.disk[f]
    BY <1>3
  <2> QED BY <1>1, <1>3, <2>1, <2>2, <2>3, LinkElsewhere
<1>5. ASSUME NEW f \in Files, \A g \in Names : m.writers[g].file # f,
             x.file = f, x.buf = <<>>, x.append \/ x.off = Len(m.disk[f])
      PROVE  Held(n, f, m.disk[f])
  <2>1. \A g \in Names : l.writers[g].file # f
    BY <1>1, <1>5
  <2>2. n.disk[f] = m.disk[f]
    BY <1>1, <1>3, <1>5
  <2>3. n.disk \in [Files -> Text]
    BY <1>3, Parts
  <2>4. x.append \/ x.off = Len(n.disk[f])
    BY <1>5, <2>2
  <2>5. Held(n, f, n.disk[f])
    BY <1>1, <1>3, <1>5, <2>1, <2>3, <2>4, LinkFree
  <2> QED BY <2>2, <2>5
<1>6. SameReading(m, n) /\ SameNaming(m, n)
  BY <1>1, <1>3 DEF SameReading, SameNaming
<1>7. \A f \in Files : f # m.writers[h].file => n.disk[f] = m.disk[f]
  BY <1>1, <1>3
<1>8. Delivers(m, n, {x.file})
  BY <1>4 DEF Delivers
<1>9. \A f \in Files :
         /\ \A g \in Names : m.writers[g].file # f
         /\ x.file = f /\ x.buf = <<>>
         /\ x.append \/ x.off = Len(m.disk[f])
         => Held(n, f, m.disk[f])
  BY <1>5
<1>10. n.writers[h] = x
  BY <1>1, <1>3, Parts
<1> QED BY <1>3, <1>6, <1>7, <1>8, <1>9, <1>10 DEF n, l

\* Writers there can be.
LEMMA NewWriters ==
    /\ NoWriter \in Writer /\ NoWriter.file = None
    /\ \A f \in Files : \A k \in Nat :
          /\ [NoWriter EXCEPT !.file = f] \in Writer
          /\ [NoWriter EXCEPT !.file = f].file = f /\ [NoWriter EXCEPT !.file = f].buf = <<>>
          /\ [NoWriter EXCEPT !.file = f].off = 0
          /\ [NoWriter EXCEPT !.file = f, !.append = TRUE, !.off = k] \in Writer
          /\ [NoWriter EXCEPT !.file = f, !.append = TRUE, !.off = k].file = f
          /\ [NoWriter EXCEPT !.file = f, !.append = TRUE, !.off = k].buf = <<>>
          /\ [NoWriter EXCEPT !.file = f, !.append = TRUE, !.off = k].append
<1>1. <<>> \in Seq(Records)
  BY EmptySeq
<1> QED BY <1>1 DEF NoWriter, Writer

\* open for writing.
LEMMA OpenWriteDone ==
    ASSUME NEW m \in IO, NEW h \in Names, NEW f \in Files
    PROVE  LET n == OpenWrite(m, h, f)
           IN /\ n \in IO /\ SameReading(m, n) /\ SameNaming(m, n) /\ Delivers(m, n, {f})
              /\ n.writers[h].file = f
              /\ (\A g \in Names : m.writers[g].file # f) => Held(n, f, <<>>)
<1> DEFINE D == [m.disk EXCEPT ![f] = <<>>]
           l == [m EXCEPT !.disk = D]
           x == [NoWriter EXCEPT !.file = f]
           n == [Flush(l, h) EXCEPT !.writers[h] = x]
<1>0. OpenWrite(m, h, f) = n
  BY DEF OpenWrite
<1>1. D \in [Files -> Text] /\ D[f] = <<>> /\ \A g \in Files : g # f => D[g] = m.disk[g]
  <2>1. m.disk \in [Files -> Text] /\ <<>> \in Text
    BY Parts, EmptySeq DEF Text
  <2> QED BY <2>1
<1> HIDE DEF D
<1>2. /\ l \in IO /\ SameReading(m, l) /\ SameNaming(m, l) /\ l.disk = D
      /\ l.writers = m.writers
  BY <1>1 DEF IO, SameReading, SameNaming
<1>3. x \in Writer /\ x.file = f /\ x.buf = <<>> /\ x.off = 0
  BY NewWriters
<1> HIDE DEF l, x
<1>4. /\ n \in IO /\ SameReading(l, n) /\ SameNaming(l, n) /\ Delivers(l, n, {x.file})
      /\ n.writers[h] = x
      /\ \A g \in Files :
            /\ \A k \in Names : l.writers[k].file # g
            /\ x.file = g /\ x.buf = <<>>
            /\ x.append \/ x.off = Len(l.disk[g])
            => Held(n, g, l.disk[g])
  BY <1>2, <1>3, Relinked, ZenonT(60)
<1> HIDE DEF n
<1>5. SameReading(m, n) /\ SameNaming(m, n)
  BY <1>2, <1>4 DEF SameReading, SameNaming
<1>6. ASSUME NEW g \in Files \ {f}, NEW t, Held(m, g, t)
      PROVE  Held(n, g, t)
  <2>1. l.disk[g] = m.disk[g] /\ \A k \in Names : l.writers[k] = m.writers[k]
    BY <1>1, <1>2
  <2>2. Held(l, g, t)
    BY <1>6, <2>1, HeldElsewhere
  <2> QED BY <1>3, <1>4, <2>2 DEF Delivers
<1>7. ASSUME \A g \in Names : m.writers[g].file # f
      PROVE  Held(n, f, <<>>)
  <2>1. l.disk[f] = <<>> /\ Len(<<>>) = 0
    BY <1>1, <1>2
  <2>2. \A k \in Names : l.writers[k].file # f
    BY <1>2, <1>7
  <2> QED BY <1>3, <1>4, <2>1, <2>2
<1>8. Delivers(m, n, {f})
  BY <1>6 DEF Delivers
<1> QED BY <1>0, <1>3, <1>4, <1>5, <1>7, <1>8

\* open for appending.
LEMMA OpenAppendDone ==
    ASSUME NEW m \in IO, NEW h \in Names, NEW f \in Files
    PROVE  LET n == OpenAppend(m, h, f)
           IN /\ n \in IO /\ SameReading(m, n) /\ SameNaming(m, n) /\ Delivers(m, n, {f})
              /\ n.writers[h].file = f
              /\ (\A g \in Names : m.writers[g].file # f) => Held(n, f, m.disk[f])
<1> DEFINE x == [NoWriter EXCEPT !.file = f, !.append = TRUE, !.off = Len(m.disk[f])]
           n == [Flush(m, h) EXCEPT !.writers[h] = x]
<1>0. OpenAppend(m, h, f) = n
  BY DEF OpenAppend
<1>1. Len(m.disk[f]) \in Nat
  BY Parts, LenProperties DEF Text
<1>2. x \in Writer /\ x.file = f /\ x.buf = <<>> /\ x.append
  BY <1>1, NewWriters
<1> HIDE DEF x
<1>3. /\ n \in IO /\ SameReading(m, n) /\ SameNaming(m, n) /\ Delivers(m, n, {x.file})
      /\ n.writers[h] = x
      /\ \A g \in Files :
            /\ \A k \in Names : m.writers[k].file # g
            /\ x.file = g /\ x.buf = <<>>
            /\ x.append \/ x.off = Len(m.disk[g])
            => Held(n, g, m.disk[g])
  BY <1>2, Relinked
<1> HIDE DEF n
<1> QED BY <1>0, <1>2, <1>3

\* close.
LEMMA CloseDone ==
    ASSUME NEW m \in IO, NEW h \in Names
    PROVE  LET n == Close(m, h)
           IN /\ n \in IO /\ SameNaming(m, n) /\ Delivers(m, n, {})
              /\ \A g \in Names : g # h => /\ n.readers[g] = m.readers[g]
                                           /\ n.strings[g] = m.strings[g]
              /\ n.readers[h] = NoReader /\ n.strings[h] = NoString
<1> DEFINE l == [Flush(m, h) EXCEPT !.writers[h] = NoWriter]
           R == [l.readers EXCEPT ![h] = NoReader]
           S == [l.strings EXCEPT ![h] = NoString]
           K == [l.sinks EXCEPT ![h] = None]
           n == [l EXCEPT !.readers = R, !.strings = S, !.sinks = K]
<1>0. Close(m, h) = n
  <2>1. Flush(m, h) \in IO
    BY FlushLeaves
  <2> DEFINE a == Flush(m, h)
  <2>2. Close(m, h) = [a EXCEPT !.writers[h] = NoWriter, !.readers[h] = NoReader,
                                !.strings[h] = NoString, !.sinks[h] = None]
    BY DEF Close
  <2> HIDE DEF a
  <2>3. l = [a EXCEPT !.writers[h] = NoWriter]
    BY DEF a
  <2> HIDE DEF l
  <2>4. a \in IO
    BY <2>1 DEF a
  <2>5. l.readers = a.readers /\ l.strings = a.strings /\ l.sinks = a.sinks
    BY <2>3, <2>4 DEF IO
  <2> QED BY <2>2, <2>3, <2>5
<1>1. /\ l \in IO /\ SameReading(m, l) /\ SameNaming(m, l) /\ Delivers(m, l, {None})
  BY NewWriters, Relinked
<1> HIDE DEF l
<1>2. /\ R \in [Names -> Reader] /\ S \in [Names -> StringReader]
      /\ K \in [Names -> Scalars \cup {None}]
  <2>1. NoReader \in Reader /\ NoString \in StringReader
    BY EmptySeq DEF NoReader, Reader, NoString, StringReader, Text
  <2> QED BY <1>1, <2>1, Parts
<1>3. /\ \A g \in Names : g # h => R[g] = m.readers[g] /\ S[g] = m.strings[g]
      /\ R[h] = NoReader /\ S[h] = NoString
  <2>1. l.readers = m.readers /\ l.strings = m.strings
    BY <1>1 DEF SameReading
  <2> QED BY <1>1, <2>1, Parts
<1> HIDE DEF R, S, K
<1>4. /\ n \in IO /\ SameNaming(l, n) /\ n.readers = R /\ n.strings = S
      /\ n.writers = l.writers /\ n.disk = l.disk
  BY <1>1, <1>2 DEF IO, SameNaming
<1> HIDE DEF n
<1>5. SameNaming(m, n)
  BY <1>1, <1>4 DEF SameNaming
<1>6. ASSUME NEW f \in Files, NEW t, Held(m, f, t)
      PROVE  Held(n, f, t)
  <2>1. Held(l, f, t)
    BY <1>1, <1>6, NamesDiffer DEF Delivers
  <2>2. n.disk[f] = l.disk[f] /\ \A g \in Names : n.writers[g] = l.writers[g]
    BY <1>4
  <2> QED BY <2>1, <2>2, HeldElsewhere
<1>7. Delivers(m, n, {})
  BY <1>6 DEF Delivers
<1> QED BY <1>0, <1>3, <1>4, <1>5, <1>7

-----------------------------------------------------------------------------
(***************************************************************************)
(* Reading.  What a handle has seen, what was returned and what waits in   *)
(* its buffer, is the text from where it started up to where it stands.    *)
(***************************************************************************)
Agrees(text, from, seen, at) ==
    /\ at = from + Len(seen)
    /\ seen # <<>> => at <= Len(text)
    /\ \A i \in 1 .. Len(seen) : seen[i] = text[from + i]
Ahead(m, h) == IF m.strings[h].of # None THEN <<>> ELSE m.readers[h].buf
Place(m, h) == IF m.strings[h].of # None THEN m.strings[h].pos ELSE m.readers[h].off
Follows(m, h, log) == Agrees(Source(m, h), log.from, log.got \o Ahead(m, h), Place(m, h))

\* What is left of a text from a place on.
LEMMA RestTyped ==
    ASSUME NEW S, NEW text \in Seq(S), NEW off \in Nat
    PROVE  /\ Rest(text, off) \in Seq(S)
           /\ Len(Rest(text, off)) = IF off <= Len(text) THEN Len(text) - off ELSE 0
           /\ \A i \in 1 .. Len(Rest(text, off)) : Rest(text, off)[i] = text[off + i]
<1> DEFINE n == Len(text)
           r == Rest(text, off)
<1>1. n \in Nat /\ \A i \in 1 .. n : text[i] \in S
  BY LenProperties, ElementOfSeq
<1>2. \A i \in off + 1 .. n : text[i] \in S
  <2> HIDE DEF n
  <2> QED BY <1>1
<1>3. /\ SubSeq(text, off + 1, n) \in Seq(S)
      /\ Len(SubSeq(text, off + 1, n)) = IF off + 1 <= n THEN n - (off + 1) + 1 ELSE 0
      /\ \A i \in 1 .. n - (off + 1) + 1 : SubSeq(text, off + 1, n)[i] = text[(off + 1) + i - 1]
  <2> HIDE DEF n
  <2> QED BY <1>1, <1>2, SubSeqProperties
<1>4. r = SubSeq(text, off + 1, n)
  BY DEF Rest
<1> HIDE DEF r, n
<1>5. Len(r) = IF off <= n THEN n - off ELSE 0
  BY <1>1, <1>3, <1>4
<1>6. \A i \in 1 .. Len(r) : i \in 1 .. n - (off + 1) + 1 /\ (off + 1) + i - 1 = off + i
  BY <1>1, <1>5
<1> QED BY <1>3, <1>4, <1>5, <1>6 DEF r, n

\* A prefix has the same records.
LEMMA PrefixMeans ==
    ASSUME NEW S, NEW s \in Seq(S), NEW t \in Seq(S)
    PROVE  IsPrefix(s, t) <=> Len(s) <= Len(t) /\ \A i \in 1 .. Len(s) : s[i] = t[i]
<1> DEFINE k == Len(s)
           n == Len(t)
<1>1. k \in Nat /\ n \in Nat
  BY LenProperties
<1>2. SubSeq(s, 1, k) \in Seq(S) /\ Len(SubSeq(s, 1, k)) = k
      /\ \A i \in 1 .. k : SubSeq(s, 1, k)[i] = s[i]
  BY <1>1, FirstOfSeq
<1>3. k <= n => /\ SubSeq(t, 1, k) \in Seq(S) /\ Len(SubSeq(t, 1, k)) = k
                /\ \A i \in 1 .. k : SubSeq(t, 1, k)[i] = t[i]
  <2> HIDE DEF k
  <2> QED BY <1>1, FirstOfSeq
<1> DEFINE a == SubSeq(s, 1, k)
           b == SubSeq(t, 1, k)
<1>4. IsPrefix(s, t) <=> k <= n /\ a = b
  BY DEF IsPrefix
<1> HIDE DEF a, b, k, n
<1>5. ASSUME k <= n, a = b PROVE \A i \in 1 .. k : s[i] = t[i]
  BY <1>2, <1>3, <1>5 DEF a, b
<1>6. ASSUME k <= n, \A i \in 1 .. k : s[i] = t[i] PROVE a = b
  <2>1. a \in Seq(S) /\ b \in Seq(S) /\ Len(a) = Len(b) /\ Len(a) = k
    BY <1>2, <1>3, <1>6 DEF a, b
  <2>2. \A i \in 1 .. Len(a) : a[i] = b[i]
    BY <1>2, <1>3, <1>6, <2>1 DEF a, b
  <2> QED BY <2>1, <2>2, SeqEqual
<1> QED BY <1>4, <1>5, <1>6 DEF k, n

\* The text grows.
LEMMA AgreesGrown ==
    ASSUME NEW text \in Text, NEW more \in Text, IsPrefix(text, more),
           NEW from \in Nat, NEW seen \in Text, NEW at, Agrees(text, from, seen, at)
    PROVE  Agrees(more, from, seen, at)
<1> DEFINE n == Len(text)
           k == Len(seen)
           o == Len(more)
<1>1. n \in Nat /\ k \in Nat /\ o \in Nat
  BY LenProperties DEF Text
<1>2. n <= o /\ \A i \in 1 .. n : text[i] = more[i]
  BY PrefixMeans DEF Text
<1>3. /\ at = from + k /\ (seen # <<>> => at <= n)
      /\ \A i \in 1 .. k : seen[i] = text[from + i]
  BY DEF Agrees
<1>4. k # 0 => seen # <<>>
  BY EmptySeq DEF Text
<1> HIDE DEF n, k, o
<1>5. seen # <<>> => at <= o
  BY <1>1, <1>2, <1>3
<1>6. ASSUME NEW i \in 1 .. k PROVE seen[i] = more[from + i]
  <2>1. at <= n
    BY <1>1, <1>3, <1>4
  <2>2. from + i \in 1 .. n
    BY <1>1, <1>3, <2>1
  <2> QED BY <1>2, <1>3, <2>2
<1> QED BY <1>3, <1>5, <1>6 DEF Agrees, n, k, o

\* A piece of the text is read.
LEMMA AgreesMore ==
    ASSUME NEW text \in Text, NEW from \in Nat, NEW seen \in Text, NEW at \in Nat,
           Agrees(text, from, seen, at), NEW piece \in Text,
           Len(piece) # 0 => at + Len(piece) <= Len(text),
           \A i \in 1 .. Len(piece) : piece[i] = text[at + i]
    PROVE  Agrees(text, from, seen \o piece, at + Len(piece))
<1> DEFINE n == Len(text)
           k == Len(seen)
           l == Len(piece)
           all == seen \o piece
<1>1. n \in Nat /\ k \in Nat /\ l \in Nat
  BY LenProperties DEF Text
<1>2. /\ all \in Text /\ Len(all) = k + l
      /\ \A i \in 1 .. k + l : all[i] = IF i <= k THEN seen[i] ELSE piece[i - k]
  BY ConcatProperties DEF Text
<1>3. /\ at = from + k /\ (seen # <<>> => at <= n)
      /\ \A i \in 1 .. k : seen[i] = text[from + i]
  BY DEF Agrees
<1>4. Len(<<>>) = 0 /\ (seen = <<>> => k = 0)
  OBVIOUS
<1>5. (l # 0 => at + l <= n) /\ \A i \in 1 .. l : piece[i] = text[at + i]
  OBVIOUS
<1>6. (seen = <<>> /\ l = 0) => all = <<>>
  BY EmptySeq, <1>1, <1>2, <1>4 DEF Text
<1> HIDE DEF n, k, l, all
<1>7. all # <<>> => at + l <= n
  BY <1>1, <1>3, <1>5, <1>6
<1>8. at + l = from + (k + l)
  BY <1>1, <1>3
<1>9. ASSUME NEW i \in 1 .. k + l PROVE all[i] = text[from + i]
  <2>1. CASE i <= k
    <3>1. i \in 1 .. k
      BY <1>1, <2>1
    <3> QED BY <1>2, <1>3, <2>1, <3>1
  <2>2. CASE ~ (i <= k)
    <3>1. i - k \in 1 .. l /\ at + (i - k) = from + i
      BY <1>1, <1>3, <2>2
    <3> QED BY <1>2, <1>5, <2>2, <3>1
  <2> QED BY <2>1, <2>2
<1> QED BY <1>2, <1>7, <1>8, <1>9 DEF Agrees, n, k, l, all

\* What was returned starts what there is to read.
LEMMA AgreesReads ==
    ASSUME NEW text \in Text, NEW from \in Nat, NEW got \in Text, NEW buf \in Text, NEW at,
           Agrees(text, from, got \o buf, at)
    PROVE  IsPrefix(got, Rest(text, from))
<1> DEFINE n == Len(text)
           k == Len(got)
           l == Len(buf)
           all == got \o buf
           rest == Rest(text, from)
<1>1. n \in Nat /\ k \in Nat /\ l \in Nat
  BY LenProperties DEF Text
<1>2. /\ all \in Text /\ Len(all) = k + l
      /\ \A i \in 1 .. k + l : all[i] = IF i <= k THEN got[i] ELSE buf[i - k]
  BY ConcatProperties DEF Text
<1>3. /\ at = from + Len(all) /\ (all # <<>> => at <= n)
      /\ \A i \in 1 .. Len(all) : all[i] = text[from + i]
  BY DEF Agrees
<1>4. /\ rest \in Text /\ Len(rest) = IF from <= n THEN n - from ELSE 0
      /\ \A i \in 1 .. Len(rest) : rest[i] = text[from + i]
  BY RestTyped DEF Text
<1>5. k + l # 0 => all # <<>>
  <2>1. all = <<>> => Len(all) = 0
    OBVIOUS
  <2> QED BY <1>2, <2>1
<1> HIDE DEF n, k, l, all, rest
<1>6. k <= Len(rest)
  <2>1. CASE k = 0
    BY <1>1, <1>4, <2>1
  <2>2. CASE k # 0
    BY <1>1, <1>2, <1>3, <1>4, <1>5, <2>2
  <2> QED BY <2>1, <2>2
<1>7. ASSUME NEW i \in 1 .. k PROVE got[i] = rest[i]
  <2>1. i \in 1 .. k + l /\ i <= k
    BY <1>1
  <2>2. i \in 1 .. Len(rest)
    <3>1. Len(rest) \in Nat
      BY <1>1, <1>4
    <3> QED BY <1>1, <1>6, <3>1
  <2> QED BY <1>2, <1>3, <1>4, <2>1, <2>2
<1>8. IsPrefix(got, rest) <=> k <= Len(rest) /\ \A i \in 1 .. k : got[i] = rest[i]
  BY <1>4, PrefixMeans DEF Text, k
<1> QED BY <1>6, <1>7, <1>8 DEF rest

-----------------------------------------------------------------------------
\* What reading from a handle leaves alone.
OnlyReads(m, n, h) ==
    /\ SameWriting(m, n) /\ SameNaming(m, n) /\ n.mem = m.mem
    /\ \A g \in Names : g # h => n.readers[g] = m.readers[g] /\ n.strings[g] = m.strings[g]
    /\ n.readers[h].file = m.readers[h].file /\ n.strings[h].of = m.strings[h].of
Returns(m, h, res) ==
    /\ res \in [m : IO, got : Text] /\ OnlyReads(m, res.m, h)
    /\ \A log \in Log : Follows(m, h, log) => Follows(res.m, h, [log EXCEPT !.got = @ \o res.got])

\* What was printed is a text without holes.
LEMMA RecordsAreText ==
    ASSUME NEW s \in Seq(Records)
    PROVE  s \in Text
BY DEF Text

\* A log goes on.
LEMMA LogParts ==
    ASSUME NEW log \in Log, NEW new \in Text
    PROVE  /\ log.from \in Nat /\ log.got \in Text /\ log.got \o new \in Text
           /\ [log EXCEPT !.got = @ \o new].from = log.from
           /\ [log EXCEPT !.got = @ \o new].got = log.got \o new
           /\ [log EXCEPT !.got = @ \o new].sure = log.sure
           /\ [log EXCEPT !.got = @ \o new] \in Log
<1>1. log.from \in Nat /\ log.got \in Text
  BY DEF Log
<1>2. log.got \o new \in Text
  BY <1>1, ConcatProperties DEF Text
<1> DEFINE c == log.got \o new
           l == [log EXCEPT !.got = c]
<1> HIDE DEF c
<1>3. l.from = log.from /\ l.got = c /\ l.sure = log.sure /\ l \in Log
  BY <1>1, <1>2 DEF Log, c
<1> QED BY <1>1, <1>2, <1>3 DEF c

\* What a handle reads from is a text.
LEMMA SourceTyped ==
    ASSUME NEW m \in IO, NEW h \in Names
    PROVE  Source(m, h) \in Text
<1>1. CASE m.strings[h].of # None
  <2>1. m.strings[h].of \in Scalars
    BY <1>1, ReaderParts
  <2>2. m.mem[m.strings[h].of] \in Seq(Records)
    BY <2>1, Parts
  <2> QED BY <1>1, <2>2, RecordsAreText DEF Source
<1>2. CASE m.strings[h].of = None /\ m.readers[h].file # None
  <2>1. m.readers[h].file \in Files
    BY <1>2, ReaderParts
  <2> QED BY <1>2, <2>1, Parts DEF Source
<1>3. CASE m.strings[h].of = None /\ m.readers[h].file = None
  <2>1. Source(m, h) = <<>>
    BY <1>3 DEF Source
  <2> QED BY <2>1, EmptySeq DEF Text
<1> QED BY <1>1, <1>2, <1>3

\* A handle gets another buffer and place.
LEMMA ReaderSet ==
    ASSUME NEW m \in IO, NEW h \in Names, NEW x \in Reader, x.file = m.readers[h].file
    PROVE  LET n == [m EXCEPT !.readers[h] = x]
           IN /\ n \in IO /\ OnlyReads(m, n, h) /\ n.readers[h] = x /\ n.strings = m.strings
              /\ Source(n, h) = Source(m, h)
<1> DEFINE R == [m.readers EXCEPT ![h] = x]
           n == [m EXCEPT !.readers = R]
<1>1. R \in [Names -> Reader] /\ R[h] = x /\ \A g \in Names : g # h => R[g] = m.readers[g]
  BY Parts
<1> HIDE DEF R
<1>2. /\ n \in IO /\ SameWriting(m, n) /\ SameNaming(m, n) /\ n.mem = m.mem /\ n.readers = R
      /\ n.strings = m.strings /\ n.disk = m.disk
  BY <1>1 DEF IO, SameWriting, SameNaming
<1>3. n = [m EXCEPT !.readers[h] = x]
  BY DEF R
<1> HIDE DEF n
<1>4. OnlyReads(m, n, h)
  BY <1>1, <1>2 DEF OnlyReads
<1>5. Source(n, h) = Source(m, h)
  BY <1>1, <1>2 DEF Source
<1> QED BY <1>1, <1>2, <1>3, <1>4, <1>5

\* A handle gets another place in its scalar.
LEMMA StringSet ==
    ASSUME NEW m \in IO, NEW h \in Names, NEW pos \in Nat
    PROVE  LET n == [m EXCEPT !.strings[h].pos = pos]
           IN /\ n \in IO /\ OnlyReads(m, n, h) /\ n.strings[h].pos = pos
              /\ n.strings[h].of = m.strings[h].of /\ Source(n, h) = Source(m, h)
              /\ n.readers = m.readers
<1> DEFINE x == [m.strings[h] EXCEPT !.pos = pos]
           S == [m.strings EXCEPT ![h] = x]
           n == [m EXCEPT !.strings = S]
<1>1. m.strings \in [Names -> StringReader] /\ m.strings[h] \in StringReader
  BY Parts
<1>2. x \in StringReader /\ x.pos = pos /\ x.of = m.strings[h].of
  BY <1>1 DEF StringReader
<1>3. n = [m EXCEPT !.strings[h].pos = pos]
  OBVIOUS
<1> HIDE DEF x
<1>4. S \in [Names -> StringReader] /\ S[h] = x /\ \A g \in Names : g # h => S[g] = m.strings[g]
  BY <1>1, <1>2
<1> HIDE DEF S
<1>5. /\ n \in IO /\ SameWriting(m, n) /\ SameNaming(m, n) /\ n.mem = m.mem /\ n.strings = S
      /\ n.readers = m.readers /\ n.disk = m.disk
  BY <1>4 DEF IO, SameWriting, SameNaming
<1> HIDE DEF n
<1>6. OnlyReads(m, n, h)
  BY <1>2, <1>4, <1>5 DEF OnlyReads
<1>7. Source(n, h) = Source(m, h)
  BY <1>2, <1>4, <1>5 DEF Source
<1> QED BY <1>2, <1>3, <1>4, <1>5, <1>6, <1>7

\* A buffer is filled.
LEMMA FillDone ==
    ASSUME NEW m \in IO, NEW h \in Names
    PROVE  LET n == Fill(m, h)
           IN /\ n \in IO /\ OnlyReads(m, n, h) /\ Source(n, h) = Source(m, h)
              /\ \A log \in Log : Follows(m, h, log) => Follows(n, h, log)
<1> DEFINE n == Fill(m, h)
           r == m.readers[h]
           text == m.disk[r.file]
           rest == Rest(text, r.off)
           off == Max({r.off, Len(text)})
           x == [r EXCEPT !.buf = rest, !.off = off]
<1>1. CASE r.file = None \/ r.buf # <<>>
  <2>1. n = m
    BY <1>1 DEF Fill
  <2>2. OnlyReads(m, m, h)
    BY DEF OnlyReads, SameWriting, SameNaming
  <2> HIDE DEF n
  <2> QED BY <2>1, <2>2 DEF n
<1>2. CASE r.file # None /\ r.buf = <<>>
  <2>1. r \in Reader /\ r.file \in Files /\ r.off \in Nat /\ m.readers \in [Names -> Reader]
    BY <1>2, ReaderParts, Parts
  <2>2. text \in Text /\ Len(text) \in Nat
    BY <2>1, Parts, LenProperties DEF Text
  <2>3. /\ rest \in Text /\ Len(rest) = IF r.off <= Len(text) THEN Len(text) - r.off ELSE 0
        /\ \A i \in 1 .. Len(rest) : rest[i] = text[r.off + i]
    BY <2>1, <2>2, RestTyped, ZenonT(60) DEF Text
  <2>4. off = IF r.off >= Len(text) THEN r.off ELSE Len(text)
    BY <2>1, <2>2, OfTwo
  <2>5. off \in Nat /\ off = r.off + Len(rest) /\ (Len(rest) # 0 => r.off + Len(rest) <= Len(text))
    <3> DEFINE k == Len(text)
               o == r.off
    <3>1. k \in Nat /\ o \in Nat /\ off = (IF o >= k THEN o ELSE k)
          /\ Len(rest) = IF o <= k THEN k - o ELSE 0
      BY <2>1, <2>2, <2>3, <2>4
    <3> HIDE DEF k, o, rest, off
    <3>2. off \in Nat /\ off = o + Len(rest) /\ (Len(rest) # 0 => o + Len(rest) <= k)
      BY <3>1
    <3> QED BY <3>2, SMTT(30) DEF k, o
  <2>6. n = [m EXCEPT !.readers[h] = x]
    <3>1. n = [m EXCEPT !.readers[h].buf = rest, !.readers[h].off = off]
      BY <1>2 DEF Fill
    <3> HIDE DEF rest, off, n
    <3> QED BY <2>1, <3>1 DEF Reader
  <2> HIDE DEF rest, off, text
  <2>7. x \in Reader /\ x.file = r.file /\ x.buf = rest /\ x.off = off
    BY <2>1, <2>3, <2>5 DEF Reader
  <2> HIDE DEF x, n
  <2>8. /\ n \in IO /\ OnlyReads(m, n, h) /\ n.readers[h] = x /\ n.strings = m.strings
        /\ Source(n, h) = Source(m, h)
    BY <2>6, <2>7, ReaderSet
  <2>9. ASSUME NEW log \in Log, Follows(m, h, log) PROVE Follows(n, h, log)
    <3>1. CASE m.strings[h].of # None
      BY <2>8, <2>9, <3>1 DEF Follows, Ahead, Place
    <3>2. CASE m.strings[h].of = None
      <4>1. Source(m, h) = text
        BY <1>2, <3>2 DEF Source, text
      <4>2. log.from \in Nat /\ log.got \in Text /\ log.got \o <<>> = log.got
        BY LogParts, ConcatEmptySeq DEF Log, Text
      <4>3. Agrees(text, log.from, log.got, r.off)
        BY <1>2, <2>9, <3>2, <4>1, <4>2 DEF Follows, Ahead, Place
      <4>4. Agrees(text, log.from, log.got \o rest, r.off + Len(rest))
        BY <2>1, <2>2, <2>3, <2>5, <4>2, <4>3, AgreesMore
      <4>5. Ahead(n, h) = rest /\ Place(n, h) = off
        BY <2>7, <2>8, <3>2 DEF Ahead, Place
      <4> QED BY <2>5, <2>8, <4>1, <4>4, <4>5 DEF Follows
    <3> QED BY <3>1, <3>2
  <2> QED BY <2>8, <2>9 DEF n
<1> QED BY <1>1, <1>2

\* Two reads, one after the other, read.
LEMMA OnlyReadsCompose ==
    ASSUME NEW l, NEW m, NEW n, NEW h, OnlyReads(l, m, h), OnlyReads(m, n, h)
    PROVE  OnlyReads(l, n, h)
BY DEF OnlyReads, SameWriting, SameNaming

\* A file is read through its buffer.
LEMMA PullDone ==
    ASSUME NEW m \in IO, NEW h \in Names, NEW n \in Nat, m.strings[h].of = None
    PROVE  Returns(m, h, Pull(m, h, n))
<1> DEFINE full == Fill(m, h)
           r == full.readers[h]
           b == r.buf
           k == Min({n, Len(b)})
           got == SubSeq(b, 1, k)
           left == Rest(b, Len(got))
           x == [r EXCEPT !.buf = left]
           o == [full EXCEPT !.readers[h] = x]
<1>1. /\ full \in IO /\ OnlyReads(m, full, h) /\ Source(full, h) = Source(m, h)
      /\ \A log \in Log : Follows(m, h, log) => Follows(full, h, log)
  BY FillDone
<1>2. Pull(m, h, n) = [m |-> [full EXCEPT !.readers[h].buf = left], got |-> got]
  BY DEF Pull
<1> HIDE DEF full
<1>3. r \in Reader /\ b \in Text /\ Len(b) \in Nat /\ full.readers \in [Names -> Reader]
  BY <1>1, ReaderParts, Parts, LenProperties DEF Text
<1> HIDE DEF b
<1>4. k \in Nat /\ k <= Len(b)
  <2>1. k = IF n <= Len(b) THEN n ELSE Len(b)
    BY <1>3, OfTwo
  <2> QED BY <1>3, <2>1
<1> HIDE DEF k
<1>5. got \in Text /\ Len(got) = k
  BY <1>3, <1>4, FirstOfSeq DEF Text
<1>6. left \in Text /\ left = SubSeq(b, k + 1, Len(b))
  <2> HIDE DEF got
  <2>1. left = SubSeq(b, k + 1, Len(b))
    BY <1>5 DEF Rest
  <2>2. SubSeq(b, k + 1, Len(b)) \in Text
    BY <1>3, <1>4, RestOfSeq DEF Text
  <2> QED BY <2>1, <2>2
<1>7. got \o left = b
  <2> DEFINE S == Records \cup {Hole}
             e == Len(b)
  <2>0. b \in Seq(S) /\ e \in Nat
    BY <1>3 DEF Text
  <2>1. 1 \in 1 .. e + 1 /\ k \in (1 - 1) .. e /\ e \in k .. e
    <3> HIDE DEF e
    <3> QED BY <1>4, <2>0 DEF e
  <2>2. SubSeq(b, 1, k) \o SubSeq(b, k + 1, e) = SubSeq(b, 1, e)
    <3> HIDE DEF S
    <3> QED BY <2>0, <2>1, ConcatAdjacentSubSeq
  <2>3. SubSeq(b, 1, e) = b
    <3>1. SubSeq(b, 1, e) \in Seq(S) /\ Len(SubSeq(b, 1, e)) = e
          /\ \A i \in 1 .. e : SubSeq(b, 1, e)[i] = b[i]
      BY <2>0, FirstOfSeq
    <3> QED BY <2>0, <3>1, SeqEqual
  <2> QED BY <1>6, <2>2, <2>3
<1> HIDE DEF got, left
<1>8. o = [full EXCEPT !.readers[h].buf = left]
  BY <1>3
<1>9. x \in Reader /\ x.file = r.file /\ x.buf = left /\ x.off = r.off
  BY <1>3, <1>6 DEF Reader
<1> HIDE DEF x
<1>10. /\ o \in IO /\ OnlyReads(full, o, h) /\ o.readers[h] = x /\ o.strings = full.strings
       /\ Source(o, h) = Source(full, h)
  BY <1>1, <1>9, ReaderSet
<1> HIDE DEF o
<1>11. ASSUME NEW log \in Log, Follows(m, h, log)
       PROVE  Follows(o, h, [log EXCEPT !.got = @ \o got])
  <2>1. Follows(full, h, log)
    BY <1>1, <1>11
  <2>2. full.strings[h].of = None /\ o.strings[h].of = None
    BY <1>1, <1>10 DEF OnlyReads
  <2>3. Ahead(full, h) = b /\ Ahead(o, h) = left /\ Place(full, h) = r.off /\ Place(o, h) = r.off
    BY <1>9, <1>10, <2>2 DEF Ahead, Place, b
  <2>4. (log.got \o got) \o left = log.got \o b
    <3> DEFINE S == Records \cup {Hole}
               a == log.got
    <3>1. a \in Seq(S) /\ got \in Seq(S) /\ left \in Seq(S)
      BY <1>5, <1>6, LogParts DEF Text
    <3> HIDE DEF S, a
    <3>2. (a \o got) \o left = a \o (got \o left)
      BY <3>1, ConcatAssociative
    <3> QED BY <1>7, <3>2 DEF a
  <2> DEFINE new == [log EXCEPT !.got = @ \o got]
  <2>5. new.from = log.from /\ new.got = log.got \o got
    BY <1>5, LogParts
  <2> HIDE DEF new
  <2>6. Follows(o, h, new)
    BY <1>10, <2>1, <2>3, <2>4, <2>5 DEF Follows
  <2> QED BY <2>6 DEF new
<1>12. OnlyReads(m, o, h)
  BY <1>1, <1>10, OnlyReadsCompose
<1>13. Pull(m, h, n) = [m |-> o, got |-> got]
  BY <1>2, <1>8
<1> QED BY <1>5, <1>10, <1>11, <1>12, <1>13 DEF Returns

\* A file is read to its end.
LEMMA SlurpDone ==
    ASSUME NEW m \in IO, NEW h \in Names, m.strings[h].of = None, m.readers[h].file # None
    PROVE  Returns(m, h, Slurp(m, h))
<1> DEFINE r == m.readers[h]
           text == m.disk[r.file]
           rest == Rest(text, r.off)
           off == Max({r.off, Len(text)})
           got == r.buf \o rest
           x == [r EXCEPT !.buf = <<>>, !.off = off]
           o == [m EXCEPT !.readers[h] = x]
<1>1. /\ r \in Reader /\ r.file \in Files /\ r.off \in Nat /\ r.buf \in Text
      /\ m.readers \in [Names -> Reader] /\ <<>> \in Text
  BY ReaderParts, Parts, EmptySeq DEF Text
<1>2. text \in Text /\ Len(text) \in Nat
  BY <1>1, Parts, LenProperties DEF Text
<1>3. /\ rest \in Text /\ Len(rest) = IF r.off <= Len(text) THEN Len(text) - r.off ELSE 0
      /\ \A i \in 1 .. Len(rest) : rest[i] = text[r.off + i]
  BY <1>1, <1>2, RestTyped, ZenonT(60) DEF Text
<1>4. off = IF r.off >= Len(text) THEN r.off ELSE Len(text)
  BY <1>1, <1>2, OfTwo
<1>5. off \in Nat /\ off = r.off + Len(rest) /\ (Len(rest) # 0 => r.off + Len(rest) <= Len(text))
  <2> DEFINE k == Len(text)
             l == r.off
  <2>1. k \in Nat /\ l \in Nat /\ off = (IF l >= k THEN l ELSE k)
        /\ Len(rest) = IF l <= k THEN k - l ELSE 0
    BY <1>1, <1>2, <1>3, <1>4
  <2> HIDE DEF k, l, rest, off
  <2>2. off \in Nat /\ off = l + Len(rest) /\ (Len(rest) # 0 => l + Len(rest) <= k)
    BY <2>1
  <2> QED BY <2>2, SMTT(30) DEF k, l
<1>6. Slurp(m, h) = [m |-> o, got |-> got]
  <2>1. Slurp(m, h) = [m |-> [m EXCEPT !.readers[h].off = off, !.readers[h].buf = <<>>],
                       got |-> got]
    BY DEF Slurp
  <2> HIDE DEF off, got
  <2>2. [m EXCEPT !.readers[h].off = off, !.readers[h].buf = <<>>] = o
    BY <1>1 DEF Reader
  <2> QED BY <2>1, <2>2
<1> HIDE DEF rest, off, text
<1>7. got \in Text
  BY <1>1, <1>3, ConcatProperties DEF Text
<1>8. x \in Reader /\ x.file = r.file /\ x.buf = <<>> /\ x.off = off
  BY <1>1, <1>5 DEF Reader
<1> HIDE DEF x
<1>9. /\ o \in IO /\ OnlyReads(m, o, h) /\ o.readers[h] = x /\ o.strings = m.strings
      /\ Source(o, h) = Source(m, h)
  BY <1>8, ReaderSet
<1> HIDE DEF o
<1>10. ASSUME NEW log \in Log, Follows(m, h, log)
       PROVE  Follows(o, h, [log EXCEPT !.got = @ \o got])
  <2> DEFINE a == log.got
             new == [log EXCEPT !.got = @ \o got]
  <2>0. new.from = log.from /\ new.got = a \o got /\ log.from \in Nat /\ a \in Text /\ a \o got \in Text
    BY <1>7, LogParts
  <2>1. Source(m, h) = text
    BY DEF Source, text
  <2>2. a \o r.buf \in Text
    BY <1>1, <2>0, ConcatProperties DEF Text
  <2>3. Agrees(text, log.from, a \o r.buf, r.off)
    BY <1>10, <2>1 DEF Follows, Ahead, Place
  <2> DEFINE seen == a \o r.buf
  <2> HIDE DEF seen
  <2>4. Agrees(text, log.from, seen \o rest, r.off + Len(rest))
    <3>1. seen \in Text /\ Agrees(text, log.from, seen, r.off)
      BY <2>2, <2>3 DEF seen
    <3> QED BY <1>1, <1>2, <1>3, <1>5, <2>0, <3>1, AgreesMore
  <2>5. seen \o rest = (a \o got) \o <<>>
    <3> DEFINE S == Records \cup {Hole}
               b == r.buf
    <3>1. a \in Seq(S) /\ b \in Seq(S) /\ rest \in Seq(S) /\ a \o got \in Seq(S)
      BY <1>1, <1>3, <2>0 DEF Text
    <3>2. (a \o got) \o <<>> = a \o got
      <4> HIDE DEF S, got
      <4> QED BY <3>1, ConcatEmptySeq
    <3> HIDE DEF S, a, b
    <3>3. (a \o b) \o rest = a \o (b \o rest)
      BY <3>1, ConcatAssociative, SMTT(30)
    <3> QED BY <3>2, <3>3 DEF seen, a, b
  <2>6. o.strings[h].of = None
    BY <1>9
  <2>7. Ahead(o, h) = <<>> /\ Place(o, h) = off
    BY <1>8, <1>9, <2>6 DEF Ahead, Place
  <2> HIDE DEF new, got
  <2>8. Follows(o, h, new)
    BY <1>5, <1>9, <2>0, <2>1, <2>4, <2>5, <2>7 DEF Follows
  <2> QED BY <2>8 DEF new
<1> HIDE DEF got
<1> QED BY <1>6, <1>7, <1>9, <1>10 DEF Returns

\* A scalar is read.
LEMMA PullStringDone ==
    ASSUME NEW m \in IO, NEW h \in Names, NEW n \in Nat, m.strings[h].of # None
    PROVE  Returns(m, h, PullString(m, h, n))
<1> DEFINE s == m.strings[h]
           text == m.mem[s.of]
           rest == Rest(text, s.pos)
           got == SubSeq(rest, 1, n)
           some == IF n < Len(rest) THEN got ELSE rest
           o == [m EXCEPT !.strings[h].pos = s.pos + Len(some)]
<1>1. s.of \in Scalars /\ s.pos \in Nat
  BY ReaderParts
<1>2. text \in Text /\ Len(text) \in Nat
  <2>1. text \in Seq(Records)
    BY <1>1, Parts
  <2> HIDE DEF text
  <2> QED BY <2>1, RecordsAreText, LenProperties
<1>3. /\ rest \in Text /\ Len(rest) = IF s.pos <= Len(text) THEN Len(text) - s.pos ELSE 0
      /\ \A i \in 1 .. Len(rest) : rest[i] = text[s.pos + i]
  BY <1>1, <1>2, RestTyped DEF Text
<1>4. PullString(m, h, n) = [m |-> o, got |-> some]
  BY DEF PullString
<1> DEFINE k == Len(text)
           l == s.pos
           j == Len(rest)
<1>5. k \in Nat /\ l \in Nat /\ j = (IF l <= k THEN k - l ELSE 0) /\ j \in Nat
  <2>1. k \in Nat /\ l \in Nat /\ j = (IF l <= k THEN k - l ELSE 0)
    BY <1>1, <1>2, <1>3
  <2> HIDE DEF k, l, j
  <2> QED BY <2>1
<1>6. /\ some \in Text /\ Len(some) \in Nat /\ Len(some) <= j
      /\ \A i \in 1 .. Len(some) : some[i] = rest[i]
  <2> HIDE DEF rest
  <2>1. CASE n < j
    <3>1. got \in Text /\ Len(got) = n /\ \A i \in 1 .. n : got[i] = rest[i]
      BY <1>3, <1>5, <2>1, FirstOfSeq DEF Text
    <3> HIDE DEF got
    <3>2. some = got
      BY <2>1
    <3> QED BY <2>1, <3>1, <3>2
  <2>2. CASE ~ (n < j)
    <3>1. some = rest
      BY <2>2
    <3> QED BY <1>3, <1>5, <3>1
  <2> QED BY <2>1, <2>2
<1> HIDE DEF some
<1>7. /\ Len(some) # 0 => l + Len(some) <= k
      /\ l + Len(some) \in Nat
      /\ \A i \in 1 .. Len(some) : i \in 1 .. j
  <2> HIDE DEF k, l, j
  <2> QED BY <1>5, <1>6, SMTT(30)
<1>8. \A i \in 1 .. Len(some) : some[i] = text[l + i]
  BY <1>3, <1>6, <1>7
<1>9. /\ o \in IO /\ OnlyReads(m, o, h) /\ o.strings[h].pos = s.pos + Len(some)
      /\ o.strings[h].of = s.of /\ Source(o, h) = Source(m, h)
  BY <1>7, StringSet
<1> HIDE DEF o, rest, j
<1>10. ASSUME NEW log \in Log, Follows(m, h, log)
       PROVE  Follows(o, h, [log EXCEPT !.got = @ \o some])
  <2> DEFINE a == log.got
             new == [log EXCEPT !.got = @ \o some]
  <2>0. new.from = log.from /\ new.got = a \o some /\ log.from \in Nat /\ a \in Text /\ a \o some \in Text
    BY <1>6, LogParts
  <2>1. Source(m, h) = text
    BY DEF Source
  <2>2. a \o <<>> = a /\ (a \o some) \o <<>> = a \o some
    BY <2>0, ConcatEmptySeq DEF Text
  <2>3. Agrees(text, log.from, a, l)
    BY <1>10, <2>1, <2>2 DEF Follows, Ahead, Place
  <2> HIDE DEF a
  <2>4. Agrees(text, log.from, a \o some, l + Len(some))
    <3> HIDE DEF text, l
    <3>1. l \in Nat /\ (Len(some) # 0 => l + Len(some) <= Len(text))
      BY <1>5, <1>7 DEF k
    <3> QED BY <1>2, <1>6, <1>8, <2>0, <2>3, <3>1, AgreesMore
  <2>5. Ahead(o, h) = <<>> /\ Place(o, h) = l + Len(some)
    BY <1>9 DEF Ahead, Place
  <2> HIDE DEF new, l, text
  <2>6. Follows(o, h, new)
    BY <1>9, <2>0, <2>1, <2>2, <2>4, <2>5 DEF Follows
  <2> QED BY <2>6 DEF new
<1> QED BY <1>4, <1>6, <1>9, <1>10 DEF Returns

\* What a handle has seen depends on what it reads from only.
LEMMA SameFollows ==
    ASSUME NEW m, NEW n, SameReading(m, n), n.mem = m.mem, n.disk = m.disk, NEW h, NEW log,
           Follows(m, h, log)
    PROVE  Follows(n, h, log)
BY DEF SameReading, Follows, Source, Ahead, Place

\* A handle that reads nothing returns nothing.
LEMMA NothingDone ==
    ASSUME NEW m \in IO, NEW h \in Names
    PROVE  Returns(m, h, [m |-> m, got |-> <<>>])
<1> DEFINE res == [m |-> m, got |-> <<>>]
<1>1. <<>> \in Text
  BY EmptySeq DEF Text
<1>2. OnlyReads(m, m, h)
  BY DEF OnlyReads, SameWriting, SameNaming
<1>3. ASSUME NEW log \in Log, Follows(m, h, log)
      PROVE  Follows(m, h, [log EXCEPT !.got = @ \o <<>>])
  <2>1. log.got \o <<>> = log.got
    BY LogParts, ConcatEmptySeq DEF Log, Text
  <2> DEFINE new == [log EXCEPT !.got = @ \o <<>>]
  <2>2. new.from = log.from /\ new.got = log.got \o <<>>
    BY <1>1, LogParts
  <2> HIDE DEF new
  <2>3. Follows(m, h, new)
    BY <1>3, <2>1, <2>2 DEF Follows
  <2> QED BY <2>3 DEF new
<1>4. res \in [m : IO, got : Text] /\ res.m = m /\ res.got = <<>>
  BY <1>1
<1> HIDE DEF res
<1> QED BY <1>2, <1>3, <1>4 DEF Returns, res

\* readline and read, from a scalar or a file.
LEMMA TakeDone ==
    ASSUME NEW m \in IO, NEW h \in Names, NEW n \in Nat
    PROVE  Returns(m, h, Take(m, h, n))
<1>1. CASE m.strings[h].of # None
  BY <1>1, PullStringDone DEF Take
<1>2. CASE m.strings[h].of = None /\ m.readers[h].file # None
  BY <1>2, PullDone DEF Take
<1>3. CASE m.strings[h].of = None /\ m.readers[h].file = None
  BY <1>3, NothingDone DEF Take
<1> QED BY <1>1, <1>2, <1>3

\* readline with undefined `$/`.
LEMMA TakeAllDone ==
    ASSUME NEW m \in IO, NEW h \in Names
    PROVE  Returns(m, h, TakeAll(m, h))
<1>1. CASE m.strings[h].of # None
  <2>1. m.strings[h].of \in Scalars
    BY <1>1, ReaderParts
  <2>2. m.mem[m.strings[h].of] \in Seq(Records)
    BY <2>1, Parts
  <2>3. Len(m.mem[m.strings[h].of]) \in Nat
    BY <2>2, LenProperties
  <2>4. TakeAll(m, h) = PullString(m, h, Len(m.mem[m.strings[h].of]))
    BY <1>1 DEF TakeAll
  <2> QED BY <1>1, <2>3, <2>4, PullStringDone
<1>2. CASE m.strings[h].of = None /\ m.readers[h].file # None
  BY <1>2, SlurpDone DEF TakeAll
<1>3. CASE m.strings[h].of = None /\ m.readers[h].file = None
  BY <1>3, NothingDone DEF TakeAll
<1> QED BY <1>1, <1>2, <1>3

\* `$.` and the handle last read.
LEMMA LastSet ==
    ASSUME NEW m \in IO, NEW last \in Names \cup {None}, NEW c \in [Names -> Nat]
    PROVE  LET n == [m EXCEPT !.last = last, !.counts = c]
           IN /\ n \in IO /\ SameReading(m, n) /\ SameWriting(m, n) /\ SameNaming(m, n)
              /\ n.mem = m.mem /\ n.disk = m.disk
BY DEF IO, SameReading, SameWriting, SameNaming

\* `$.` does not matter to what is read.
LEMMA CountedDone ==
    ASSUME NEW m \in IO, NEW h \in Names, NEW res, Returns(m, h, res)
    PROVE  Returns(m, h, Counted(h, res))
<1> DEFINE o == res.m
           got == res.got
           c == [o.counts EXCEPT ![h] = IF got = <<>> THEN @ ELSE @ + 1]
           n == [o EXCEPT !.last = h, !.counts = c]
<1>1. res \in [m : IO, got : Text] /\ o \in IO /\ got \in Text
  BY DEF Returns
<1>2. c \in [Names -> Nat]
  <2>1. o.counts \in [Names -> Nat]
    BY <1>1, Parts
  <2> HIDE DEF o, got
  <2> QED BY <2>1
<1>3. Counted(h, res) = [m |-> n, got |-> got]
  <2>1. Counted(h, res) = [res EXCEPT !.m.last = h,
                                      !.m.counts[h] = IF res.got = <<>> THEN @ ELSE @ + 1]
    BY DEF Counted
  <2>2. res = [m |-> o, got |-> got]
    BY <1>1
  <2>3. n = [o EXCEPT !.last = h, !.counts[h] = IF got = <<>> THEN @ ELSE @ + 1]
    BY <1>1
  <2> HIDE DEF o, got, n
  <2>4. Counted(h, res) = [m |-> [o EXCEPT !.last = h,
                                           !.counts[h] = IF got = <<>> THEN @ ELSE @ + 1],
                           got |-> got]
    BY <2>1, <2>2
  <2> QED BY <2>3, <2>4
<1> HIDE DEF c
<1>4. /\ n \in IO /\ SameReading(o, n) /\ SameWriting(o, n) /\ SameNaming(o, n)
      /\ n.mem = o.mem /\ n.disk = o.disk
  <2> HIDE DEF o
  <2> QED BY <1>1, <1>2, LastSet, ZenonT(60)
<1> HIDE DEF n
<1>5. OnlyReads(m, o, h)
  BY DEF Returns
<1>6. OnlyReads(m, n, h)
  BY <1>4, <1>5 DEF OnlyReads, SameReading, SameWriting, SameNaming
<1>7. ASSUME NEW log \in Log, Follows(m, h, log)
      PROVE  Follows(n, h, [log EXCEPT !.got = @ \o got])
  <2> DEFINE new == [log EXCEPT !.got = @ \o got]
  <2>1. Follows(o, h, new)
    BY <1>7 DEF Returns
  <2> HIDE DEF new, o
  <2>2. Follows(n, h, new)
    BY <1>4, <2>1, SameFollows
  <2> QED BY <2>2 DEF new
<1> DEFINE all == [m |-> n, got |-> got]
<1>8. all \in [m : IO, got : Text] /\ all.m = n /\ all.got = got
  BY <1>1, <1>4
<1> HIDE DEF o, got, all
<1>9. Returns(m, h, all)
  BY <1>6, <1>7, <1>8 DEF Returns
<1> QED BY <1>3, <1>9 DEF all

-----------------------------------------------------------------------------
\* The handle last read.
LEMMA LastOnly ==
    ASSUME NEW m \in IO, NEW last \in Names \cup {None}
    PROVE  LET n == [m EXCEPT !.last = last]
           IN /\ n \in IO /\ SameReading(m, n) /\ SameWriting(m, n) /\ SameNaming(m, n)
              /\ n.mem = m.mem /\ n.disk = m.disk
BY DEF IO, SameReading, SameWriting, SameNaming

\* What changes no file and no writer.
LEMMA WritingDelivers ==
    ASSUME NEW m, NEW n, SameWriting(m, n)
    PROVE  Delivers(m, n, {})
BY HeldElsewhere DEF SameWriting, Delivers

\* What changes no file and no writer, after what delivers.
LEMMA DeliversCompose ==
    ASSUME NEW l, NEW m, NEW n, Delivers(l, m, {}), SameWriting(m, n)
    PROVE  Delivers(l, n, {})
BY HeldElsewhere DEF SameWriting, Delivers

\* eof.
LEMMA EofDone ==
    ASSUME NEW m \in IO, NEW h \in Names
    PROVE  LET n == Eof(m, h)
           IN /\ n \in IO /\ OnlyReads(m, n, h)
              /\ \A log \in Log : Follows(m, h, log) => Follows(n, h, log)
<1> DEFINE l == Fill(m, h)
           n == [l EXCEPT !.last = h]
<1>1. /\ l \in IO /\ OnlyReads(m, l, h)
      /\ \A log \in Log : Follows(m, h, log) => Follows(l, h, log)
  BY FillDone
<1> HIDE DEF l
<1>2. /\ n \in IO /\ SameReading(l, n) /\ SameWriting(l, n) /\ SameNaming(l, n)
      /\ n.mem = l.mem /\ n.disk = l.disk
  BY <1>1, LastOnly
<1>3. Eof(m, h) = n
  BY DEF Eof, l
<1> HIDE DEF n
<1>4. OnlyReads(m, n, h)
  BY <1>1, <1>2 DEF OnlyReads, SameReading, SameWriting, SameNaming
<1>5. \A log \in Log : Follows(m, h, log) => Follows(n, h, log)
  BY <1>1, <1>2, SameFollows
<1> QED BY <1>2, <1>3, <1>4, <1>5

\* tell.
LEMMA TellDone ==
    ASSUME NEW m \in IO, NEW h \in Names
    PROVE  LET n == Tell(m, h)
           IN /\ n \in IO /\ SameReading(m, n) /\ SameNaming(m, n) /\ Delivers(m, n, {})
<1> DEFINE l == IF m.readers[h].file # None THEN m ELSE Flush(m, h)
           n == [l EXCEPT !.last = h]
<1>1. l \in IO /\ SameReading(m, l) /\ SameNaming(m, l) /\ Delivers(m, l, {})
  <2>1. CASE m.readers[h].file # None
    <3>1. l = m
      BY <2>1
    <3>2. SameReading(m, m) /\ SameNaming(m, m) /\ Delivers(m, m, {})
      BY DEF SameReading, SameNaming, Delivers
    <3> HIDE DEF l
    <3> QED BY <3>1, <3>2
  <2>2. CASE m.readers[h].file = None
    <3>1. l = Flush(m, h)
      BY <2>2
    <3> HIDE DEF l
    <3>2. Delivers(m, l, {})
      BY <3>1, FlushHolds DEF Delivers
    <3>3. l \in IO /\ SameReading(m, l) /\ SameNaming(m, l)
      BY <3>1, FlushLeaves
    <3> QED BY <3>2, <3>3
  <2> QED BY <2>1, <2>2
<1>2. Tell(m, h) = n
  BY DEF Tell
<1> HIDE DEF l
<1>3. /\ n \in IO /\ SameReading(l, n) /\ SameWriting(l, n) /\ SameNaming(l, n)
  BY <1>1, LastOnly
<1> HIDE DEF n
<1>4. Delivers(m, n, {})
  BY <1>1, <1>3, DeliversCompose
<1>5. SameReading(m, n) /\ SameNaming(m, n)
  BY <1>1, <1>3 DEF SameReading, SameNaming
<1> QED BY <1>2, <1>3, <1>4, <1>5

\* What opening a handle for reading or seeking it leaves alone.
Others(m, n, h) ==
    /\ SameWriting(m, n) /\ SameNaming(m, n) /\ n.mem = m.mem
    /\ \A g \in Names : g # h => n.readers[g] = m.readers[g] /\ n.strings[g] = m.strings[g]

\* A handle gets another reader.
LEMMA NewReader ==
    ASSUME NEW m \in IO, NEW h \in Names, NEW x \in Reader
    PROVE  LET n == [m EXCEPT !.readers[h] = x]
           IN n \in IO /\ Others(m, n, h) /\ n.readers[h] = x /\ n.strings = m.strings
<1> DEFINE R == [m.readers EXCEPT ![h] = x]
           n == [m EXCEPT !.readers = R]
<1>1. R \in [Names -> Reader] /\ R[h] = x /\ \A g \in Names : g # h => R[g] = m.readers[g]
  BY Parts
<1> HIDE DEF R
<1>2. /\ n \in IO /\ SameWriting(m, n) /\ SameNaming(m, n) /\ n.mem = m.mem /\ n.readers = R
      /\ n.strings = m.strings
  BY <1>1 DEF IO, SameWriting, SameNaming
<1>3. n = [m EXCEPT !.readers[h] = x]
  BY DEF R
<1> HIDE DEF n
<1> QED BY <1>1, <1>2, <1>3 DEF Others

\* seek.
LEMMA SeekDone ==
    ASSUME NEW m \in IO, NEW h \in Names, NEW pos \in Nat
    PROVE  LET n == Seek(m, h, pos)
           IN /\ n \in IO /\ Delivers(m, n, {m.writers[h].file}) /\ SameNaming(m, n)
              /\ m.readers[h].file # None =>
                    /\ Others(m, n, h) /\ n.strings = m.strings
                    /\ n.readers[h].file = m.readers[h].file
                    /\ n.readers[h].buf = <<>> /\ n.readers[h].off = pos
              /\ m.readers[h].file = None => SameReading(m, n)
<1> DEFINE n == Seek(m, h, pos)
<1>1. CASE m.readers[h].file # None
  <2> DEFINE x == [m.readers[h] EXCEPT !.buf = <<>>, !.off = pos]
             l == [m EXCEPT !.last = h]
             o == [l EXCEPT !.readers[h] = x]
  <2>1. x \in Reader /\ x.file = m.readers[h].file /\ x.buf = <<>> /\ x.off = pos
    <3>1. m.readers[h] \in Reader /\ <<>> \in Text
      BY ReaderParts, EmptySeq DEF Text
    <3> QED BY <3>1 DEF Reader
  <2>2. n = [m EXCEPT !.last = h, !.readers[h] = x]
    BY <1>1 DEF Seek
  <2> HIDE DEF x
  <2>3. [m EXCEPT !.last = h, !.readers[h] = x] = o
    OBVIOUS
  <2>4. l \in IO /\ SameReading(m, l) /\ SameWriting(m, l) /\ SameNaming(m, l) /\ l.mem = m.mem
    BY LastOnly
  <2> HIDE DEF l
  <2>5. o \in IO /\ Others(l, o, h) /\ o.readers[h] = x /\ o.strings = l.strings
    BY <2>1, <2>4, NewReader
  <2> HIDE DEF n, o
  <2>6. n = o
    BY <2>2, <2>3
  <2>7. Others(m, n, h) /\ n.strings = m.strings /\ SameWriting(m, n) /\ SameNaming(m, n)
    BY <2>4, <2>5, <2>6 DEF Others, SameReading, SameWriting, SameNaming
  <2>8. Delivers(m, n, {m.writers[h].file})
    BY <2>7, WritingDelivers DEF Delivers
  <2> QED BY <1>1, <2>1, <2>5, <2>6, <2>7, <2>8 DEF n
<1>2. CASE m.readers[h].file = None /\ m.writers[h].file # None
  <2> DEFINE l == Flush(m, h)
             x == [l.writers[h] EXCEPT !.off = pos]
             k == [l EXCEPT !.writers[h] = x]
             o == [k EXCEPT !.last = h]
  <2>1. /\ l \in IO /\ SameReading(m, l) /\ SameNaming(m, l)
        /\ \A g \in Names : l.writers[g].file = m.writers[g].file
    BY FlushLeaves
  <2>2. n = [l EXCEPT !.last = h, !.writers[h].off = pos]
    BY <1>2 DEF Seek
  <2>3. Delivers(m, l, {})
    BY FlushHolds DEF Delivers
  <2> HIDE DEF l
  <2>4. l.writers[h] \in Writer
    BY <2>1, WriterParts
  <2>5. x \in Writer /\ x.file = m.writers[h].file
    BY <2>1, <2>4 DEF Writer
  <2>6. [l EXCEPT !.last = h, !.writers[h].off = pos] = o
    OBVIOUS
  <2> HIDE DEF x
  <2>7. /\ k \in IO /\ SameReading(l, k) /\ SameNaming(l, k)
        /\ k.writers = [l.writers EXCEPT ![h] = x] /\ k.disk = l.disk
    BY <2>1, <2>5, WriterSet
  <2> HIDE DEF k
  <2>8. o \in IO /\ SameReading(k, o) /\ SameWriting(k, o) /\ SameNaming(k, o)
    BY <2>7, LastOnly
  <2> HIDE DEF n, o
  <2>9. n = o
    BY <2>2, <2>6
  <2>10. SameReading(m, n) /\ SameNaming(m, n)
    BY <2>1, <2>7, <2>8, <2>9 DEF SameReading, SameNaming
  <2>11. ASSUME NEW f \in Files \ {m.writers[h].file}, NEW t, Held(m, f, t)
         PROVE  Held(n, f, t)
    <3>1. Held(l, f, t)
      BY <2>3, <2>11 DEF Delivers
    <3>2. n.disk = l.disk /\ n.writers = [l.writers EXCEPT ![h] = x]
      BY <2>7, <2>8, <2>9 DEF SameWriting
    <3>3. l.writers \in [Names -> Writer] /\ l.writers[h].file # f /\ x.file # f
      BY <2>1, <2>5, Parts
    <3>4. \A g \in Names : l.writers[g].file = f \/ n.writers[g].file = f
                              => n.writers[g] = l.writers[g]
      BY <3>2, <3>3
    <3> QED BY <3>1, <3>2, <3>4, HeldElsewhere
  <2>12. Delivers(m, n, {m.writers[h].file})
    BY <2>11 DEF Delivers
  <2> QED BY <1>2, <2>8, <2>9, <2>10, <2>12 DEF n
<1>3. CASE m.readers[h].file = None /\ m.writers[h].file = None
  <2>1. n = [m EXCEPT !.last = h]
    BY <1>3 DEF Seek
  <2> DEFINE o == [m EXCEPT !.last = h]
  <2>2. o \in IO /\ SameReading(m, o) /\ SameWriting(m, o) /\ SameNaming(m, o)
    BY LastOnly
  <2> HIDE DEF n, o
  <2>3. n = o
    BY <2>1 DEF o
  <2>4. Delivers(m, n, {m.writers[h].file})
    BY <2>2, <2>3, WritingDelivers DEF Delivers
  <2> QED BY <1>3, <2>2, <2>3, <2>4 DEF n
<1> QED BY <1>1, <1>2, <1>3

\* open for reading.
LEMMA OpenReadDone ==
    ASSUME NEW m \in IO, NEW h \in Names, NEW f \in Files
    PROVE  LET n == OpenRead(m, h, f)
           IN /\ n \in IO /\ Others(m, n, h) /\ n.strings = m.strings
              /\ n.readers[h].file = f /\ n.readers[h].buf = <<>> /\ n.readers[h].off = 0
<1> DEFINE x == [NoReader EXCEPT !.file = f]
           n == [m EXCEPT !.readers[h] = x]
<1>1. x \in Reader /\ x.file = f /\ x.buf = <<>> /\ x.off = 0
  <2>1. <<>> \in Text
    BY EmptySeq DEF Text
  <2> QED BY <2>1 DEF NoReader, Reader
<1>2. OpenRead(m, h, f) = n
  BY DEF OpenRead
<1> HIDE DEF x
<1>3. n \in IO /\ Others(m, n, h) /\ n.readers[h] = x /\ n.strings = m.strings
  BY <1>1, NewReader
<1> HIDE DEF n
<1> QED BY <1>1, <1>2, <1>3

\* open a scalar for reading.
LEMMA OpenStringDone ==
    ASSUME NEW m \in IO, NEW h \in Names, NEW s \in Scalars
    PROVE  LET n == OpenString(m, h, s)
           IN /\ n \in IO /\ Others(m, n, h) /\ n.readers = m.readers
              /\ n.strings[h].of = s /\ n.strings[h].pos = 0
<1> DEFINE x == [of |-> s, pos |-> 0]
           S == [m.strings EXCEPT ![h] = x]
           n == [m EXCEPT !.strings = S]
<1>1. x \in StringReader /\ x.of = s /\ x.pos = 0
  BY DEF StringReader
<1>2. OpenString(m, h, s) = n
  BY DEF OpenString
<1> HIDE DEF x
<1>3. S \in [Names -> StringReader] /\ S[h] = x /\ \A g \in Names : g # h => S[g] = m.strings[g]
  BY <1>1, Parts
<1> HIDE DEF S
<1>4. /\ n \in IO /\ SameWriting(m, n) /\ SameNaming(m, n) /\ n.mem = m.mem
      /\ n.strings = S /\ n.readers = m.readers
  BY <1>3 DEF IO, SameWriting, SameNaming
<1> HIDE DEF n
<1> QED BY <1>1, <1>2, <1>3, <1>4 DEF Others

\* open a scalar for writing.
LEMMA OpenSinkDone ==
    ASSUME NEW m \in IO, NEW h \in Names, NEW s \in Scalars, NEW truncate \in BOOLEAN
    PROVE  LET n == OpenSink(m, h, s, truncate)
           IN /\ n \in IO /\ SameReading(m, n) /\ SameWriting(m, n) /\ SameNaming(m, n)
              /\ n.sinks[h] = s
<1> DEFINE M == [m.mem EXCEPT ![s] = IF truncate THEN <<>> ELSE @]
           K == [m.sinks EXCEPT ![h] = s]
           n == [m EXCEPT !.mem = M, !.sinks = K]
<1>1. M \in [Scalars -> Seq(Records)] /\ K \in [Names -> Scalars \cup {None}] /\ K[h] = s
  <2>1. m.mem \in [Scalars -> Seq(Records)] /\ m.sinks \in [Names -> Scalars \cup {None}]
        /\ <<>> \in Seq(Records)
    BY Parts, EmptySeq
  <2> QED BY <2>1
<1>2. OpenSink(m, h, s, truncate) = n
  BY DEF OpenSink
<1> HIDE DEF M, K
<1>3. /\ n \in IO /\ SameReading(m, n) /\ SameWriting(m, n) /\ SameNaming(m, n) /\ n.sinks = K
  BY <1>1 DEF IO, SameReading, SameWriting, SameNaming
<1> HIDE DEF n
<1> QED BY <1>1, <1>2, <1>3

\* print.
LEMMA WriteToDone ==
    ASSUME NEW m \in IO, NEW g \in Names, NEW r \in Records, NEW full \in BOOLEAN
    PROVE  LET n == WriteTo(m, g, r, full)
               f == m.writers[Resolve(m, g)].file
           IN /\ n \in IO /\ SameReading(m, n) /\ SameNaming(m, n) /\ Delivers(m, n, {f})
              /\ g \notin m.hidden /\ f # None =>
                    \A t : Held(m, f, t) => Held(n, f, Append(t, r))
              /\ g \in m.hidden => Delivers(m, n, {})
<1> DEFINE h == Resolve(m, g)
           f == m.writers[h].file
           n == WriteTo(m, g, r, full)
<1>0. h \in Names
  <2>1. m.alias[g] \in Names \cup {None}
    BY Parts
  <2> QED BY <2>1 DEF Resolve
<1>1. CASE g \in m.hidden
  <2>1. n = m
    BY <1>1 DEF WriteTo
  <2>2. m \in IO /\ SameReading(m, m) /\ SameNaming(m, m) /\ Delivers(m, m, {f}) /\ Delivers(m, m, {})
    BY DEF SameReading, SameNaming, Delivers
  <2> HIDE DEF n, f, h
  <2> QED BY <1>1, <2>1, <2>2 DEF n, f, h
<1>2. CASE g \notin m.hidden /\ f # None
  <2> DEFINE l == IF full THEN Flush(m, h) ELSE m
             w == l.writers[h]
             x == [w EXCEPT !.buf = Append(w.buf, r)]
             o == [l EXCEPT !.writers[h] = x]
  <2>1. /\ l \in IO /\ SameReading(m, l) /\ SameNaming(m, l) /\ Delivers(m, l, {})
        /\ w.file = f
    <3>1. CASE full
      <4>1. l = Flush(m, h)
        BY <3>1
      <4> HIDE DEF l
      <4>2. Delivers(m, l, {})
        BY <1>0, <4>1, FlushHolds DEF Delivers
      <4> QED BY <1>0, <4>1, <4>2, FlushLeaves
    <3>2. CASE ~full
      <4>1. l = m
        BY <3>2
      <4> HIDE DEF l
      <4> QED BY <4>1 DEF SameReading, SameNaming, Delivers
    <3> QED BY <3>1, <3>2
  <2>2. n = [l EXCEPT !.writers[h].buf = Append(@, r)]
    <3> HIDE DEF h
    <3> QED BY <1>2 DEF WriteTo, h
  <2> HIDE DEF l, h
  <2>3. w \in Writer /\ w.buf \in Seq(Records) /\ l.writers \in [Names -> Writer]
    BY <1>0, <2>1, WriterParts, Parts
  <2>4. [l EXCEPT !.writers[h].buf = Append(@, r)] = o
    OBVIOUS
  <2>5. x \in Writer /\ x.file = f
    <3>1. Append(w.buf, r) \in Seq(Records)
      BY <2>3, AppendToSeq
    <3> HIDE DEF w, f
    <3> QED BY <2>1, <2>3, <3>1 DEF Writer
  <2>6. /\ o \in IO /\ SameReading(l, o) /\ SameNaming(l, o)
        /\ o.writers = [l.writers EXCEPT ![h] = x] /\ o.disk = l.disk
    <3> HIDE DEF x
    <3> QED BY <1>0, <2>1, <2>5, WriterSet
  <2> HIDE DEF n, o
  <2>7. n = o
    BY <2>2, <2>4
  <2>8. f \in Files
    <3>1. f \in Files \cup {None}
      BY <1>0, WriterParts
    <3> QED BY <1>2, <3>1
  <2>9. ASSUME NEW t, Held(m, f, t) PROVE Held(o, f, Append(t, r))
    <3>1. Held(l, f, t)
      BY <2>1, <2>8, <2>9 DEF Delivers
    <3>2. o.writers = [l.writers EXCEPT ![h] = [l.writers[h] EXCEPT !.buf = Append(l.writers[h].buf, r)]]
      BY <2>6
    <3> HIDE DEF f
    <3> QED BY <1>0, <2>1, <2>6, <2>8, <3>1, <3>2, PrintHeld
  <2>10. ASSUME NEW k \in Files \ {f}, NEW t, Held(m, k, t)
         PROVE  Held(o, k, t)
    <3>1. Held(l, k, t)
      BY <2>1, <2>10 DEF Delivers
    <3>2. w.file # k /\ x.file # k
      BY <2>1, <2>5, <2>10
    <3> HIDE DEF x
    <3>3. \A e \in Names : l.writers[e].file = k \/ o.writers[e].file = k
                              => o.writers[e] = l.writers[e]
      BY <2>3, <2>6, <3>2
    <3>4. o.disk[k] = l.disk[k]
      BY <2>6
    <3> QED BY <3>1, <3>3, <3>4, HeldElsewhere
  <2>11. SameReading(m, o) /\ SameNaming(m, o)
    BY <2>1, <2>6 DEF SameReading, SameNaming
  <2>12. Delivers(m, o, {f})
    BY <2>10 DEF Delivers
  <2> HIDE DEF f
  <2>13. \A t : Held(m, f, t) => Held(o, f, Append(t, r))
    BY <2>9
  <2> QED BY <1>2, <2>6, <2>7, <2>11, <2>12, <2>13 DEF n, f, h
<1>3. CASE g \notin m.hidden /\ f = None
  <2>1. n \in IO /\ SameReading(m, n) /\ SameNaming(m, n) /\ SameWriting(m, n)
    <3>1. CASE m.sinks[h] # None
      <4> DEFINE s == m.sinks[h]
                 M == [m.mem EXCEPT ![s] = Append(@, r)]
                 o == [m EXCEPT !.mem = M]
      <4>1. n = o
        BY <1>3, <3>1 DEF WriteTo
      <4>2. s \in Scalars
        BY <1>0, <3>1, Parts
      <4>3. m.mem \in [Scalars -> Seq(Records)] /\ m.mem[s] \in Seq(Records)
        BY <4>2, Parts
      <4>4. Append(m.mem[s], r) \in Seq(Records)
        <5> HIDE DEF s
        <5> QED BY <4>3, AppendToSeq
      <4>5. M \in [Scalars -> Seq(Records)]
        <5> HIDE DEF s
        <5> QED BY <4>2, <4>3, <4>4
      <4> HIDE DEF M, n
      <4> QED BY <4>1, <4>5 DEF IO, SameReading, SameNaming, SameWriting
    <3>2. CASE m.sinks[h] = None
      <4> DEFINE P == Append(m.out, r)
                 o == [m EXCEPT !.out = P]
      <4>1. n = o
        BY <1>3, <3>2 DEF WriteTo
      <4>2. P \in Seq(Records)
        BY Parts, AppendToSeq
      <4> HIDE DEF P, n
      <4> QED BY <4>1, <4>2 DEF IO, SameReading, SameNaming, SameWriting
    <3> QED BY <3>1, <3>2
  <2> HIDE DEF n, f, h
  <2>2. Delivers(m, n, {f})
    BY <2>1, WritingDelivers DEF Delivers
  <2> QED BY <1>3, <2>1, <2>2 DEF n, f, h
<1> QED BY <1>1, <1>2, <1>3

-----------------------------------------------------------------------------
(***************************************************************************)
(* Naming.                                                                 *)
(***************************************************************************)
SameFiles(m, n) == SameReading(m, n) /\ SameWriting(m, n) /\ n.mem = m.mem
AliasSave == [n : Names, old : Names \cup {None}]
\* What `local` leaves alone: the blocks around the innermost one.
Around(m, n) ==
    /\ Len(n.blocks) = Len(m.blocks)
    /\ \A d \in 1 .. Len(m.blocks) - 1 : n.blocks[d] = m.blocks[d]

\* The parts of a block.
LEMMA BlockParts ==
    ASSUME NEW m \in IO
    PROVE  /\ Len(m.blocks) \in Nat
           /\ m.blocks # <<>> => Len(m.blocks) >= 1
           /\ \A d \in 1 .. Len(m.blocks) :
                 /\ m.blocks[d] \in Block /\ m.blocks[d].alias \in Seq(AliasSave)
                 /\ m.blocks[d].dot \in Seq(Names \cup {None})
                 /\ m.blocks[d].globs \in SUBSET Names
<1>1. m.blocks \in Seq(Block)
  BY Parts
<1>2. Len(m.blocks) \in Nat /\ (m.blocks # <<>> => Len(m.blocks) >= 1)
  BY <1>1, LastOfSeq, LenProperties
<1>3. \A d \in 1 .. Len(m.blocks) : m.blocks[d] \in Block
  BY <1>1, ElementOfSeq
<1> QED BY <1>2, <1>3 DEF Block, AliasSave

\* *F = *G.
LEMMA AliasDone ==
    ASSUME NEW m \in IO, NEW k \in Names, NEW t \in Names \cup {None}
    PROVE  LET n == Alias(m, k, t)
           IN /\ n \in IO /\ SameFiles(m, n) /\ n.blocks = m.blocks /\ n.hidden = m.hidden
              /\ n.alias = [m.alias EXCEPT ![k] = t]
<1> DEFINE A == [m.alias EXCEPT ![k] = t]
           n == [m EXCEPT !.alias = A]
<1>1. A \in [Names -> Names \cup {None}]
  BY Parts
<1>2. Alias(m, k, t) = n
  BY DEF Alias
<1> HIDE DEF A
<1>3. /\ n \in IO /\ SameFiles(m, n) /\ n.blocks = m.blocks /\ n.hidden = m.hidden /\ n.alias = A
  BY <1>1 DEF IO, SameFiles, SameReading, SameWriting
<1> QED BY <1>2, <1>3 DEF A

\* local *F = *G.
LEMMA LocalAliasDone ==
    ASSUME NEW m \in IO, m.blocks # <<>>, NEW k \in Names, NEW t \in Names \cup {None}
    PROVE  LET n == LocalAlias(m, k, t)
               D == Top(m)
           IN /\ n \in IO /\ SameFiles(m, n) /\ Around(m, n) /\ n.hidden = m.hidden
              /\ n.alias = [m.alias EXCEPT ![k] = t]
              /\ n.blocks[D].alias = Append(m.blocks[D].alias, [n |-> k, old |-> m.alias[k]])
              /\ n.blocks[D].dot = m.blocks[D].dot /\ n.blocks[D].globs = m.blocks[D].globs
<1> DEFINE D == Top(m)
           save == [n |-> k, old |-> m.alias[k]]
           saves == Append(m.blocks[D].alias, save)
           b == [m.blocks[D] EXCEPT !.alias = saves]
           A == [m.alias EXCEPT ![k] = t]
           B == [m.blocks EXCEPT ![D] = b]
           n == [m EXCEPT !.alias = A, !.blocks = B]
<1>0. D \in 1 .. Len(m.blocks) /\ D = Len(m.blocks) /\ D \in Nat
  BY BlockParts DEF Top
<1>1. m.alias \in [Names -> Names \cup {None}] /\ m.blocks \in Seq(Block)
  BY Parts
<1>2. A \in [Names -> Names \cup {None}]
  BY <1>1
<1>3. save \in AliasSave
  BY <1>1 DEF AliasSave
<1>4. LocalAlias(m, k, t) = [m EXCEPT !.alias[k] = t, !.blocks[D].alias = Append(@, save)]
  BY DEF LocalAlias
<1>5. n = [m EXCEPT !.alias[k] = t, !.blocks[D].alias = Append(@, save)]
  <2> HIDE DEF save, D
  <2> QED OBVIOUS
<1> HIDE DEF save, D
<1>6. m.blocks[D] \in Block /\ m.blocks[D].alias \in Seq(AliasSave)
  BY <1>0, BlockParts
<1>7. saves \in Seq(AliasSave)
  BY <1>3, <1>6, AppendToSeq
<1> HIDE DEF saves
<1>8. /\ b \in Block /\ b.alias = saves /\ b.dot = m.blocks[D].dot
      /\ b.globs = m.blocks[D].globs
  BY <1>6, <1>7 DEF Block, AliasSave
<1> HIDE DEF b
<1>9. /\ B \in Seq(Block) /\ Len(B) = Len(m.blocks) /\ B[D] = b
      /\ \A d \in 1 .. Len(m.blocks) : d # D => B[d] = m.blocks[d]
  BY <1>0, <1>1, <1>8, ExceptSeq
<1>10. \A d \in 1 .. Len(m.blocks) - 1 : B[d] = m.blocks[d]
  BY <1>0, <1>9
<1> HIDE DEF A, B
<1>11. /\ n \in IO /\ SameFiles(m, n) /\ n.blocks = B /\ n.hidden = m.hidden /\ n.alias = A
  BY <1>2, <1>9 DEF IO, SameFiles, SameReading, SameWriting
<1> HIDE DEF n
<1>12. Around(m, n)
  BY <1>9, <1>10, <1>11 DEF Around
<1>13. LocalAlias(m, k, t) = n
  BY <1>4, <1>5
<1> QED BY <1>8, <1>9, <1>11, <1>12, <1>13 DEF A, saves, save, D

\* local *F.
LEMMA LocalGlobDone ==
    ASSUME NEW m \in IO, m.blocks # <<>>, NEW k \in Names
    PROVE  LET n == LocalGlob(m, k)
               D == Top(m)
           IN /\ n \in IO /\ SameFiles(m, n) /\ Around(m, n)
              /\ n.hidden = m.hidden \cup {k}
              /\ n.alias = [m.alias EXCEPT ![k] = None]
              /\ n.blocks[D].alias = Append(m.blocks[D].alias, [n |-> k, old |-> m.alias[k]])
              /\ n.blocks[D].dot = m.blocks[D].dot
              /\ n.blocks[D].globs = m.blocks[D].globs \cup ({k} \ m.hidden)
<1> DEFINE D == Top(m)
           l == LocalAlias(m, k, None)
           globs == l.blocks[D].globs \cup ({k} \ m.hidden)
           b == [l.blocks[D] EXCEPT !.globs = globs]
           B == [l.blocks EXCEPT ![D] = b]
           H == l.hidden \cup {k}
           n == [l EXCEPT !.hidden = H, !.blocks = B]
<1>1. /\ l \in IO /\ SameFiles(m, l) /\ Around(m, l) /\ l.hidden = m.hidden
      /\ l.alias = [m.alias EXCEPT ![k] = None]
      /\ l.blocks[D].alias = Append(m.blocks[D].alias, [n |-> k, old |-> m.alias[k]])
      /\ l.blocks[D].dot = m.blocks[D].dot /\ l.blocks[D].globs = m.blocks[D].globs
  BY LocalAliasDone
<1>2. D \in 1 .. Len(m.blocks) /\ D = Len(m.blocks) /\ D \in Nat
  BY BlockParts DEF Top
<1>3. LocalGlob(m, k) = [l EXCEPT !.hidden = @ \cup {k},
                                  !.blocks[D].globs = @ \cup ({k} \ m.hidden)]
  BY DEF LocalGlob
<1> HIDE DEF l, D
<1>4. n = [l EXCEPT !.hidden = @ \cup {k}, !.blocks[D].globs = @ \cup ({k} \ m.hidden)]
  OBVIOUS
<1>5. Len(l.blocks) = Len(m.blocks) /\ l.blocks \in Seq(Block) /\ l.hidden \in SUBSET Names
  BY <1>1, Parts DEF Around
<1>6. l.blocks[D] \in Block /\ l.blocks[D].globs \in SUBSET Names
  BY <1>1, <1>2, <1>5, BlockParts
<1>7. globs \in SUBSET Names /\ globs = m.blocks[D].globs \cup ({k} \ m.hidden)
  BY <1>1, <1>6
<1> HIDE DEF globs
<1>8. b \in Block /\ b.globs = globs /\ b.alias = l.blocks[D].alias /\ b.dot = l.blocks[D].dot
  BY <1>6, <1>7 DEF Block
<1> HIDE DEF b
<1>9. /\ B \in Seq(Block) /\ Len(B) = Len(l.blocks) /\ B[D] = b
      /\ \A d \in 1 .. Len(l.blocks) : d # D => B[d] = l.blocks[d]
  BY <1>2, <1>5, <1>8, ExceptSeq
<1>10. \A d \in 1 .. Len(m.blocks) - 1 : B[d] = m.blocks[d]
  <2>1. \A d \in 1 .. Len(m.blocks) - 1 : d \in 1 .. Len(m.blocks) /\ d # D
    BY <1>2
  <2> QED BY <1>1, <1>5, <1>9, <2>1 DEF Around
<1>11. H \in SUBSET Names /\ H = m.hidden \cup {k}
  BY <1>1, <1>5
<1> HIDE DEF B, H
<1>12. /\ n \in IO /\ SameFiles(l, n) /\ n.blocks = B /\ n.hidden = H /\ n.alias = l.alias
  BY <1>1, <1>9, <1>11 DEF IO, SameFiles, SameReading, SameWriting
<1> HIDE DEF n
<1>13. SameFiles(m, n)
  BY <1>1, <1>12 DEF SameFiles, SameReading, SameWriting
<1>14. Around(m, n)
  BY <1>5, <1>9, <1>10, <1>12 DEF Around
<1>15. LocalGlob(m, k) = n
  BY <1>3, <1>4
<1>16. /\ n.alias = [m.alias EXCEPT ![k] = None] /\ n.hidden = m.hidden \cup {k}
       /\ n.blocks[D].alias = Append(m.blocks[D].alias, [n |-> k, old |-> m.alias[k]])
       /\ n.blocks[D].dot = m.blocks[D].dot
       /\ n.blocks[D].globs = m.blocks[D].globs \cup ({k} \ m.hidden)
  BY <1>1, <1>7, <1>8, <1>9, <1>11, <1>12
<1> HIDE DEF globs
<1> QED BY <1>12, <1>13, <1>14, <1>15, <1>16 DEF D

\* local $. and its assignment.
LEMMA LocalDotDone ==
    ASSUME NEW m \in IO, m.blocks # <<>>
    PROVE  LET n == LocalDot(m)
               D == Top(m)
           IN /\ n \in IO /\ SameFiles(m, n) /\ Around(m, n) /\ n.hidden = m.hidden
              /\ n.alias = m.alias
              /\ n.blocks[D].alias = m.blocks[D].alias /\ n.blocks[D].globs = m.blocks[D].globs
<1> DEFINE D == Top(m)
           dot == Append(m.blocks[D].dot, m.last)
           b == [m.blocks[D] EXCEPT !.dot = dot]
           B == [m.blocks EXCEPT ![D] = b]
           n == [m EXCEPT !.blocks = B]
<1>0. D \in 1 .. Len(m.blocks) /\ D = Len(m.blocks) /\ D \in Nat
  BY BlockParts DEF Top
<1>1. m.blocks \in Seq(Block) /\ m.last \in Names \cup {None}
  BY Parts
<1>2. LocalDot(m) = [m EXCEPT !.blocks[D].dot = Append(@, m.last)]
  BY DEF LocalDot
<1> HIDE DEF D
<1>3. n = [m EXCEPT !.blocks[D].dot = Append(@, m.last)]
  OBVIOUS
<1>4. m.blocks[D] \in Block /\ m.blocks[D].dot \in Seq(Names \cup {None})
  BY <1>0, BlockParts
<1>5. dot \in Seq(Names \cup {None})
  BY <1>1, <1>4, AppendToSeq
<1> HIDE DEF dot
<1>6. b \in Block /\ b.alias = m.blocks[D].alias /\ b.globs = m.blocks[D].globs
  BY <1>4, <1>5 DEF Block
<1> HIDE DEF b
<1>7. /\ B \in Seq(Block) /\ Len(B) = Len(m.blocks) /\ B[D] = b
      /\ \A d \in 1 .. Len(m.blocks) : d # D => B[d] = m.blocks[d]
  BY <1>0, <1>1, <1>6, ExceptSeq
<1>8. \A d \in 1 .. Len(m.blocks) - 1 : B[d] = m.blocks[d]
  BY <1>0, <1>7
<1> HIDE DEF B
<1>9. /\ n \in IO /\ SameFiles(m, n) /\ n.blocks = B /\ n.hidden = m.hidden
      /\ n.alias = m.alias
  BY <1>7 DEF IO, SameFiles, SameReading, SameWriting
<1> HIDE DEF n
<1>10. Around(m, n)
  BY <1>7, <1>8, <1>9 DEF Around
<1>11. LocalDot(m) = n
  BY <1>2, <1>3
<1> QED BY <1>6, <1>7, <1>9, <1>10, <1>11 DEF D

\* `$. = k`.
LEMMA SetDotDone ==
    ASSUME NEW m \in IO, NEW k \in Nat
    PROVE  LET n == SetDot(m, k) IN n \in IO /\ SameFiles(m, n) /\ SameNaming(m, n)
<1> DEFINE n == SetDot(m, k)
<1>1. CASE m.last = None
  <2>1. n = m
    BY <1>1 DEF SetDot
  <2>2. SameFiles(m, m) /\ SameNaming(m, m)
    BY DEF SameFiles, SameReading, SameWriting, SameNaming
  <2> HIDE DEF n
  <2> QED BY <2>1, <2>2 DEF n
<1>2. CASE m.last # None
  <2> DEFINE c == [m.counts EXCEPT ![m.last] = k]
             o == [m EXCEPT !.counts = c]
  <2>1. n = o
    BY <1>2 DEF SetDot
  <2>2. c \in [Names -> Nat]
    BY Parts
  <2> HIDE DEF c, n
  <2>3. o \in IO /\ SameFiles(m, o) /\ SameNaming(m, o)
    BY <2>2 DEF IO, SameFiles, SameReading, SameWriting, SameNaming
  <2> QED BY <2>1, <2>3 DEF n
<1> QED BY <1>1, <1>2

\* A block begins.
LEMMA PushDone ==
    ASSUME NEW m \in IO
    PROVE  LET n == [m EXCEPT !.blocks = Append(@, NoSaves)]
               D == Len(m.blocks)
           IN /\ n \in IO /\ SameFiles(m, n) /\ n.alias = m.alias /\ n.hidden = m.hidden
              /\ n.blocks # <<>> /\ Len(n.blocks) = D + 1
              /\ \A d \in 1 .. D : n.blocks[d] = m.blocks[d]
              /\ n.blocks[D + 1] = NoSaves
<1> DEFINE B == Append(m.blocks, NoSaves)
           n == [m EXCEPT !.blocks = B]
<1>1. NoSaves \in Block
  BY EmptySeq DEF NoSaves, Block
<1>2. /\ B \in Seq(Block) /\ B # <<>> /\ Len(B) = Len(m.blocks) + 1
      /\ \A d \in 1 .. Len(m.blocks) : B[d] = m.blocks[d]
      /\ B[Len(m.blocks) + 1] = NoSaves
  <2>1. m.blocks \in Seq(Block)
    BY Parts
  <2> DEFINE b == m.blocks
             s == NoSaves
  <2> HIDE DEF b, s
  <2>2. b \in Seq(Block) /\ s \in Block
    BY <1>1, <2>1 DEF b, s
  <2>3. /\ Append(b, s) \in Seq(Block) /\ Append(b, s) # <<>> /\ Len(Append(b, s)) = Len(b) + 1
        /\ \A d \in 1 .. Len(b) : Append(b, s)[d] = b[d]
        /\ Append(b, s)[Len(b) + 1] = s
    BY <2>2, AppendToSeq
  <2> QED BY <2>3 DEF b, s
<1> HIDE DEF B
<1>3. /\ n \in IO /\ SameFiles(m, n) /\ n.blocks = B /\ n.hidden = m.hidden
      /\ n.alias = m.alias
  BY <1>2 DEF IO, SameFiles, SameReading, SameWriting
<1> QED BY <1>2, <1>3 DEF B
-----------------------------------------------------------------------------
\* The end of a block undoes saves one by one: the memories it goes through.
Undone(r, m, s) ==
    r = [i \in 0 .. Len(s) |-> IF i = 0 THEN m ELSE RestoreAlias(r[i - 1], s[i])]
OnlyAlias(m, n) ==
    n \in IO /\ SameFiles(m, n) /\ n.blocks = m.blocks /\ n.hidden = m.hidden

\* One save is undone.
LEMMA RestoreDone ==
    ASSUME NEW m \in IO, NEW s \in AliasSave
    PROVE  /\ OnlyAlias(m, RestoreAlias(m, s))
           /\ RestoreAlias(m, s).alias = [m.alias EXCEPT ![s.n] = s.old]
<1>1. s.n \in Names /\ s.old \in Names \cup {None}
  BY DEF AliasSave
<1>2. RestoreAlias(m, s) = Alias(m, s.n, s.old)
  BY DEF RestoreAlias, Alias
<1> QED BY <1>1, <1>2, AliasDone DEF OnlyAlias

\* The memories that undoing the saves one by one goes through.
LEMMA UndoRun ==
    ASSUME NEW m \in IO, NEW s \in Seq(AliasSave)
    PROVE  \E r : /\ r[0] = m /\ InTurn(RestoreAlias, m, s) = r[Len(s)]
                  /\ \A i \in 1 .. Len(s) : r[i] = RestoreAlias(r[i - 1], s[i])
                  /\ \A i \in 0 .. Len(s) : OnlyAlias(m, r[i])
<1> DEFINE n == Len(s)
           F == [i \in 1 .. n |-> [x \in IO |-> RestoreAlias(x, s[i])]]
<1>1. n \in Nat /\ \A i \in 1 .. n : s[i] \in AliasSave
  BY ElementOfSeq, LenProperties
<1>2. \A i \in 1 .. n : \A x \in IO : RestoreAlias(x, s[i]) \in IO
  <2> HIDE DEF n
  <2>1. \A i \in 1 .. n : \A x \in IO : OnlyAlias(x, RestoreAlias(x, s[i]))
    BY <1>1, RestoreDone
  <2> QED BY <2>1 DEF OnlyAlias
<1>3. \A i \in 1 .. n : \A x \in IO : F[i][x] = RestoreAlias(x, s[i])
  <2> HIDE DEF n
  <2> QED OBVIOUS
<1>4. PICK f : f \in [0 .. n -> IO] /\ f[0] = m /\ \A i \in 1 .. n : f[i] = F[i][f[i - 1]]
  <2>1. Steps(F, n, IO)
    <3> HIDE DEF n
    <3> QED BY <1>2 DEF Steps
  <2> HIDE DEF F, n
  <2>2. PICK f : Path(f, F, n, m, IO)
    BY <1>1, <2>1, Unrolled
  <2> QED BY <2>2 DEF Path
<1>5. \A i \in 1 .. n : f[i] = RestoreAlias(f[i - 1], s[i])
  <2> HIDE DEF F, n
  <2>1. ASSUME NEW i \in 1 .. n PROVE f[i] = RestoreAlias(f[i - 1], s[i])
    <3>1. i - 1 \in 0 .. n
      BY <1>1
    <3>2. f[i - 1] \in IO
      BY <1>4, <3>1
    <3> QED BY <1>3, <1>4, <3>2
  <2> QED BY <2>1
<1>6. Undone(f, m, s)
  <2> HIDE DEF F
  <2>1. \A i \in 0 .. n : f[i] = IF i = 0 THEN m ELSE RestoreAlias(f[i - 1], s[i])
    <3>1. \A i \in 0 .. n : i = 0 \/ i \in 1 .. n
      BY <1>1
    <3> HIDE DEF n
    <3>2. \A i \in 1 .. n : i # 0
      BY <1>1
    <3> QED BY <1>4, <1>5, <3>1, <3>2
  <2>2. f = [i \in 0 .. n |-> f[i]]
    BY <1>4
  <2> QED BY <2>1, <2>2 DEF Undone
<1> DEFINE r == CHOOSE g : Undone(g, m, s)
<1>7. Undone(r, m, s)
  BY <1>6
<1>8. InTurn(RestoreAlias, m, s) = r[n]
  BY DEF InTurn, Undone
<1> HIDE DEF r, F
<1>9. r[0] = m /\ \A i \in 1 .. n : r[i] = RestoreAlias(r[i - 1], s[i])
  <2>1. 0 \in 0 .. n /\ \A i \in 1 .. n : i \in 0 .. n /\ i # 0
    BY <1>1
  <2>2. r = [i \in 0 .. n |-> IF i = 0 THEN m ELSE RestoreAlias(r[i - 1], s[i])]
    BY <1>7 DEF Undone
  <2> HIDE DEF n
  <2>3. \A i \in 0 .. n : r[i] = IF i = 0 THEN m ELSE RestoreAlias(r[i - 1], s[i])
    BY <2>2
  <2> QED BY <2>1, <2>3
<1>10. \A i \in 0 .. n : OnlyAlias(m, r[i])
  <2> HIDE DEF n
  <2> DEFINE T == {i \in 0 .. n : OnlyAlias(m, r[i])}
  <2>1. 0 \in T
    <3>1. OnlyAlias(m, m)
      BY DEF OnlyAlias, SameFiles, SameReading, SameWriting
    <3> QED BY <1>1, <1>9, <3>1
  <2>2. ASSUME NEW i \in 1 .. n, i - 1 \in T PROVE i \in T
    <3>1. OnlyAlias(m, r[i - 1])
      BY <2>2
    <3>2. r[i - 1] \in IO
      BY <3>1 DEF OnlyAlias
    <3>3. OnlyAlias(r[i - 1], r[i])
      BY <1>1, <1>9, <3>2, RestoreDone
    <3>4. OnlyAlias(m, r[i])
      BY <3>1, <3>3 DEF OnlyAlias, SameFiles, SameReading, SameWriting
    <3>5. i \in 0 .. n
      BY <1>1
    <3> QED BY <3>4, <3>5
  <2> HIDE DEF T
  <2>3. \A i \in 0 .. n : i \in T
    BY <1>1, <2>1, <2>2, CountUp
  <2> QED BY <2>3 DEF T
<1> QED BY <1>8, <1>9, <1>10

\* Undoing the first k saves, the last of them first, makes the names stand for what they
\* stand for in look: for a name with a save the first one says so.
UndoesTo(s, k, alias, look) ==
    \A x \in Names :
       \/ \E i \in 1 .. k : s[i].n = x /\ s[i].old = look[x] /\ \A j \in 1 .. i - 1 : s[j].n # x
       \/ (\A i \in 1 .. k : s[i].n # x) /\ alias[x] = look[x]
Undoes(s, alias, look) == UndoesTo(s, Len(s), alias, look)
Looks == [Names -> Names \cup {None}]

\* One save is undone.
LEMMA UndoesLess ==
    ASSUME NEW k \in Nat, k > 0, NEW s, s[k] \in AliasSave, NEW alias \in Looks, NEW look \in Looks,
           UndoesTo(s, k, alias, look)
    PROVE  UndoesTo(s, k - 1, [alias EXCEPT ![s[k].n] = s[k].old], look)
<1> DEFINE A == [alias EXCEPT ![s[k].n] = s[k].old]
<1>1. s[k].n \in Names
  BY DEF AliasSave
<1>2. A[s[k].n] = s[k].old /\ \A x \in Names : x # s[k].n => A[x] = alias[x]
  BY <1>1 DEF Looks
<1> HIDE DEF A
<1>3. \A i \in 1 .. k : i = k \/ i \in 1 .. k - 1
  OBVIOUS
<1>4. \A i \in 1 .. k - 1 : i \in 1 .. k
  OBVIOUS
<1>5. SUFFICES ASSUME NEW x \in Names
      PROVE  \/ \E i \in 1 .. k - 1 :
                   s[i].n = x /\ s[i].old = look[x] /\ \A j \in 1 .. i - 1 : s[j].n # x
             \/ (\A i \in 1 .. k - 1 : s[i].n # x) /\ A[x] = look[x]
  BY DEF UndoesTo, A
<1>6. CASE \E i \in 1 .. k :
              s[i].n = x /\ s[i].old = look[x] /\ \A j \in 1 .. i - 1 : s[j].n # x
  <2>1. PICK i \in 1 .. k :
              s[i].n = x /\ s[i].old = look[x] /\ \A j \in 1 .. i - 1 : s[j].n # x
    BY <1>6
  <2>2. CASE i = k
    BY <1>2, <2>1, <2>2
  <2>3. CASE i # k
    BY <1>3, <2>1, <2>3
  <2> QED BY <2>2, <2>3
<1>7. CASE (\A i \in 1 .. k : s[i].n # x) /\ alias[x] = look[x]
  <2>1. k \in 1 .. k
    OBVIOUS
  <2>2. s[k].n # x
    BY <1>7, <2>1
  <2> QED BY <1>2, <1>4, <1>7, <2>2
<1> QED BY <1>6, <1>7 DEF UndoesTo

\* The saves are undone: the names stand for what they stood for.
LEMMA UndoGives ==
    ASSUME NEW m \in IO, NEW s \in Seq(AliasSave), NEW look \in Looks,
           Undoes(s, m.alias, look)
    PROVE  InTurn(RestoreAlias, m, Undo(s)).alias = look
<1> DEFINE n == Len(s)
           u == Undo(s)
<1>1. n \in Nat /\ (\A i \in 1 .. n : s[i] \in AliasSave)
      /\ u \in Seq(AliasSave) /\ Len(u) = n /\ (\A i \in 1 .. n : u[i] = s[n - i + 1])
  BY ElementOfSeq, ReverseOfSeq, LenProperties DEF Undo
<1> HIDE DEF u
<1>2. PICK r : /\ r[0] = m /\ InTurn(RestoreAlias, m, u) = r[Len(u)]
               /\ \A i \in 1 .. Len(u) : r[i] = RestoreAlias(r[i - 1], u[i])
               /\ \A i \in 0 .. Len(u) : OnlyAlias(m, r[i])
  BY <1>1, UndoRun
<1>3. /\ r[0] = m /\ InTurn(RestoreAlias, m, u) = r[n]
      /\ \A i \in 1 .. n : r[i] = RestoreAlias(r[i - 1], u[i])
      /\ \A i \in 0 .. n : r[i] \in IO
  BY <1>1, <1>2 DEF OnlyAlias
<1>4. UndoesTo(s, n, m.alias, look)
  BY DEF Undoes
<1> HIDE DEF n
<1> DEFINE T == {i \in 0 .. n : UndoesTo(s, n - i, r[i].alias, look)}
<1>5. 0 \in T
  <2>1. 0 \in 0 .. n /\ n - 0 = n
    BY <1>1
  <2> QED BY <1>3, <1>4, <2>1
<1>6. ASSUME NEW i \in 1 .. n, i - 1 \in T PROVE i \in T
  <2> DEFINE k == n - i + 1
             a == r[i - 1].alias
  <2>1. UndoesTo(s, n - (i - 1), a, look)
    BY <1>6
  <2>2. n - (i - 1) = k /\ n - i = k - 1 /\ k \in Nat /\ k > 0 /\ k \in 1 .. n
        /\ i \in 0 .. n /\ i - 1 \in 0 .. n
    BY <1>1
  <2>3. s[k] \in AliasSave /\ r[i - 1] \in IO /\ r[i] = RestoreAlias(r[i - 1], s[k])
    BY <1>1, <1>3, <2>2
  <2>4. r[i].alias = [a EXCEPT ![s[k].n] = s[k].old]
    BY <2>3, RestoreDone
  <2>5. a \in Looks
    BY <2>3, Parts DEF Looks
  <2> HIDE DEF k, a
  <2>6. UndoesTo(s, k - 1, [a EXCEPT ![s[k].n] = s[k].old], look)
    BY <2>1, <2>2, <2>3, <2>5, UndoesLess
  <2> QED BY <2>2, <2>4, <2>6
<1> HIDE DEF T
<1>7. \A i \in 0 .. n : i \in T
  BY <1>1, <1>5, <1>6, CountUp
<1>8. UndoesTo(s, 0, r[n].alias, look)
  <2>1. n \in 0 .. n /\ n - n = 0
    BY <1>1
  <2> QED BY <1>7, <2>1 DEF T
<1>9. r[n].alias = look
  <2>1. r[n].alias \in Looks
    <3>1. n \in 0 .. n
      BY <1>1
    <3> QED BY <1>3, <3>1, Parts DEF Looks
  <2>2. \A x \in Names : r[n].alias[x] = look[x]
    <3>1. 1 .. 0 = {}
      OBVIOUS
    <3> QED BY <1>8, <3>1 DEF UndoesTo
  <2> QED BY <2>1, <2>2 DEF Looks
<1> QED BY <1>3, <1>9 DEF u

\* A block ends.
LEMMA CloseBlockDone ==
    ASSUME NEW m \in IO, Len(m.blocks) > 1
    PROVE  LET n == CloseBlock(m)
               D == Len(m.blocks)
           IN /\ n \in IO /\ SameFiles(m, n)
              /\ n.blocks # <<>> /\ Len(n.blocks) = D - 1
              /\ \A d \in 1 .. D - 1 : n.blocks[d] = m.blocks[d]
              /\ n.hidden = m.hidden \ m.blocks[D].globs
              /\ \A look \in Looks : Undoes(m.blocks[D].alias, m.alias, look) => n.alias = look
              /\ m.blocks[D].dot # <<>> => n.last = Head(m.blocks[D].dot)
<1> DEFINE D == Len(m.blocks)
           top == m.blocks[D]
           back == InTurn(RestoreAlias, m, Undo(top.alias))
           lasts == <<m.last>> \o Undo(top.dot)
           H == back.hidden \ top.globs
           B == Front(back.blocks)
           l == Last(lasts)
           n == [back EXCEPT !.last = l, !.hidden = H, !.blocks = B]
           S == Names \cup {None}
<1>1. m.blocks \in Seq(Block) /\ D \in Nat /\ m.blocks # <<>> /\ D \in 1 .. D
  <2>1. m.blocks \in Seq(Block)
    BY Parts
  <2>2. D \in Nat
    BY <2>1, LenProperties
  <2>3. m.blocks # <<>>
    OBVIOUS
  <2> QED BY <2>1, <2>2, <2>3
<1>2. /\ top \in Block /\ top.alias \in Seq(AliasSave) /\ top.dot \in Seq(S)
      /\ top.globs \in SUBSET Names /\ Last(m.blocks) = top
  BY <1>1, BlockParts, LastOfSeq
<1>3. CloseBlock(m) = n
  <2>1. Last(m.blocks) = top
    BY <1>2
  <2> HIDE DEF top
  <2> QED BY <2>1 DEF CloseBlock
<1> HIDE DEF D
<1>4. OnlyAlias(m, back)
  <2> HIDE DEF top
  <2>1. Undo(top.alias) \in Seq(AliasSave)
    BY <1>2, ReverseOfSeq DEF Undo
  <2> DEFINE u == Undo(top.alias)
  <2> HIDE DEF u
  <2>2. u \in Seq(AliasSave)
    BY <2>1 DEF u
  <2>3. PICK r : /\ r[0] = m /\ InTurn(RestoreAlias, m, u) = r[Len(u)]
                 /\ \A i \in 0 .. Len(u) : OnlyAlias(m, r[i])
    BY <2>2, UndoRun
  <2>4. Len(u) \in 0 .. Len(u)
    BY <2>2, LenProperties
  <2> QED BY <2>3, <2>4 DEF u
<1>5. \A look \in Looks : Undoes(top.alias, m.alias, look) => back.alias = look
  BY <1>2, UndoGives
<1>6. l \in S /\ (top.dot # <<>> => l = Head(top.dot))
  <2> DEFINE t == top.dot
             u == Undo(t)
             k == Len(t)
  <2>0. t \in Seq(S) /\ k \in Nat /\ m.last \in S
    BY <1>2, Parts, LenProperties
  <2> HIDE DEF top, S
  <2> HIDE DEF t
  <2>1. u \in Seq(S) /\ Len(u) = k /\ \A i \in 1 .. k : u[i] = t[k - i + 1]
    BY <2>0, ReverseOfSeq DEF Undo
  <2> DEFINE one == <<m.last>>
  <2>2. one \in Seq(S) /\ Len(one) = 1 /\ one[1] = m.last
    BY <2>0
  <2> HIDE DEF u, one
  <2>3. /\ one \o u \in Seq(S) /\ Len(one \o u) = Len(one) + Len(u)
        /\ \A i \in 1 .. Len(one) + Len(u) : (one \o u)[i] = IF i <= Len(one) THEN one[i] ELSE u[i - Len(one)]
    BY <2>1, <2>2, ConcatProperties, ZenonT(60)
  <2> DEFINE c == one \o u
  <2>4. c = lasts
    BY DEF one, u, t
  <2> HIDE DEF c, k, lasts
  <2>5. c \in Seq(S) /\ Len(c) = k + 1 /\ \A i \in 1 .. k + 1 : c[i] = IF i <= 1 THEN m.last ELSE u[i - 1]
    <3>1. Len(one) = 1 /\ Len(u) = k /\ 1 + k = k + 1
      BY <2>0, <2>1, <2>2
    <3>2. \A i \in 1 .. k + 1 : i <= 1 => i = 1
      BY <2>0
    <3> QED BY <2>2, <2>3, <3>1, <3>2 DEF c
  <2>6. c # <<>>
    <3>1. c = <<>> => Len(c) = 0
      OBVIOUS
    <3> QED BY <2>0, <2>5, <3>1
  <2>7. Last(c) = c[k + 1] /\ Last(c) \in S
    BY <2>5, <2>6, LastOfSeq
  <2>8. ASSUME t # <<>> PROVE Last(c) = Head(t)
    <3>1. k >= 1
      BY <2>0, <2>8, LastOfSeq DEF k
    <3>2. c[k + 1] = u[k]
      BY <2>0, <2>5, <3>1
    <3>3. u[k] = t[1]
      BY <2>0, <2>1, <3>1
    <3>4. Head(t) = t[1]
      BY <2>0, <2>8
    <3> QED BY <2>7, <3>2, <3>3, <3>4
  <2> QED BY <2>4, <2>7, <2>8 DEF t
<1> HIDE DEF back, lasts, l
<1>7. /\ back \in IO /\ SameFiles(m, back) /\ back.blocks = m.blocks
      /\ back.hidden = m.hidden
  BY <1>4 DEF OnlyAlias
<1>8. /\ B \in Seq(Block) /\ Len(B) = D - 1 /\ (\A d \in 1 .. D - 1 : B[d] = m.blocks[d])
      /\ B # <<>>
  BY <1>1, <1>7, FrontOfSeq DEF D
<1>9. H \in SUBSET Names /\ H = m.hidden \ top.globs
  <2>1. m.hidden \in SUBSET Names
    BY Parts
  <2> QED BY <1>7, <2>1
<1> HIDE DEF B, H, S, top
<1>10. /\ n \in IO /\ SameFiles(back, n) /\ n.blocks = B /\ n.hidden = H
       /\ n.alias = back.alias /\ n.last = l
  <2>1. l \in Names \cup {None}
    BY <1>6 DEF S
  <2> QED BY <1>7, <1>8, <1>9, <2>1 DEF IO, SameFiles, SameReading, SameWriting
<1> HIDE DEF n
<1>11. SameFiles(m, n)
  BY <1>7, <1>10 DEF SameFiles, SameReading, SameWriting
<1> QED BY <1>3, <1>5, <1>6, <1>8, <1>9, <1>10, <1>11 DEF D, top

-----------------------------------------------------------------------------
\* When the program is over: the memories closing handles goes through.
Closed(r, m, s) ==
    r = [i \in 0 .. Len(s) |-> IF i = 0 THEN m ELSE Close(r[i - 1], s[i])]
OnlyCloses(m, n) == n \in IO /\ SameNaming(m, n) /\ Delivers(m, n, {})

\* Handles are closed one after another, and nothing is lost.
LEMMA CloseRun ==
    ASSUME NEW m \in IO, NEW s \in Seq(Names)
    PROVE  OnlyCloses(m, InTurn(Close, m, s))
<1> DEFINE n == Len(s)
           F == [i \in 1 .. n |-> [x \in IO |-> Close(x, s[i])]]
<1>1. n \in Nat /\ \A i \in 1 .. n : s[i] \in Names
  BY ElementOfSeq, LenProperties
<1>2. \A i \in 1 .. n : \A x \in IO : Close(x, s[i]) \in IO
  <2> HIDE DEF n
  <2> QED BY <1>1, CloseDone
<1>3. \A i \in 1 .. n : \A x \in IO : F[i][x] = Close(x, s[i])
  <2> HIDE DEF n
  <2> QED OBVIOUS
<1>4. PICK f : f \in [0 .. n -> IO] /\ f[0] = m /\ \A i \in 1 .. n : f[i] = F[i][f[i - 1]]
  <2>1. Steps(F, n, IO)
    <3> HIDE DEF n
    <3> QED BY <1>2 DEF Steps
  <2> HIDE DEF F, n
  <2>2. PICK f : Path(f, F, n, m, IO)
    BY <1>1, <2>1, Unrolled
  <2> QED BY <2>2 DEF Path
<1>5. \A i \in 1 .. n : f[i] = Close(f[i - 1], s[i])
  <2> HIDE DEF F, n
  <2>1. ASSUME NEW i \in 1 .. n PROVE f[i] = Close(f[i - 1], s[i])
    <3>1. i - 1 \in 0 .. n
      BY <1>1
    <3>2. f[i - 1] \in IO
      BY <1>4, <3>1
    <3> QED BY <1>3, <1>4, <3>2
  <2> QED BY <2>1
<1>6. Closed(f, m, s)
  <2> HIDE DEF F
  <2>1. \A i \in 0 .. n : f[i] = IF i = 0 THEN m ELSE Close(f[i - 1], s[i])
    <3>1. \A i \in 0 .. n : i = 0 \/ i \in 1 .. n
      BY <1>1
    <3> HIDE DEF n
    <3>2. \A i \in 1 .. n : i # 0
      BY <1>1
    <3> QED BY <1>4, <1>5, <3>1, <3>2
  <2>2. f = [i \in 0 .. n |-> f[i]]
    BY <1>4
  <2> QED BY <2>1, <2>2 DEF Closed
<1> DEFINE r == CHOOSE g : Closed(g, m, s)
<1>7. Closed(r, m, s)
  BY <1>6
<1>8. InTurn(Close, m, s) = r[n]
  BY DEF InTurn, Closed
<1> HIDE DEF r, F
<1>9. r[0] = m /\ \A i \in 1 .. n : r[i] = Close(r[i - 1], s[i])
  <2>1. 0 \in 0 .. n /\ \A i \in 1 .. n : i \in 0 .. n /\ i # 0
    BY <1>1
  <2>2. r = [i \in 0 .. n |-> IF i = 0 THEN m ELSE Close(r[i - 1], s[i])]
    BY <1>7 DEF Closed
  <2> HIDE DEF n
  <2>3. \A i \in 0 .. n : r[i] = IF i = 0 THEN m ELSE Close(r[i - 1], s[i])
    BY <2>2
  <2> QED BY <2>1, <2>3
<1>10. \A i \in 0 .. n : OnlyCloses(m, r[i])
  <2> HIDE DEF n
  <2> DEFINE T == {i \in 0 .. n : OnlyCloses(m, r[i])}
  <2>1. 0 \in T
    <3>1. OnlyCloses(m, m)
      BY DEF OnlyCloses, SameNaming, Delivers
    <3> QED BY <1>1, <1>9, <3>1
  <2>2. ASSUME NEW i \in 1 .. n, i - 1 \in T PROVE i \in T
    <3>1. OnlyCloses(m, r[i - 1])
      BY <2>2
    <3>2. r[i - 1] \in IO /\ s[i] \in Names
      BY <1>1, <3>1 DEF OnlyCloses
    <3>3. r[i] \in IO /\ SameNaming(r[i - 1], r[i]) /\ Delivers(r[i - 1], r[i], {})
      BY <1>9, <3>2, CloseDone, SMTT(30)
    <3>4. OnlyCloses(m, r[i])
      BY <3>1, <3>3 DEF OnlyCloses, SameNaming, Delivers
    <3>5. i \in 0 .. n
      BY <1>1
    <3> QED BY <3>4, <3>5
  <2> HIDE DEF T
  <2>3. \A i \in 0 .. n : i \in T
    BY <1>1, <2>1, <2>2, CountUp
  <2> QED BY <2>3 DEF T
<1>11. n \in 0 .. n
  BY <1>1
<1> QED BY <1>8, <1>10, <1>11

-----------------------------------------------------------------------------
(***************************************************************************)
(* The invariant.                                                          *)
(***************************************************************************)
LookType == [alias : Looks \cup {<<>>}, hidden : SUBSET Names, sure : BOOLEAN]
SentType == [Files -> [text : Text, sure : BOOLEAN]]
TypeInv ==
    /\ io \in IO /\ io.blocks # <<>> /\ ops \in Nat
    /\ reading \in [Names -> Log] /\ sent \in SentType
    /\ entered \in Seq(LookType) /\ Len(entered) = Len(io.blocks) - 1
LogsHeld(m, logs) == \A h \in Names : logs[h].sure => Follows(m, h, logs[h])
TextsHeld(m, texts) == \A f \in Files : texts[f].sure => Held(m, f, texts[f].text)
\* What undoing a block's saves starts from: what the next one found, or what there is.
NextAlias(m, looks, d) == IF d = Len(looks) THEN m.alias ELSE looks[d + 1].alias
NextHidden(m, looks, d) == IF d = Len(looks) THEN m.hidden ELSE looks[d + 1].hidden
Linked(m, looks, d) ==
    /\ d < Len(looks) => looks[d + 1].sure
    /\ looks[d].alias \in Looks
    /\ Undoes(m.blocks[d + 1].alias, NextAlias(m, looks, d), looks[d].alias)
    /\ NextHidden(m, looks, d) = looks[d].hidden \cup m.blocks[d + 1].globs
    /\ looks[d].hidden \cap m.blocks[d + 1].globs = {}
Chain(m, looks) == \A d \in 1 .. Len(looks) : looks[d].sure => Linked(m, looks, d)
HandlesInv ==
    TypeInv /\ LogsHeld(io, reading) /\ TextsHeld(io, sent) /\ Chain(io, entered)

\* What a handle open in one table only is not.
LEMMA OneTable ==
    ASSUME NEW m, NEW h, Tables(m, h) \in {{"reader"}, {"string"}}
    PROVE  /\ m.writers[h].file = None /\ m.sinks[h] = None
           /\ m.readers[h].file # None => m.strings[h].of = None
           /\ m.readers[h].file # None \/ m.strings[h].of # None
<1>1. "writer" \notin Tables(m, h) /\ "sink" \notin Tables(m, h)
  OBVIOUS
<1>2. ~ ("reader" \in Tables(m, h) /\ "string" \in Tables(m, h))
  OBVIOUS
<1>3. "reader" \in Tables(m, h) \/ "string" \in Tables(m, h)
  OBVIOUS
<1>4. /\ "writer" \in Tables(m, h) <=> m.writers[h].file # None
      /\ "sink" \in Tables(m, h) <=> m.sinks[h] # None
      /\ "reader" \in Tables(m, h) <=> m.readers[h].file # None
      /\ "string" \in Tables(m, h) <=> m.strings[h].of # None
  BY DEF Tables
<1> QED BY <1>1, <1>2, <1>3, <1>4

\* A log that says nothing.
LEMMA NoLogTyped ==
    NoLog \in Log /\ NoLog.sure = FALSE
<1>1. <<>> \in Text
  BY EmptySeq DEF Text
<1> QED BY <1>1 DEF NoLog, Log

\* The logs that go on are of handles that an operation left alone, or followed.
LEMMA KeptHeld ==
    ASSUME TypeInv, LogsHeld(io, reading), NEW m \in IO, NEW logs \in [Names -> Log],
           \A h \in Names :
              /\ logs[h].sure /\ Tables(m, h) \in {{"reader"}, {"string"}}
              /\ IsPrefix(Source(io, h), Source(m, h))
              => \/ /\ m.readers[h] = io.readers[h] /\ m.strings[h] = io.strings[h]
                    /\ logs[h] = reading[h]
                 \/ Follows(m, h, logs[h])
    PROVE  Kept(m, logs) \in [Names -> Log] /\ LogsHeld(m, Kept(m, logs))
<1> DEFINE Goes(h) == /\ logs[h].sure /\ Tables(m, h) \in {{"reader"}, {"string"}}
                      /\ IsPrefix(Source(io, h), Source(m, h))
           kept == Kept(m, logs)
<1>1. \A h \in Names : kept[h] = IF Goes(h) THEN logs[h] ELSE NoLog
  BY DEF Kept
<1>2. kept \in [Names -> Log]
  <2>1. kept = [h \in Names |-> IF Goes(h) THEN logs[h] ELSE NoLog]
    BY DEF Kept
  <2> HIDE DEF kept, Goes
  <2> QED BY <2>1, NoLogTyped
<1>3. ASSUME NEW h \in Names, kept[h].sure PROVE Follows(m, h, kept[h])
  <2>1. Goes(h) /\ kept[h] = logs[h]
    <3> HIDE DEF Goes, kept
    <3> QED BY <1>1, <1>3, NoLogTyped
  <2>2. CASE Follows(m, h, logs[h])
    BY <2>1, <2>2
  <2>3. CASE /\ m.readers[h] = io.readers[h] /\ m.strings[h] = io.strings[h]
             /\ logs[h] = reading[h]
    <3> DEFINE log == reading[h]
               seen == log.got \o Ahead(io, h)
    <3>1. log \in Log /\ log.sure /\ log = kept[h]
      BY <1>3, <2>1, <2>3 DEF TypeInv
    <3>2. Follows(io, h, log)
      BY <3>1 DEF LogsHeld
    <3>3. Ahead(m, h) = Ahead(io, h) /\ Place(m, h) = Place(io, h)
      BY <2>3 DEF Ahead, Place
    <3>4. io \in IO
      BY DEF TypeInv
    <3>5. Ahead(io, h) \in Text
      BY <3>4, ReaderParts, EmptySeq DEF Ahead, Text
    <3>6. seen \in Text /\ log.from \in Nat
      <4> HIDE DEF log
      <4> QED BY <3>1, <3>5, LogParts
    <3>7. Source(io, h) \in Text /\ Source(m, h) \in Text
      BY <3>4, SourceTyped
    <3>8. IsPrefix(Source(io, h), Source(m, h))
      BY <2>1
    <3> HIDE DEF log
    <3>9. Agrees(Source(io, h), log.from, seen, Place(io, h))
      BY <3>2 DEF Follows
    <3> DEFINE from == log.from
               at == Place(io, h)
               a == Source(io, h)
               b == Source(m, h)
    <3>10. Agrees(b, from, seen, at)
      <4>1. a \in Text /\ b \in Text /\ IsPrefix(a, b) /\ from \in Nat /\ seen \in Text
            /\ Agrees(a, from, seen, at)
        BY <3>6, <3>7, <3>8, <3>9
      <4> HIDE DEF a, b, from, seen, at
      <4> QED BY <4>1, AgreesGrown
    <3> QED BY <3>1, <3>3, <3>10 DEF Follows
  <2> QED BY <2>1, <2>2, <2>3
<1> QED BY <1>2, <1>3 DEF LogsHeld

\* An operation that keeps what is said of files, logs and names.
LEMMA BecomesKeeps ==
    ASSUME HandlesInv, NEW op, NEW m \in IO, NEW logs \in [Names -> Log], NEW texts \in SentType,
           Becomes(op, m, logs, texts), m.blocks # <<>>, Len(m.blocks) = Len(io.blocks),
           TextsHeld(m, texts), op # "alias" => Chain(m, entered),
           \A h \in Names :
              /\ logs[h].sure /\ Tables(m, h) \in {{"reader"}, {"string"}}
              /\ IsPrefix(Source(io, h), Source(m, h))
              => \/ /\ m.readers[h] = io.readers[h] /\ m.strings[h] = io.strings[h]
                    /\ logs[h] = reading[h]
                 \/ Follows(m, h, logs[h])
    PROVE  HandlesInv'
<1>1. io' = m /\ ops' = ops - 1 /\ ops > 0 /\ reading' = Kept(m, logs) /\ sent' = texts
      /\ entered' = IF op = "alias" THEN [d \in DOMAIN entered |-> NoLook] ELSE entered
  BY DEF Becomes
<1>2. TypeInv /\ LogsHeld(io, reading) /\ Chain(io, entered)
  BY DEF HandlesInv
<1>3. Kept(m, logs) \in [Names -> Log] /\ LogsHeld(m, Kept(m, logs))
  BY <1>2, KeptHeld
<1>4. ops' \in Nat
  BY <1>1, <1>2 DEF TypeInv
<1>5. entered' \in Seq(LookType) /\ Len(entered') = Len(entered) /\ Chain(m, entered')
  <2>1. CASE op # "alias"
    BY <1>1, <1>2, <2>1 DEF TypeInv
  <2>2. CASE op = "alias"
    <3> DEFINE n == Len(entered)
               e == [d \in 1 .. n |-> NoLook]
    <3>1. entered \in Seq(LookType)
      BY <1>2 DEF TypeInv
    <3>2. n \in Nat /\ DOMAIN entered = 1 .. n
      BY <3>1, LenProperties
    <3>3. NoLook \in LookType /\ NoLook.sure = FALSE
      BY DEF NoLook, LookType
    <3>4. e \in Seq(LookType) /\ Len(e) = n
      <4> HIDE DEF n
      <4> QED BY <3>2, <3>3, SameThroughout
    <3>5. entered' = e
      BY <1>1, <2>2, <3>2
    <3>6. \A d \in 1 .. Len(e) : e[d].sure = FALSE
      BY <3>2, <3>3, <3>4
    <3> HIDE DEF e
    <3>7. Chain(m, e)
      BY <3>6 DEF Chain
    <3> QED BY <3>4, <3>5, <3>7
  <2> QED BY <2>1, <2>2
<1>6. TypeInv'
  BY <1>1, <1>2, <1>3, <1>4, <1>5 DEF TypeInv
<1> QED BY <1>1, <1>3, <1>5, <1>6 DEF HandlesInv

\* An operation that leaves the names alone.
LEMMA ChainSame ==
    ASSUME NEW m, NEW n, NEW looks, SameNaming(m, n), Chain(m, looks)
    PROVE  Chain(n, looks)
<1>1. ASSUME NEW d \in 1 .. Len(looks), Linked(m, looks, d) PROVE Linked(n, looks, d)
  BY <1>1 DEF SameNaming, Linked, NextAlias, NextHidden
<1> QED BY <1>1 DEF Chain

\* An operation that delivers keeps what is said of the files.
LEMMA TextsSame ==
    ASSUME NEW m, NEW n, NEW texts, Delivers(m, n, {}), TextsHeld(m, texts)
    PROVE  TextsHeld(n, texts)
BY DEF Delivers, TextsHeld

\* What the steps of one operation start from.
LEMMA InvParts ==
    ASSUME HandlesInv
    PROVE  /\ io \in IO /\ io.blocks # <<>> /\ reading \in [Names -> Log] /\ sent \in SentType
           /\ TextsHeld(io, sent) /\ LogsHeld(io, reading) /\ Chain(io, entered)
           /\ \A n \in Names : Resolve(io, n) \in Names
<1>1. /\ io \in IO /\ io.blocks # <<>> /\ reading \in [Names -> Log] /\ sent \in SentType
      /\ TextsHeld(io, sent) /\ LogsHeld(io, reading) /\ Chain(io, entered)
  BY DEF HandlesInv, TypeInv
<1>2. \A n \in Names : io.alias[n] \in Names \cup {None}
  BY <1>1, Parts
<1> QED BY <1>1, <1>2 DEF Resolve

-----------------------------------------------------------------------------
(***************************************************************************)
(* The operations keep the invariant.                                      *)
(***************************************************************************)
LEMMA ReadsKeep ==
    ASSUME HandlesInv, NEW op, op # "alias", NEW n \in Names, NEW res,
           Returns(io, Resolve(io, n), res), Reads(op, n, res)
    PROVE  HandlesInv'
<1> DEFINE h == Resolve(io, n)
           log == reading[h]
           new == [log EXCEPT !.got = IF log.sure THEN @ \o res.got ELSE @]
           logs == [reading EXCEPT ![h] = new]
           m == res.m
<1>1. /\ io \in IO /\ io.blocks # <<>> /\ reading \in [Names -> Log] /\ sent \in SentType
      /\ TextsHeld(io, sent) /\ LogsHeld(io, reading) /\ Chain(io, entered) /\ h \in Names
  BY InvParts
<1> HIDE DEF h
<1>2. /\ m \in IO /\ res.got \in Text /\ OnlyReads(io, m, h)
      /\ \A l \in Log : Follows(io, h, l) => Follows(m, h, [l EXCEPT !.got = @ \o res.got])
  BY DEF Returns, h
<1>3. Becomes(op, m, [reading EXCEPT ![h].got = IF reading[h].sure THEN @ \o res.got ELSE @], sent)
  BY DEF Reads, h
<1>4. logs = [reading EXCEPT ![h].got = IF reading[h].sure THEN @ \o res.got ELSE @]
  OBVIOUS
<1>5. log \in Log /\ log.sure \in BOOLEAN
  BY <1>1 DEF Log
<1>6. /\ new \in Log
      /\ new.sure => log.sure /\ new = [log EXCEPT !.got = @ \o res.got]
  <2> HIDE DEF log, m
  <2>1. CASE log.sure
    <3> DEFINE l == [log EXCEPT !.got = @ \o res.got]
    <3>1. new = l
      BY <2>1
    <3>2. l \in Log
      BY <1>2, <1>5, LogParts
    <3> HIDE DEF new, l
    <3> QED BY <2>1, <3>1, <3>2 DEF l
  <2>2. CASE ~log.sure
    <3>1. new = log
      BY <1>5, <2>2 DEF Log
    <3> HIDE DEF new
    <3> QED BY <1>5, <2>2, <3>1
  <2> QED BY <2>1, <2>2
<1> HIDE DEF new, m
<1>7. logs \in [Names -> Log] /\ logs[h] = new /\ \A g \in Names : g # h => logs[g] = reading[g]
  BY <1>1, <1>6
<1>8. Becomes(op, m, logs, sent)
  BY <1>3, <1>4
<1> HIDE DEF logs
<1>9. ASSUME NEW g \in Names, logs[g].sure
      PROVE  \/ /\ m.readers[g] = io.readers[g] /\ m.strings[g] = io.strings[g]
                /\ logs[g] = reading[g]
             \/ Follows(m, g, logs[g])
  <2>1. CASE g # h
    BY <1>2, <1>7, <2>1 DEF OnlyReads
  <2>2. CASE g = h
    <3>1. log.sure /\ logs[g] = [log EXCEPT !.got = @ \o res.got]
      BY <1>6, <1>7, <1>9, <2>2
    <3>2. Follows(io, h, log)
      BY <1>1, <3>1 DEF LogsHeld
    <3>3. Follows(m, h, [log EXCEPT !.got = @ \o res.got])
      BY <1>2, <1>5, <3>2
    <3> QED BY <2>2, <3>1, <3>3
  <2> QED BY <2>1, <2>2
<1>10. SameWriting(io, m) /\ SameNaming(io, m)
  BY <1>2 DEF OnlyReads
<1>11. m.blocks = io.blocks
  BY <1>10 DEF SameNaming
<1>12. Chain(m, entered)
  BY <1>1, <1>10, ChainSame
<1>13. TextsHeld(m, sent)
  BY <1>1, <1>10, WritingDelivers, TextsSame
<1> QED BY <1>1, <1>2, <1>7, <1>8, <1>9, <1>11, <1>12, <1>13, BecomesKeeps

\* What an operation does that reads nothing and writes to no file.
LEMMA QuietKeeps ==
    ASSUME HandlesInv, NEW op, op # "alias", NEW m \in IO, NEW texts \in SentType,
           Becomes(op, m, reading, texts), SameNaming(io, m), TextsHeld(m, texts),
           \A g \in Names :
              Tables(m, g) \in {{"reader"}, {"string"}}
              => \/ m.readers[g] = io.readers[g] /\ m.strings[g] = io.strings[g]
                 \/ reading[g].sure => Follows(m, g, reading[g])
    PROVE  HandlesInv'
<1>1. /\ io \in IO /\ io.blocks # <<>> /\ reading \in [Names -> Log] /\ Chain(io, entered)
  BY InvParts
<1>2. Chain(m, entered)
  BY <1>1, ChainSame
<1>3. m.blocks = io.blocks
  BY DEF SameNaming
<1> DEFINE logs == reading
<1>4. \A h \in Names :
         /\ logs[h].sure /\ Tables(m, h) \in {{"reader"}, {"string"}}
         /\ IsPrefix(Source(io, h), Source(m, h))
         => \/ /\ m.readers[h] = io.readers[h] /\ m.strings[h] = io.strings[h]
               /\ logs[h] = reading[h]
            \/ Follows(m, h, logs[h])
  OBVIOUS
<1> QED BY <1>1, <1>2, <1>3, <1>4, BecomesKeeps

\* readline, slurp, read and eof.
LEMMA InputKeeps ==
    ASSUME HandlesInv, Input
    PROVE  HandlesInv'
<1>1. PICK n \in Names :
         LET h == Resolve(io, n)
         IN \/ Reads("readline", n, ReadLine(io, h))
            \/ Reads("slurp", n, ReadAll(io, h))
            \/ Reads("read", n, Take(io, h, 2))
            \/ Becomes("eof", Eof(io, h), reading, sent)
  BY DEF Input
<1> DEFINE h == Resolve(io, n)
<1>2. /\ io \in IO /\ io.blocks # <<>> /\ reading \in [Names -> Log] /\ sent \in SentType
      /\ TextsHeld(io, sent) /\ LogsHeld(io, reading) /\ Chain(io, entered) /\ h \in Names
  BY InvParts
<1>3. CASE Reads("readline", n, ReadLine(io, h))
  <2>1. Returns(io, h, ReadLine(io, h))
    BY <1>2, TakeDone, CountedDone DEF ReadLine
  <2>2. "readline" # "alias"
    OBVIOUS
  <2> QED BY <1>3, <2>1, <2>2, ReadsKeep
<1>4. CASE Reads("slurp", n, ReadAll(io, h))
  <2>1. Returns(io, h, ReadAll(io, h))
    BY <1>2, TakeAllDone, CountedDone DEF ReadAll
  <2>2. "slurp" # "alias"
    OBVIOUS
  <2> QED BY <1>4, <2>1, <2>2, ReadsKeep
<1>5. CASE Reads("read", n, Take(io, h, 2))
  <2>1. Returns(io, h, Take(io, h, 2))
    BY <1>2, TakeDone
  <2>2. "read" # "alias"
    OBVIOUS
  <2> QED BY <1>5, <2>1, <2>2, ReadsKeep
<1>6. CASE Becomes("eof", Eof(io, h), reading, sent)
  <2> DEFINE m == Eof(io, h)
  <2>1. /\ m \in IO /\ OnlyReads(io, m, h)
        /\ \A log \in Log : Follows(io, h, log) => Follows(m, h, log)
    BY <1>2, EofDone
  <2> HIDE DEF h, m
  <2>2. SameWriting(io, m) /\ SameNaming(io, m)
    BY <2>1 DEF OnlyReads
  <2>3. TextsHeld(m, sent)
    BY <1>2, <2>2, WritingDelivers, TextsSame
  <2>4. ASSUME NEW g \in Names
        PROVE  \/ m.readers[g] = io.readers[g] /\ m.strings[g] = io.strings[g]
               \/ reading[g].sure => Follows(m, g, reading[g])
    <3>1. CASE g # h
      BY <2>1, <3>1 DEF OnlyReads
    <3>2. CASE g = h
      BY <1>2, <2>1, <3>2 DEF LogsHeld
    <3> QED BY <3>1, <3>2
  <2>5. "eof" # "alias" /\ Becomes("eof", m, reading, sent)
    BY <1>6 DEF m
  <2> QED BY <1>2, <2>1, <2>2, <2>3, <2>4, <2>5, QuietKeeps
<1> QED BY <1>1, <1>3, <1>4, <1>5, <1>6

\* print: the record is appended to what was printed, and to the buffer.
LEMMA OutputKeeps ==
    ASSUME HandlesInv, Output
    PROVE  HandlesInv'
<1>1. PICK n \in Names, r \in Records, full \in BOOLEAN :
         Becomes("print", WriteTo(io, n, r, full), reading, Printed(n, r))
  BY DEF Output
<1> DEFINE h == Resolve(io, n)
           f == io.writers[h].file
           m == WriteTo(io, n, r, full)
           texts == Printed(n, r)
<1>2. /\ io \in IO /\ sent \in SentType /\ TextsHeld(io, sent) /\ h \in Names
  BY InvParts
<1>3. /\ m \in IO /\ SameReading(io, m) /\ SameNaming(io, m) /\ Delivers(io, m, {f})
      /\ n \notin io.hidden /\ f # None =>
            \A t : Held(io, f, t) => Held(m, f, Append(t, r))
      /\ n \in io.hidden => Delivers(io, m, {})
  BY <1>2, WriteToDone
<1>4. f \in Files \cup {None}
  BY <1>2, WriterParts
<1>5. texts = IF f = None \/ n \in io.hidden THEN sent ELSE [sent EXCEPT ![f].text = Append(@, r)]
  BY DEF Printed
<1> HIDE DEF h, m, texts
<1>6. texts \in SentType /\ TextsHeld(m, texts)
  <2>1. CASE n \in io.hidden
    BY <1>2, <1>3, <1>5, <2>1, TextsSame
  <2>2. CASE n \notin io.hidden /\ f = None
    <3>1. Delivers(io, m, {})
      BY <1>3, <2>2, NamesDiffer DEF Delivers
    <3> QED BY <1>2, <1>5, <2>2, <3>1, TextsSame
  <2>3. CASE n \notin io.hidden /\ f # None
    <3> DEFINE t == sent[f].text
               new == [sent[f] EXCEPT !.text = Append(t, r)]
    <3>0. f \in Files
      BY <1>4, <2>3
    <3> HIDE DEF f
    <3>1. texts = [sent EXCEPT ![f] = new]
      BY <1>5, <2>3
    <3>2. sent[f] \in [text : Text, sure : BOOLEAN] /\ t \in Text
      BY <1>2, <3>0 DEF SentType
    <3>3. Append(t, r) \in Text
      <4> HIDE DEF t
      <4> QED BY <3>2, AppendToSeq DEF Text
    <3>4. /\ new \in [text : Text, sure : BOOLEAN] /\ new.text = Append(t, r)
          /\ new.sure = sent[f].sure
      BY <3>2, <3>3
    <3> HIDE DEF new
    <3>5. /\ texts \in SentType /\ texts[f] = new /\ \A g \in Files : g # f => texts[g] = sent[g]
      BY <1>2, <3>0, <3>1, <3>4 DEF SentType
    <3>6. ASSUME NEW g \in Files, texts[g].sure PROVE Held(m, g, texts[g].text)
      <4>1. CASE g # f
        <5>1. Held(io, g, sent[g].text)
          BY <1>2, <3>5, <3>6, <4>1 DEF TextsHeld
        <5> QED BY <1>3, <3>5, <4>1, <5>1 DEF Delivers
      <4>2. CASE g = f
        <5>1. Held(io, f, t)
          BY <1>2, <3>0, <3>4, <3>5, <3>6, <4>2 DEF TextsHeld
        <5> QED BY <1>3, <2>3, <3>4, <3>5, <4>2, <5>1
      <4> QED BY <4>1, <4>2
    <3> QED BY <3>5, <3>6 DEF TextsHeld
  <2> QED BY <2>1, <2>2, <2>3
<1>7. "print" # "alias" /\ Becomes("print", m, reading, texts)
  BY <1>1 DEF m, texts
<1>8. \A g \in Names : m.readers[g] = io.readers[g] /\ m.strings[g] = io.strings[g]
  BY <1>3 DEF SameReading
<1> QED BY <1>3, <1>6, <1>7, <1>8, QuietKeeps

\* A handle that has read nothing yet.
LEMMA FreshTyped ==
    ASSUME NEW m, NEW h, NEW from \in Nat
    PROVE  /\ Fresh(m, h, from) \in Log /\ Fresh(m, h, from).from = from
           /\ Fresh(m, h, from).got = <<>>
<1>1. NoLog \in Log
  BY NoLogTyped
<1> DEFINE sure == Tables(m, h) \in {{"reader"}, {"string"}}
<1>2. sure \in BOOLEAN
  OBVIOUS
<1> HIDE DEF sure
<1>3. Fresh(m, h, from) = [NoLog EXCEPT !.from = from, !.sure = sure]
  BY DEF Fresh, sure
<1>4. NoLog.got = <<>>
  BY DEF NoLog
<1> QED BY <1>1, <1>2, <1>3, <1>4 DEF Log

\* A log that says where it starts, of a handle that stands there.
LEMMA FreshFollows ==
    ASSUME NEW m, NEW h, NEW log, log.from \in Nat, log.got = <<>>,
           Ahead(m, h) = <<>>, Place(m, h) = log.from
    PROVE  Follows(m, h, log)
<1>1. <<>> \o <<>> = <<>> /\ Len(<<>>) = 0
  OBVIOUS
<1> QED BY <1>1 DEF Follows, Agrees

\* What an operation does that opens or seeks a handle.
LEMMA FreshKeeps ==
    ASSUME HandlesInv, NEW op, op # "alias", NEW m \in IO, NEW texts \in SentType,
           NEW h \in Names, NEW from \in Nat, NEW x,
           Becomes(op, m, [reading EXCEPT ![h] = Fresh(x, h, from)], texts),
           SameNaming(io, m), TextsHeld(m, texts),
           \A g \in Names : g # h => /\ m.readers[g] = io.readers[g]
                                     /\ m.strings[g] = io.strings[g],
           Tables(m, h) \in {{"reader"}, {"string"}} => Ahead(m, h) = <<>> /\ Place(m, h) = from
    PROVE  HandlesInv'
<1>1. /\ io \in IO /\ io.blocks # <<>> /\ reading \in [Names -> Log] /\ Chain(io, entered)
  BY InvParts
<1>2. Chain(m, entered)
  BY <1>1, ChainSame
<1>3. m.blocks = io.blocks
  BY DEF SameNaming
<1> DEFINE new == Fresh(x, h, from)
           logs == [reading EXCEPT ![h] = new]
<1>4. new \in Log /\ new.from = from /\ new.got = <<>>
  BY FreshTyped
<1> HIDE DEF new
<1>5. logs \in [Names -> Log] /\ logs[h] = new /\ \A g \in Names : g # h => logs[g] = reading[g]
  BY <1>1, <1>4
<1>6. Becomes(op, m, logs, texts)
  BY DEF new
<1> HIDE DEF logs
<1>7. \A g \in Names :
         /\ logs[g].sure /\ Tables(m, g) \in {{"reader"}, {"string"}}
         /\ IsPrefix(Source(io, g), Source(m, g))
         => \/ /\ m.readers[g] = io.readers[g] /\ m.strings[g] = io.strings[g]
               /\ logs[g] = reading[g]
            \/ Follows(m, g, logs[g])
  <2>1. Tables(m, h) \in {{"reader"}, {"string"}} => Follows(m, h, logs[h])
    BY <1>4, <1>5, FreshFollows
  <2> QED BY <1>5, <2>1
<1> QED BY <1>1, <1>2, <1>3, <1>5, <1>6, <1>7, BecomesKeeps

\* What was printed to one file starts anew.
LEMMA TextsFresh ==
    ASSUME NEW m, NEW n, NEW texts \in SentType, TextsHeld(m, texts), NEW f \in Files,
           NEW new \in [text : Text, sure : BOOLEAN], Delivers(m, n, {f}),
           new.sure => Held(n, f, new.text)
    PROVE  /\ [texts EXCEPT ![f] = new] \in SentType
           /\ TextsHeld(n, [texts EXCEPT ![f] = new])
<1> DEFINE t == [texts EXCEPT ![f] = new]
<1>1. t \in SentType /\ t[f] = new /\ \A g \in Files : g # f => t[g] = texts[g]
  BY DEF SentType
<1> HIDE DEF t
<1>2. ASSUME NEW g \in Files, t[g].sure PROVE Held(n, g, t[g].text)
  <2>1. CASE g = f
    BY <1>1, <1>2, <2>1
  <2>2. CASE g # f
    <3>1. Held(m, g, texts[g].text)
      BY <1>1, <1>2, <2>2 DEF TextsHeld
    <3> QED BY <1>1, <2>2, <3>1 DEF Delivers
  <2> QED BY <2>1, <2>2
<1>3. TextsHeld(n, t)
  BY <1>2 DEF TextsHeld
<1> QED BY <1>1, <1>3 DEF t

\* tell and seek: a sought reader starts anew, a sought writer is given up.
LEMMA PositionKeeps ==
    ASSUME HandlesInv, Position
    PROVE  HandlesInv'
<1>1. PICK n \in Names :
         LET h == Resolve(io, n)
         IN \/ Becomes("tell", Tell(io, h), reading, sent)
            \/ \E pos \in 0 .. 2 :
                  Becomes("seek", Seek(io, h, pos),
                          IF io.readers[h].file # None
                          THEN [reading EXCEPT ![h] = Fresh(io, h, pos)] ELSE reading,
                          IF io.writers[h].file # None
                          THEN [sent EXCEPT ![io.writers[h].file].sure = FALSE] ELSE sent)
  BY DEF Position
<1> DEFINE h == Resolve(io, n)
<1>2. /\ io \in IO /\ reading \in [Names -> Log] /\ sent \in SentType
      /\ TextsHeld(io, sent) /\ h \in Names
  BY InvParts
<1>3. CASE Becomes("tell", Tell(io, h), reading, sent)
  <2> DEFINE m == Tell(io, h)
  <2>1. m \in IO /\ SameReading(io, m) /\ SameNaming(io, m) /\ Delivers(io, m, {})
    BY <1>2, TellDone
  <2>2. "tell" # "alias" /\ Becomes("tell", m, reading, sent)
    BY <1>3
  <2> HIDE DEF m, h
  <2>3. TextsHeld(m, sent)
    BY <1>2, <2>1, TextsSame
  <2>4. \A g \in Names : m.readers[g] = io.readers[g] /\ m.strings[g] = io.strings[g]
    BY <2>1 DEF SameReading
  <2> QED BY <1>2, <2>1, <2>2, <2>3, <2>4, QuietKeeps
<1>4. ASSUME NEW pos \in 0 .. 2,
             Becomes("seek", Seek(io, h, pos),
                     IF io.readers[h].file # None
                     THEN [reading EXCEPT ![h] = Fresh(io, h, pos)] ELSE reading,
                     IF io.writers[h].file # None
                     THEN [sent EXCEPT ![io.writers[h].file].sure = FALSE] ELSE sent)
      PROVE  HandlesInv'
  <2> DEFINE m == Seek(io, h, pos)
             f == io.writers[h].file
             logs == IF io.readers[h].file # None
                     THEN [reading EXCEPT ![h] = Fresh(io, h, pos)] ELSE reading
             texts == IF f # None THEN [sent EXCEPT ![f].sure = FALSE] ELSE sent
  <2>1. "seek" # "alias" /\ pos \in Nat
    OBVIOUS
  <2>2. /\ m \in IO /\ Delivers(io, m, {f}) /\ SameNaming(io, m)
        /\ io.readers[h].file # None =>
              /\ Others(io, m, h) /\ m.strings = io.strings
              /\ m.readers[h].file = io.readers[h].file
              /\ m.readers[h].buf = <<>> /\ m.readers[h].off = pos
        /\ io.readers[h].file = None => SameReading(io, m)
    BY <1>2, <2>1, SeekDone
  <2>3. f \in Files \cup {None}
    BY <1>2, WriterParts
  <2>4. Becomes("seek", m, logs, texts)
    BY <1>4
  <2> HIDE DEF m, f, h
  <2>5. texts \in SentType /\ TextsHeld(m, texts)
    <3>1. CASE f = None
      <4>1. texts = sent
        BY <3>1
      <4>2. Delivers(io, m, {})
        BY <2>2, <3>1, NamesDiffer DEF Delivers
      <4> HIDE DEF texts
      <4> QED BY <1>2, <4>1, <4>2, TextsSame
    <3>2. CASE f # None
      <4> DEFINE new == [sent[f] EXCEPT !.sure = FALSE]
      <4>1. f \in Files
        BY <2>3, <3>2
      <4>2. new \in [text : Text, sure : BOOLEAN] /\ new.sure = FALSE
        BY <1>2, <4>1 DEF SentType
      <4>3. texts = [sent EXCEPT ![f] = new]
        BY <3>2
      <4> HIDE DEF texts, new
      <4> QED BY <1>2, <2>2, <4>1, <4>2, <4>3, TextsFresh
    <3> QED BY <3>1, <3>2
  <2> HIDE DEF texts
  <2>6. CASE io.readers[h].file # None
    <3>1. Becomes("seek", m, [reading EXCEPT ![h] = Fresh(io, h, pos)], texts)
      BY <2>4, <2>6
    <3>2. \A g \in Names : g # h => /\ m.readers[g] = io.readers[g]
                                    /\ m.strings[g] = io.strings[g]
      BY <2>2, <2>6 DEF Others
    <3>3. Tables(m, h) \in {{"reader"}, {"string"}} => Ahead(m, h) = <<>> /\ Place(m, h) = pos
      <4>1. Tables(m, h) \in {{"reader"}, {"string"}} => m.strings[h].of = None
        BY <2>2, <2>6, OneTable
      <4> QED BY <2>2, <2>6, <4>1 DEF Ahead, Place
    <3> QED BY <1>2, <2>1, <2>2, <2>5, <3>1, <3>2, <3>3, FreshKeeps
  <2>7. CASE io.readers[h].file = None
    <3>1. Becomes("seek", m, reading, texts)
      BY <2>4, <2>7
    <3>2. \A g \in Names : m.readers[g] = io.readers[g] /\ m.strings[g] = io.strings[g]
      BY <2>2, <2>7 DEF SameReading
    <3> QED BY <1>2, <2>1, <2>2, <2>5, <3>1, <3>2, QuietKeeps
  <2> QED BY <2>6, <2>7
<1> QED BY <1>1, <1>3, <1>4

\* Only one handle at a time writes a file: none did.
LEMMA WritingNone ==
    ASSUME NEW m, NEW f
    PROVE  Writing(m, f) = {} <=> \A g \in Names : m.writers[g].file # f
BY DEF Writing

\* open for writing: the file is empty, and so is what was printed to it.
LEMMA OpenWriteKeeps ==
    ASSUME HandlesInv, NEW n \in Names, NEW f \in Files,
           Becomes("openwrite", OpenWrite(io, Resolve(io, n), f),
                   Opened(OpenWrite(io, Resolve(io, n), f), n),
                   [sent EXCEPT ![f] = [text |-> <<>>, sure |-> Writing(io, f) = {}]])
    PROVE  HandlesInv'
<1> DEFINE h == Resolve(io, n)
           m == OpenWrite(io, h, f)
           new == [text |-> <<>>, sure |-> Writing(io, f) = {}]
           texts == [sent EXCEPT ![f] = new]
<1>1. /\ io \in IO /\ sent \in SentType /\ TextsHeld(io, sent) /\ h \in Names
  BY InvParts
<1>2. Becomes("openwrite", m, [reading EXCEPT ![h] = Fresh(m, h, 0)], texts)
  BY DEF Opened
<1> HIDE DEF h
<1>3. /\ m \in IO /\ SameReading(io, m) /\ SameNaming(io, m) /\ Delivers(io, m, {f})
      /\ m.writers[h].file = f
      /\ (\A g \in Names : io.writers[g].file # f) => Held(m, f, <<>>)
  BY <1>1, OpenWriteDone
<1>4. new.text = <<>> /\ (new.sure <=> \A g \in Names : io.writers[g].file # f)
  BY WritingNone, ZenonT(60)
<1>5. new \in [text : Text, sure : BOOLEAN]
  <2>1. <<>> \in Text
    BY EmptySeq DEF Text
  <2> QED BY <2>1
<1> HIDE DEF m, new
<1>6. texts \in SentType /\ TextsHeld(m, texts)
  BY <1>1, <1>3, <1>4, <1>5, TextsFresh
<1> HIDE DEF texts
<1>7. Tables(m, h) \notin {{"reader"}, {"string"}}
  BY <1>3, OneTable, NamesDiffer
<1>8. "openwrite" # "alias" /\ 0 \in Nat
  OBVIOUS
<1>9. \A g \in Names : m.readers[g] = io.readers[g] /\ m.strings[g] = io.strings[g]
  BY <1>3 DEF SameReading
<1> QED BY <1>1, <1>2, <1>3, <1>6, <1>7, <1>8, <1>9, FreshKeeps

\* open for appending: what was printed goes on from what the file holds.
LEMMA OpenAppendKeeps ==
    ASSUME HandlesInv, NEW n \in Names, NEW f \in Files,
           Becomes("openappend", OpenAppend(io, Resolve(io, n), f),
                   Opened(OpenAppend(io, Resolve(io, n), f), n),
                   [sent EXCEPT ![f] = IF Writing(io, f) = {}
                                       THEN [text |-> io.disk[f], sure |-> TRUE]
                                       ELSE [@ EXCEPT !.sure = FALSE]])
    PROVE  HandlesInv'
<1> DEFINE h == Resolve(io, n)
           m == OpenAppend(io, h, f)
           new == IF Writing(io, f) = {} THEN [text |-> io.disk[f], sure |-> TRUE]
                  ELSE [sent[f] EXCEPT !.sure = FALSE]
           texts == [sent EXCEPT ![f] = new]
<1>1. /\ io \in IO /\ sent \in SentType /\ TextsHeld(io, sent) /\ h \in Names
  BY InvParts
<1>2. Becomes("openappend", m, [reading EXCEPT ![h] = Fresh(m, h, 0)], texts)
  BY DEF Opened
<1> HIDE DEF h
<1>3. /\ m \in IO /\ SameReading(io, m) /\ SameNaming(io, m) /\ Delivers(io, m, {f})
      /\ m.writers[h].file = f
      /\ (\A g \in Names : io.writers[g].file # f) => Held(m, f, io.disk[f])
  BY <1>1, OpenAppendDone
<1> HIDE DEF m
<1>4. new \in [text : Text, sure : BOOLEAN] /\ (new.sure => Held(m, f, new.text))
  <2>1. CASE Writing(io, f) = {}
    <3>1. new = [text |-> io.disk[f], sure |-> TRUE]
      BY <2>1
    <3>2. io.disk[f] \in Text
      BY <1>1, Parts
    <3>3. Held(m, f, io.disk[f])
      BY <1>3, <2>1, WritingNone
    <3> HIDE DEF new
    <3> QED BY <3>1, <3>2, <3>3
  <2>2. CASE Writing(io, f) # {}
    <3>1. new = [sent[f] EXCEPT !.sure = FALSE]
      BY <2>2
    <3>2. sent[f] \in [text : Text, sure : BOOLEAN]
      BY <1>1 DEF SentType
    <3> HIDE DEF new
    <3> QED BY <3>1, <3>2
  <2> QED BY <2>1, <2>2
<1> HIDE DEF new
<1>5. texts \in SentType /\ TextsHeld(m, texts)
  BY <1>1, <1>3, <1>4, TextsFresh
<1> HIDE DEF texts
<1>6. Tables(m, h) \notin {{"reader"}, {"string"}}
  BY <1>3, OneTable, NamesDiffer
<1>7. "openappend" # "alias" /\ 0 \in Nat
  OBVIOUS
<1>8. \A g \in Names : m.readers[g] = io.readers[g] /\ m.strings[g] = io.strings[g]
  BY <1>3 DEF SameReading
<1> QED BY <1>1, <1>2, <1>3, <1>5, <1>6, <1>7, <1>8, FreshKeeps

\* The other ways to open a handle write to no file.
LEMMA OpenOthersKeep ==
    ASSUME HandlesInv, NEW op, op # "alias", NEW n \in Names, NEW m \in IO,
           Becomes(op, m, Opened(m, n), sent), SameWriting(io, m), SameNaming(io, m),
           \A g \in Names : g # Resolve(io, n) => /\ m.readers[g] = io.readers[g]
                                                  /\ m.strings[g] = io.strings[g],
           Tables(m, Resolve(io, n)) \in {{"reader"}, {"string"}}
              => Ahead(m, Resolve(io, n)) = <<>> /\ Place(m, Resolve(io, n)) = 0
    PROVE  HandlesInv'
<1> DEFINE h == Resolve(io, n)
<1>1. /\ io \in IO /\ sent \in SentType /\ TextsHeld(io, sent) /\ h \in Names
  BY InvParts
<1>2. Becomes(op, m, [reading EXCEPT ![h] = Fresh(m, h, 0)], sent)
  BY DEF Opened
<1>3. TextsHeld(m, sent)
  BY <1>1, WritingDelivers, TextsSame
<1>4. 0 \in Nat
  OBVIOUS
<1> HIDE DEF h
<1>5. /\ \A g \in Names : g # h => m.readers[g] = io.readers[g] /\ m.strings[g] = io.strings[g]
      /\ Tables(m, h) \in {{"reader"}, {"string"}} => Ahead(m, h) = <<>> /\ Place(m, h) = 0
  BY DEF h
<1> QED BY <1>1, <1>2, <1>3, <1>4, <1>5, FreshKeeps

\* open and close.
LEMMA OpenKeeps ==
    ASSUME HandlesInv, Open
    PROVE  HandlesInv'
<1>1. PICK n \in Names :
         LET h == Resolve(io, n)
         IN \/ \E f \in Files :
                  \/ LET m == OpenRead(io, h, f) IN Becomes("openread", m, Opened(m, n), sent)
                  \/ LET m == OpenWrite(io, h, f)
                     IN Becomes("openwrite", m, Opened(m, n),
                                [sent EXCEPT ![f] = [text |-> <<>>, sure |-> Writing(io, f) = {}]])
                  \/ LET m == OpenAppend(io, h, f)
                     IN Becomes("openappend", m, Opened(m, n),
                                [sent EXCEPT ![f] = IF Writing(io, f) = {}
                                                    THEN [text |-> io.disk[f], sure |-> TRUE]
                                                    ELSE [@ EXCEPT !.sure = FALSE]])
            \/ \E s \in Scalars :
                  \/ LET m == OpenString(io, h, s)
                     IN Becomes("openstring", m, Opened(m, n), sent)
                  \/ \E truncate \in BOOLEAN :
                        LET m == OpenSink(io, h, s, truncate)
                        IN Becomes("opensink", m, Opened(m, n), sent)
            \/ Becomes("close", Close(io, h), reading, sent)
  BY DEF Open
<1> DEFINE h == Resolve(io, n)
<1>2. /\ io \in IO /\ sent \in SentType /\ TextsHeld(io, sent) /\ h \in Names
  BY InvParts
<1>3. ASSUME NEW f \in Files,
             Becomes("openread", OpenRead(io, h, f), Opened(OpenRead(io, h, f), n), sent)
      PROVE  HandlesInv'
  <2> DEFINE m == OpenRead(io, h, f)
  <2>1. /\ m \in IO /\ Others(io, m, h) /\ m.strings = io.strings
        /\ m.readers[h].file = f /\ m.readers[h].buf = <<>> /\ m.readers[h].off = 0
    BY <1>2, OpenReadDone
  <2>2. "openread" # "alias" /\ Becomes("openread", m, Opened(m, n), sent)
    BY <1>3
  <2> HIDE DEF m
  <2>3. Tables(m, h) \in {{"reader"}, {"string"}} => Ahead(m, h) = <<>> /\ Place(m, h) = 0
    <3>1. Tables(m, h) \in {{"reader"}, {"string"}} => m.strings[h].of = None
      BY <2>1, OneTable, NamesDiffer
    <3> QED BY <2>1, <3>1 DEF Ahead, Place
  <2> QED BY <2>1, <2>2, <2>3, OpenOthersKeep DEF Others
<1>4. ASSUME NEW s \in Scalars,
             Becomes("openstring", OpenString(io, h, s), Opened(OpenString(io, h, s), n), sent)
      PROVE  HandlesInv'
  <2> DEFINE m == OpenString(io, h, s)
  <2>1. /\ m \in IO /\ Others(io, m, h) /\ m.strings[h].of = s /\ m.strings[h].pos = 0
    BY <1>2, OpenStringDone
  <2>2. "openstring" # "alias" /\ Becomes("openstring", m, Opened(m, n), sent)
    BY <1>4
  <2> HIDE DEF m
  <2>3. Ahead(m, h) = <<>> /\ Place(m, h) = 0
    BY <2>1, NamesDiffer DEF Ahead, Place
  <2> QED BY <2>1, <2>2, <2>3, OpenOthersKeep DEF Others
<1>5. ASSUME NEW s \in Scalars, NEW truncate \in BOOLEAN,
             Becomes("opensink", OpenSink(io, h, s, truncate),
                     Opened(OpenSink(io, h, s, truncate), n), sent)
      PROVE  HandlesInv'
  <2> DEFINE m == OpenSink(io, h, s, truncate)
  <2>1. /\ m \in IO /\ SameReading(io, m) /\ SameWriting(io, m) /\ SameNaming(io, m)
        /\ m.sinks[h] = s
    BY <1>2, OpenSinkDone
  <2>2. "opensink" # "alias" /\ Becomes("opensink", m, Opened(m, n), sent)
    BY <1>5
  <2> HIDE DEF m
  <2>3. Tables(m, h) \notin {{"reader"}, {"string"}}
    BY <2>1, OneTable, NamesDiffer
  <2> QED BY <2>1, <2>2, <2>3, OpenOthersKeep DEF SameReading
<1>6. CASE Becomes("close", Close(io, h), reading, sent)
  <2> DEFINE m == Close(io, h)
  <2>1. /\ m \in IO /\ SameNaming(io, m) /\ Delivers(io, m, {})
        /\ \A g \in Names : g # h => /\ m.readers[g] = io.readers[g]
                                     /\ m.strings[g] = io.strings[g]
        /\ m.readers[h] = NoReader /\ m.strings[h] = NoString
    BY <1>2, CloseDone
  <2>2. "close" # "alias" /\ Becomes("close", m, reading, sent)
    BY <1>6
  <2> HIDE DEF m, h
  <2>3. Tables(m, h) \notin {{"reader"}, {"string"}}
    <3>1. m.readers[h].file = None /\ m.strings[h].of = None
      BY <2>1 DEF NoReader, NoString
    <3> QED BY <3>1, OneTable
  <2>4. TextsHeld(m, sent)
    BY <1>2, <2>1, TextsSame
  <2>5. \A g \in Names :
           Tables(m, g) \in {{"reader"}, {"string"}}
           => \/ m.readers[g] = io.readers[g] /\ m.strings[g] = io.strings[g]
              \/ reading[g].sure => Follows(m, g, reading[g])
    BY <2>1, <2>3
  <2> QED BY <1>2, <2>1, <2>2, <2>4, <2>5, QuietKeeps
<1> QED BY <1>1, <1>3, <1>4, <1>5, <1>6, OpenWriteKeeps, OpenAppendKeeps

\* One more save, and undoing leads to the same place.
LEMMA UndoesMore ==
    ASSUME NEW s \in Seq(AliasSave), NEW alias \in Looks, NEW look \in Looks, NEW k \in Names,
           NEW t \in Names \cup {None}, Undoes(s, alias, look)
    PROVE  Undoes(Append(s, [n |-> k, old |-> alias[k]]), [alias EXCEPT ![k] = t], look)
<1> DEFINE A == [alias EXCEPT ![k] = t]
           v == [n |-> k, old |-> alias[k]]
           u == Append(s, v)
           l == Len(s)
<1>1. A[k] = t /\ \A x \in Names : x # k => A[x] = alias[x]
  BY DEF Looks
<1>2. v.n = k /\ v.old = alias[k] /\ v \in AliasSave
  BY DEF Looks, AliasSave
<1> HIDE DEF v
<1>3. Len(u) = l + 1 /\ l \in Nat /\ (\A i \in 1 .. l : u[i] = s[i]) /\ u[l + 1] = v
  BY <1>2, AppendToSeq, LenProperties
<1> HIDE DEF A, u, l
<1>4. \A i \in 1 .. l + 1 : i = l + 1 \/ i \in 1 .. l
  BY <1>3
<1>5. \A i \in 1 .. l : i \in 1 .. l + 1 /\ \A j \in 1 .. i - 1 : j \in 1 .. l
  BY <1>3
<1>6. ASSUME NEW x \in Names
      PROVE  \/ \E i \in 1 .. l + 1 :
                   u[i].n = x /\ u[i].old = look[x] /\ \A j \in 1 .. i - 1 : u[j].n # x
             \/ (\A i \in 1 .. l + 1 : u[i].n # x) /\ A[x] = look[x]
  <2>0. \/ \E i \in 1 .. l : s[i].n = x /\ s[i].old = look[x] /\ \A j \in 1 .. i - 1 : s[j].n # x
        \/ (\A i \in 1 .. l : s[i].n # x) /\ alias[x] = look[x]
    BY DEF Undoes, UndoesTo, l
  <2>1. CASE \E i \in 1 .. l :
                s[i].n = x /\ s[i].old = look[x] /\ \A j \in 1 .. i - 1 : s[j].n # x
    BY <1>3, <1>5, <2>1
  <2>2. CASE (\A i \in 1 .. l : s[i].n # x) /\ alias[x] = look[x] /\ x = k
    <3>1. l + 1 \in 1 .. l + 1 /\ \A j \in 1 .. (l + 1) - 1 : j \in 1 .. l
      BY <1>3
    <3> QED BY <1>2, <1>3, <2>2, <3>1
  <2>3. CASE (\A i \in 1 .. l : s[i].n # x) /\ alias[x] = look[x] /\ x # k
    BY <1>1, <1>2, <1>3, <1>4, <2>3
  <2> QED BY <2>0, <2>1, <2>2, <2>3
<1> QED BY <1>3, <1>6 DEF Undoes, UndoesTo, A, u, v

\* The blocks around the innermost one do not see what it does.
LEMMA ChainAround ==
    ASSUME NEW m \in IO, NEW n, NEW looks, Around(m, n), Chain(m, looks),
           Len(looks) = Len(m.blocks) - 1,
           looks[Len(looks)].sure => Linked(n, looks, Len(looks))
    PROVE  Chain(n, looks)
<1> DEFINE l == Len(looks)
<1>0. l \in Int /\ l = Len(m.blocks) - 1
  BY BlockParts
<1>1. ASSUME NEW d \in 1 .. l, looks[d].sure PROVE Linked(n, looks, d)
  <2>1. CASE d = l
    BY <1>1, <2>1
  <2>2. CASE d # l
    <3> HIDE DEF l
    <3>1. d + 1 \in 1 .. Len(m.blocks) - 1
      BY <1>0, <2>2
    <3>2. n.blocks[d + 1] = m.blocks[d + 1]
      BY <3>1 DEF Around
    <3>3. Linked(m, looks, d)
      BY <1>1 DEF Chain, l
    <3> QED BY <2>2, <3>2, <3>3 DEF Linked, NextAlias, NextHidden, l
  <2> QED BY <2>1, <2>2
<1> QED BY <1>1 DEF Chain

\* What an operation does that changes no file and at most the innermost block.
LEMMA NamesKeep ==
    ASSUME HandlesInv, NEW op, NEW m \in IO, Becomes(op, m, reading, sent), SameFiles(io, m),
           Around(io, m),
           op # "alias" /\ entered[Len(entered)].sure => Linked(m, entered, Len(entered))
    PROVE  HandlesInv'
<1>1. /\ io \in IO /\ io.blocks # <<>> /\ reading \in [Names -> Log] /\ sent \in SentType
      /\ TextsHeld(io, sent) /\ Chain(io, entered)
  BY InvParts
<1>2. TextsHeld(m, sent)
  BY <1>1, WritingDelivers, TextsSame DEF SameFiles
<1>3. Len(entered) = Len(io.blocks) - 1
  BY DEF HandlesInv, TypeInv
<1>4. op # "alias" => Chain(m, entered)
  BY <1>1, <1>3, ChainAround
<1>5. Len(m.blocks) = Len(io.blocks) /\ m.blocks # <<>>
  <2>1. Len(m.blocks) = Len(io.blocks) /\ Len(io.blocks) >= 1
    BY <1>1, BlockParts DEF Around
  <2>2. m.blocks = <<>> => Len(m.blocks) = 0
    OBVIOUS
  <2> QED BY <2>1, <2>2
<1>6. \A g \in Names : m.readers[g] = io.readers[g] /\ m.strings[g] = io.strings[g]
  BY DEF SameFiles, SameReading
<1> DEFINE logs == reading
<1>7. \A h \in Names :
         /\ logs[h].sure /\ Tables(m, h) \in {{"reader"}, {"string"}}
         /\ IsPrefix(Source(io, h), Source(m, h))
         => \/ /\ m.readers[h] = io.readers[h] /\ m.strings[h] = io.strings[h]
               /\ logs[h] = reading[h]
            \/ Follows(m, h, logs[h])
  BY <1>6
<1> QED BY <1>1, <1>2, <1>4, <1>5, <1>7, BecomesKeeps

\* What `local` finds when a block goes on.
LEMMA InnermostParts ==
    ASSUME HandlesInv, Top(io) > 1
    PROVE  LET l == Len(entered)
               b == io.blocks[Top(io)]
           IN /\ l \in 1 .. Len(entered) /\ Top(io) = l + 1 /\ ~ (l < l)
              /\ b.alias \in Seq(AliasSave) /\ io.alias \in Looks
              /\ entered[l].sure => Linked(io, entered, l)
              /\ entered[l] \in LookType
<1> DEFINE l == Len(entered)
<1>1. io \in IO /\ l = Len(io.blocks) - 1 /\ entered \in Seq(LookType) /\ Chain(io, entered)
  BY DEF HandlesInv, TypeInv
<1>2. Len(io.blocks) \in Nat /\ Len(io.blocks) > 1
  BY <1>1, BlockParts DEF Top
<1>3. l \in 1 .. l /\ Top(io) = l + 1 /\ Top(io) \in 1 .. Len(io.blocks) /\ ~ (l < l)
  <2> HIDE DEF l
  <2> QED BY <1>1, <1>2 DEF Top
<1>4. io.blocks[Top(io)].alias \in Seq(AliasSave)
  BY <1>1, <1>3, BlockParts
<1>5. io.alias \in Looks
  BY <1>1, Parts DEF Looks
<1>6. entered[l].sure => Linked(io, entered, l)
  BY <1>1, <1>3 DEF Chain
<1>7. entered[l] \in LookType
  BY <1>1, <1>3, ElementOfSeq
<1> QED BY <1>3, <1>4, <1>5, <1>6, <1>7

\* Aliases, local globs and `$.`.
LEMMA NamingKeeps ==
    ASSUME HandlesInv, Naming
    PROVE  HandlesInv'
<1> DEFINE l == Len(entered)
<1>1. /\ io \in IO /\ io.blocks # <<>>
  BY InvParts
<1>2. CASE \E n \in Names, target \in Names : Becomes("alias", Alias(io, n, target), reading, sent)
  <2>1. PICK n \in Names, target \in Names :
           Becomes("alias", Alias(io, n, target), reading, sent)
    BY <1>2
  <2> DEFINE m == Alias(io, n, target)
  <2>2. m \in IO /\ SameFiles(io, m) /\ m.blocks = io.blocks
    BY <1>1, AliasDone, ZenonT(60)
  <2>3. Becomes("alias", m, reading, sent)
    BY <2>1
  <2> HIDE DEF m
  <2>4. Around(io, m)
    BY <2>2 DEF Around
  <2> QED BY <2>2, <2>3, <2>4, NamesKeep
<1>3. CASE \E n \in Names, target \in Names :
              Top(io) > 1 /\ Becomes("local", LocalAlias(io, n, target), reading, sent)
  <2>1. PICK n \in Names, target \in Names :
           Top(io) > 1 /\ Becomes("local", LocalAlias(io, n, target), reading, sent)
    BY <1>3
  <2> DEFINE m == LocalAlias(io, n, target)
             D == Top(io)
  <2>2. /\ l \in 1 .. Len(entered) /\ D = l + 1 /\ ~ (l < l)
        /\ io.blocks[D].alias \in Seq(AliasSave) /\ io.alias \in Looks
        /\ entered[l].sure => Linked(io, entered, l)
    BY <2>1, InnermostParts
  <2>3. /\ m \in IO /\ SameFiles(io, m) /\ Around(io, m) /\ m.hidden = io.hidden
        /\ m.alias = [io.alias EXCEPT ![n] = target]
        /\ m.blocks[D].alias = Append(io.blocks[D].alias, [n |-> n, old |-> io.alias[n]])
        /\ m.blocks[D].globs = io.blocks[D].globs
    BY <1>1, LocalAliasDone, SMTT(30)
  <2>4. "local" # "alias" /\ Becomes("local", m, reading, sent)
    BY <2>1
  <2> HIDE DEF m, D
  <2>5. ASSUME entered[l].sure PROVE Linked(m, entered, l)
    <3>1. Linked(io, entered, l)
      BY <2>2, <2>5
    <3>2. entered[l].alias \in Looks /\ Undoes(io.blocks[D].alias, io.alias, entered[l].alias)
      BY <2>2, <3>1 DEF Linked, NextAlias
    <3>3. Undoes(m.blocks[D].alias, m.alias, entered[l].alias)
      BY <2>2, <2>3, <3>2, UndoesMore
    <3> QED BY <2>2, <2>3, <3>1, <3>3 DEF Linked, NextAlias, NextHidden
  <2> QED BY <2>3, <2>4, <2>5, NamesKeep
<1>4. CASE \E n \in Names : Top(io) > 1 /\ Becomes("local", LocalGlob(io, n), reading, sent)
  <2>1. PICK n \in Names : Top(io) > 1 /\ Becomes("local", LocalGlob(io, n), reading, sent)
    BY <1>4
  <2> DEFINE m == LocalGlob(io, n)
             D == Top(io)
  <2>2. /\ l \in 1 .. Len(entered) /\ D = l + 1 /\ ~ (l < l)
        /\ io.blocks[D].alias \in Seq(AliasSave) /\ io.alias \in Looks
        /\ entered[l].sure => Linked(io, entered, l)
    BY <2>1, InnermostParts
  <2>3. /\ m \in IO /\ SameFiles(io, m) /\ Around(io, m) /\ m.hidden = io.hidden \cup {n}
        /\ m.alias = [io.alias EXCEPT ![n] = None]
        /\ m.blocks[D].alias = Append(io.blocks[D].alias, [n |-> n, old |-> io.alias[n]])
        /\ m.blocks[D].globs = io.blocks[D].globs \cup ({n} \ io.hidden)
    BY <1>1, LocalGlobDone
  <2>4. "local" # "alias" /\ Becomes("local", m, reading, sent)
    BY <2>1
  <2> HIDE DEF m, D
  <2>5. ASSUME entered[l].sure PROVE Linked(m, entered, l)
    <3>1. Linked(io, entered, l)
      BY <2>2, <2>5
    <3>2. /\ entered[l].alias \in Looks /\ Undoes(io.blocks[D].alias, io.alias, entered[l].alias)
          /\ io.hidden = entered[l].hidden \cup io.blocks[D].globs
          /\ entered[l].hidden \cap io.blocks[D].globs = {}
      BY <2>2, <3>1 DEF Linked, NextAlias, NextHidden
    <3>3. Undoes(m.blocks[D].alias, m.alias, entered[l].alias)
      <4>1. None \in Names \cup {None}
        OBVIOUS
      <4>2. Undoes(Append(io.blocks[D].alias, [n |-> n, old |-> io.alias[n]]),
                   [io.alias EXCEPT ![n] = None], entered[l].alias)
        BY <2>2, <3>2, <4>1, UndoesMore
      <4> QED BY <2>3, <4>2
    <3>4. /\ m.hidden = entered[l].hidden \cup m.blocks[D].globs
          /\ entered[l].hidden \cap m.blocks[D].globs = {}
      BY <2>3, <3>2
    <3> QED BY <2>2, <3>2, <3>3, <3>4 DEF Linked, NextAlias, NextHidden
  <2> QED BY <2>3, <2>4, <2>5, NamesKeep
<1>5. CASE Top(io) > 1 /\ Becomes("localdot", LocalDot(io), reading, sent)
  <2> DEFINE m == LocalDot(io)
             D == Top(io)
  <2>1. /\ l \in 1 .. Len(entered) /\ D = l + 1 /\ ~ (l < l)
        /\ entered[l].sure => Linked(io, entered, l)
    BY <1>5, InnermostParts
  <2>2. /\ m \in IO /\ SameFiles(io, m) /\ Around(io, m) /\ m.hidden = io.hidden
        /\ m.alias = io.alias
        /\ m.blocks[D].alias = io.blocks[D].alias /\ m.blocks[D].globs = io.blocks[D].globs
    BY <1>1, LocalDotDone
  <2>3. "localdot" # "alias" /\ Becomes("localdot", m, reading, sent)
    BY <1>5
  <2> HIDE DEF m, D
  <2>4. entered[l].sure => Linked(m, entered, l)
    BY <2>1, <2>2 DEF Linked, NextAlias, NextHidden
  <2> QED BY <2>2, <2>3, <2>4, NamesKeep
<1>6. CASE \E k \in {0, 2} : Becomes("setdot", SetDot(io, k), reading, sent)
  <2>1. PICK k \in {0, 2} : Becomes("setdot", SetDot(io, k), reading, sent)
    BY <1>6
  <2> DEFINE m == SetDot(io, k)
  <2>2. m \in IO /\ SameFiles(io, m) /\ SameNaming(io, m)
    BY <1>1, SetDotDone
  <2>3. "setdot" # "alias" /\ Becomes("setdot", m, reading, sent)
    BY <2>1
  <2> HIDE DEF m
  <2>4. sent \in SentType /\ TextsHeld(io, sent)
    BY InvParts
  <2>5. TextsHeld(m, sent)
    BY <2>2, <2>4, WritingDelivers, TextsSame DEF SameFiles
  <2>6. \A g \in Names : m.readers[g] = io.readers[g] /\ m.strings[g] = io.strings[g]
    BY <2>2 DEF SameFiles, SameReading
  <2> QED BY <2>2, <2>3, <2>4, <2>5, <2>6, QuietKeeps
<1> QED BY <1>2, <1>3, <1>4, <1>5, <1>6 DEF Naming

-----------------------------------------------------------------------------
(***************************************************************************)
(* Blocks, and the end of the program.                                     *)
(***************************************************************************)
LEMMA LookTyped ==
    ASSUME NEW m \in IO
    PROVE  Look(m) \in LookType /\ Look(m).alias = m.alias /\ Look(m).hidden = m.hidden
           /\ Look(m).sure /\ m.alias \in Looks
<1>1. m.alias \in [Names -> Names \cup {None}] /\ m.hidden \in SUBSET Names
  BY Parts
<1> QED BY <1>1 DEF Look, LookType, Looks

\* A block begins: nothing to undo, and what it found is what there is.
LEMMA ChainPushed ==
    ASSUME NEW m \in IO, NEW n, NEW looks \in Seq(LookType), Chain(m, looks),
           Len(looks) = Len(m.blocks) - 1, m.blocks # <<>>,
           n.alias = m.alias, n.hidden = m.hidden,
           \A d \in 1 .. Len(m.blocks) : n.blocks[d] = m.blocks[d],
           n.blocks[Len(m.blocks) + 1] = NoSaves
    PROVE  /\ Append(looks, Look(m)) \in Seq(LookType)
           /\ Len(Append(looks, Look(m))) = Len(looks) + 1
           /\ Chain(n, Append(looks, Look(m)))
<1> DEFINE l == Len(looks)
           look == Look(m)
           u == Append(looks, look)
<1>0. l \in Nat /\ Len(m.blocks) = l + 1
  BY BlockParts, LenProperties
<1>1. /\ look \in LookType /\ look.alias = m.alias /\ look.hidden = m.hidden /\ look.sure
      /\ m.alias \in Looks
  BY LookTyped
<1> HIDE DEF look
<1>2. /\ u \in Seq(LookType) /\ Len(u) = l + 1 /\ (\A d \in 1 .. l : u[d] = looks[d])
      /\ u[l + 1] = look
  BY <1>1, AppendToSeq
<1> HIDE DEF u
<1>3. ASSUME NEW d \in 1 .. l, u[d].sure PROVE Linked(n, u, d)
  <2>1. u[d] = looks[d] /\ d + 1 \in 1 .. Len(m.blocks) /\ d \in 1 .. l + 1
    <3> HIDE DEF l
    <3> QED BY <1>0, <1>2
  <2>2. Linked(m, looks, d)
    BY <1>3, <2>1 DEF Chain
  <2>3. n.blocks[d + 1] = m.blocks[d + 1]
    BY <2>1
  <2>4. CASE d = l
    <3>1. d < l + 1 /\ d # l + 1 /\ ~ (d < d)
      <4> HIDE DEF l
      <4> QED BY <1>0, <2>4
    <3> QED BY <1>1, <1>2, <2>1, <2>2, <2>3, <2>4, <3>1 DEF Linked, NextAlias, NextHidden
  <2>5. CASE d # l
    <3>1. d < l + 1 /\ d # l + 1 /\ d < l /\ d + 1 \in 1 .. l
      <4> HIDE DEF l
      <4> QED BY <1>0, <2>5
    <3>2. u[d + 1] = looks[d + 1]
      BY <1>2, <3>1
    <3> QED BY <1>2, <2>1, <2>2, <2>3, <2>5, <3>1, <3>2 DEF Linked, NextAlias, NextHidden
  <2> QED BY <2>4, <2>5
<1>4. Linked(n, u, l + 1)
  <2>1. n.blocks[l + 2] = NoSaves
    <3>1. Len(m.blocks) + 1 = l + 2
      <4> HIDE DEF l
      <4> QED BY <1>0
    <3> QED BY <3>1
  <2>2. NoSaves.alias = <<>> /\ NoSaves.globs = {}
    BY DEF NoSaves
  <2>3. Undoes(<<>>, m.alias, m.alias)
    <3>1. Len(<<>>) = 0 /\ 1 .. 0 = {}
      OBVIOUS
    <3> QED BY <3>1 DEF Undoes, UndoesTo
  <2>4. ~ (l + 1 < l + 1) /\ (l + 1) + 1 = l + 2
    <3> HIDE DEF l
    <3> QED BY <1>0
  <2>5. NextAlias(n, u, l + 1) = m.alias /\ NextHidden(n, u, l + 1) = m.hidden
    BY <1>2 DEF NextAlias, NextHidden
  <2>6. u[l + 1].alias = m.alias /\ u[l + 1].hidden = m.hidden
    BY <1>1, <1>2
  <2>7. n.blocks[(l + 1) + 1].alias = <<>> /\ n.blocks[(l + 1) + 1].globs = {}
    BY <2>1, <2>2, <2>4
  <2> QED BY <1>1, <1>2, <2>3, <2>4, <2>5, <2>6, <2>7 DEF Linked
<1>5. ASSUME NEW d \in 1 .. l + 1, u[d].sure PROVE Linked(n, u, d)
  <2>1. d \in 1 .. l \/ d = l + 1
    <3> HIDE DEF l
    <3> QED BY <1>0
  <2> QED BY <1>3, <1>4, <1>5, <2>1
<1> QED BY <1>2, <1>5 DEF Chain, u, look

\* A block ends: the names stand for what they stood for when it began.
LEMMA ChainPopped ==
    ASSUME NEW m \in IO, NEW n, NEW looks \in Seq(LookType), Chain(m, looks),
           Len(looks) = Len(m.blocks) - 1, Len(m.blocks) > 1,
           n.hidden = m.hidden \ m.blocks[Len(m.blocks)].globs,
           \A look \in Looks : Undoes(m.blocks[Len(m.blocks)].alias, m.alias, look)
                                  => n.alias = look,
           \A d \in 1 .. Len(m.blocks) - 1 : n.blocks[d] = m.blocks[d]
    PROVE  /\ Front(looks) \in Seq(LookType) /\ Len(Front(looks)) = Len(looks) - 1
           /\ Last(looks).sure => n.alias = Last(looks).alias /\ n.hidden = Last(looks).hidden
           /\ Last(looks) \in LookType
           /\ Chain(n, Front(looks))
<1> DEFINE l == Len(looks)
           u == Front(looks)
<1>0. l \in Nat /\ l >= 1 /\ Len(m.blocks) = l + 1 /\ looks # <<>>
  <2>1. l \in Nat /\ Len(m.blocks) \in Nat
    BY BlockParts, LenProperties
  <2>2. looks = <<>> => Len(looks) = 0
    OBVIOUS
  <2> HIDE DEF l
  <2>3. l = Len(m.blocks) - 1
    BY DEF l
  <2>4. l >= 1 /\ Len(m.blocks) = l + 1
    BY <2>1, <2>3
  <2>5. looks # <<>>
    BY <2>2, <2>4 DEF l
  <2> QED BY <2>1, <2>4, <2>5
<1>1. /\ u \in Seq(LookType) /\ Len(u) = l - 1 /\ \A d \in 1 .. l - 1 : u[d] = looks[d]
  BY <1>0, FrontOfSeq
<1>2. Last(looks) = looks[l] /\ looks[l] \in LookType /\ l \in 1 .. l
  BY <1>0, LastOfSeq
<1> HIDE DEF u
<1>3. looks[l].sure => n.alias = looks[l].alias /\ n.hidden = looks[l].hidden
  <2>1. SUFFICES ASSUME looks[l].sure
        PROVE  n.alias = looks[l].alias /\ n.hidden = looks[l].hidden
    OBVIOUS
  <2>2. Linked(m, looks, l)
    BY <1>2, <2>1 DEF Chain
  <2>3. /\ looks[l].alias \in Looks /\ Undoes(m.blocks[l + 1].alias, m.alias, looks[l].alias)
        /\ m.hidden = looks[l].hidden \cup m.blocks[l + 1].globs
        /\ looks[l].hidden \cap m.blocks[l + 1].globs = {}
    BY <2>2 DEF Linked, NextAlias, NextHidden
  <2> HIDE DEF l
  <2>4. n.alias = looks[l].alias
    BY <1>0, <2>3
  <2>5. n.hidden = m.hidden \ m.blocks[l + 1].globs
    BY <1>0
  <2>6. n.hidden = looks[l].hidden
    BY <2>3, <2>5
  <2> QED BY <2>4, <2>6
<1>4. ASSUME NEW d \in 1 .. l - 1, u[d].sure PROVE Linked(n, u, d)
  <2>1. /\ u[d] = looks[d] /\ d + 1 \in 1 .. Len(m.blocks) - 1 /\ d \in 1 .. l /\ d < l
        /\ d # l
    <3> HIDE DEF l
    <3> QED BY <1>0, <1>1
  <2>2. Linked(m, looks, d)
    BY <1>4, <2>1 DEF Chain
  <2>3. n.blocks[d + 1] = m.blocks[d + 1]
    BY <2>1
  <2>4. looks[d + 1].sure
    BY <2>1, <2>2 DEF Linked
  <2>5. CASE d = l - 1
    <3>1. d + 1 = l /\ ~ (d < l - 1)
      <4> HIDE DEF l
      <4> QED BY <1>0, <2>5
    <3>2. n.alias = looks[d + 1].alias /\ n.hidden = looks[d + 1].hidden
      BY <1>3, <2>4, <3>1
    <3>3. /\ NextAlias(n, u, d) = NextAlias(m, looks, d)
          /\ NextHidden(n, u, d) = NextHidden(m, looks, d)
      BY <1>1, <2>1, <2>5, <3>2 DEF NextAlias, NextHidden
    <3> QED BY <1>1, <2>1, <2>2, <2>3, <3>1, <3>3 DEF Linked
  <2>6. CASE d # l - 1
    <3>1. d + 1 \in 1 .. l - 1
      <4> HIDE DEF l
      <4> QED BY <1>0, <2>6
    <3>2. u[d + 1] = looks[d + 1]
      BY <1>1, <3>1
    <3>3. /\ NextAlias(n, u, d) = NextAlias(m, looks, d)
          /\ NextHidden(n, u, d) = NextHidden(m, looks, d)
      BY <1>1, <2>1, <2>6, <3>2 DEF NextAlias, NextHidden
    <3> QED BY <1>1, <2>1, <2>2, <2>3, <2>4, <3>2, <3>3 DEF Linked
  <2> QED BY <2>5, <2>6
<1>5. Chain(n, u)
  BY <1>1, <1>4 DEF Chain
<1> QED BY <1>1, <1>2, <1>3, <1>5 DEF u

\* What an operation does that changes no file.
LEMMA BlocksKeep ==
    ASSUME HandlesInv, io' \in IO, SameFiles(io, io'), io'.blocks # <<>>, ops' \in Nat,
           reading' = reading, sent' = sent, entered' \in Seq(LookType),
           Len(entered') = Len(io'.blocks) - 1, Chain(io', entered')
    PROVE  HandlesInv'
<1>1. /\ io \in IO /\ reading \in [Names -> Log] /\ sent \in SentType
      /\ TextsHeld(io, sent) /\ LogsHeld(io, reading)
  BY InvParts
<1>2. TypeInv'
  BY <1>1 DEF TypeInv
<1>3. TextsHeld(io', sent')
  BY <1>1, WritingDelivers, TextsSame DEF SameFiles
<1>4. LogsHeld(io', reading')
  <2>1. SameReading(io, io') /\ io'.mem = io.mem /\ io'.disk = io.disk
    BY DEF SameFiles, SameWriting
  <2> QED BY <1>1, <2>1, SameFollows DEF LogsHeld
<1> QED BY <1>2, <1>3, <1>4 DEF HandlesInv

\* A block begins.
LEMMA OpenBlockKeeps ==
    ASSUME HandlesInv, OpenBlock
    PROVE  HandlesInv'
<1> DEFINE n == [io EXCEPT !.blocks = Append(@, NoSaves)]
           D == Len(io.blocks)
<1>1. /\ io \in IO /\ io.blocks # <<>> /\ Chain(io, entered) /\ entered \in Seq(LookType)
      /\ Len(entered) = D - 1 /\ ops \in Nat
  BY DEF HandlesInv, TypeInv
<1>2. /\ n \in IO /\ SameFiles(io, n) /\ n.alias = io.alias /\ n.hidden = io.hidden
      /\ n.blocks # <<>> /\ Len(n.blocks) = D + 1
      /\ \A d \in 1 .. D : n.blocks[d] = io.blocks[d]
      /\ n.blocks[D + 1] = NoSaves
  BY <1>1, PushDone
<1>3. /\ io' = n /\ entered' = Append(entered, Look(io)) /\ ops > 0 /\ ops' = ops - 1
      /\ reading' = reading /\ sent' = sent
  BY DEF OpenBlock
<1> HIDE DEF n
<1>4. /\ Append(entered, Look(io)) \in Seq(LookType)
      /\ Len(Append(entered, Look(io))) = Len(entered) + 1
      /\ Chain(n, Append(entered, Look(io)))
  BY <1>1, <1>2, ChainPushed
<1>5. ops' \in Nat
  BY <1>1, <1>3
<1>6. Len(entered') = Len(io'.blocks) - 1
  <2>1. D \in Nat
    BY <1>1, BlockParts
  <2> HIDE DEF D
  <2> QED BY <1>1, <1>2, <1>3, <1>4, <2>1
<1> QED BY <1>2, <1>3, <1>4, <1>5, <1>6, BlocksKeep

\* The end of a block keeps the invariant, and gives back what the block found.
LEMMA EndBlockKeeps ==
    ASSUME HandlesInv, EndBlock
    PROVE  HandlesInv' /\ SameLook /\ SameLast
<1> DEFINE n == CloseBlock(io)
           D == Len(io.blocks)
<1>1. /\ io \in IO /\ io.blocks # <<>> /\ Chain(io, entered) /\ entered \in Seq(LookType)
      /\ Len(entered) = D - 1 /\ ops \in Nat
  BY DEF HandlesInv, TypeInv
<1>2. /\ D > 1 /\ io' = n /\ entered' = Front(entered) /\ ops' = ops
      /\ reading' = reading /\ sent' = sent
  BY DEF EndBlock, Top
<1>3. /\ n \in IO /\ SameFiles(io, n) /\ n.blocks # <<>> /\ Len(n.blocks) = D - 1
      /\ \A d \in 1 .. D - 1 : n.blocks[d] = io.blocks[d]
      /\ n.hidden = io.hidden \ io.blocks[D].globs
      /\ \A look \in Looks : Undoes(io.blocks[D].alias, io.alias, look) => n.alias = look
      /\ io.blocks[D].dot # <<>> => n.last = Head(io.blocks[D].dot)
  BY <1>1, <1>2, CloseBlockDone
<1> HIDE DEF n
<1>4. /\ Front(entered) \in Seq(LookType) /\ Len(Front(entered)) = Len(entered) - 1
      /\ Last(entered).sure => n.alias = Last(entered).alias /\ n.hidden = Last(entered).hidden
      /\ Last(entered) \in LookType
      /\ Chain(n, Front(entered))
  BY <1>1, <1>2, <1>3, ChainPopped
<1>5. Len(entered') = Len(io'.blocks) - 1
  BY <1>1, <1>2, <1>3, <1>4
<1>6. HandlesInv'
  BY <1>1, <1>2, <1>3, <1>4, <1>5, BlocksKeep
<1>7. SameLook
  <2>1. SUFFICES ASSUME Last(entered).sure PROVE Look(n) = Last(entered)
    BY <1>2 DEF SameLook
  <2> DEFINE e == Last(entered)
  <2>2. e \in LookType /\ e.sure /\ e.alias = n.alias /\ e.hidden = n.hidden
    BY <1>4, <2>1
  <2> HIDE DEF e
  <2>3. Look(n) = e
    BY <2>2 DEF Look, LookType
  <2> QED BY <2>3 DEF e
<1>8. SameLast
  <2>1. Last(io.blocks) = io.blocks[D]
    BY DEF Last
  <2> QED BY <1>2, <1>3, <2>1 DEF SameLast
<1> QED BY <1>6, <1>7, <1>8

\* The end of the program closes what is open.
LEMMA ExitKeeps ==
    ASSUME HandlesInv, Exit
    PROVE  HandlesInv'
<1>1. PICK left \in SetToSeqs(Names) : io' = InTurn(Close, io, left)
  BY DEF Exit
<1>2. left \in Seq(Names)
  <2>1. Cardinality(Names) \in Nat
    BY HandlesAssumption, FS_CardinalityType
  <2>2. left \in [1 .. Cardinality(Names) -> Names]
    BY DEF SetToSeqs
  <2> QED BY <2>1, <2>2
<1>3. /\ io \in IO /\ io.blocks # <<>> /\ sent \in SentType /\ TextsHeld(io, sent)
      /\ Chain(io, entered)
  BY InvParts
<1> DEFINE n == InTurn(Close, io, left)
<1>4. n \in IO /\ SameNaming(io, n) /\ Delivers(io, n, {})
  BY <1>2, <1>3, CloseRun DEF OnlyCloses
<1>5. /\ io' = n /\ reading' = [h \in Names |-> NoLog] /\ ops' = ops /\ sent' = sent
      /\ entered' = entered
  BY <1>1 DEF Exit
<1> HIDE DEF n
<1>6. io'.blocks = io.blocks
  BY <1>4, <1>5 DEF SameNaming
<1>7. reading' \in [Names -> Log] /\ \A h \in Names : reading'[h].sure = FALSE
  BY <1>5, NoLogTyped
<1>8. LogsHeld(io', reading')
  BY <1>7 DEF LogsHeld
<1>9. TextsHeld(io', sent')
  BY <1>3, <1>4, <1>5, TextsSame
<1>10. Chain(io', entered')
  BY <1>3, <1>4, <1>5, ChainSame
<1>11. TypeInv'
  BY <1>4, <1>5, <1>6, <1>7 DEF HandlesInv, TypeInv
<1> QED BY <1>8, <1>9, <1>10, <1>11 DEF HandlesInv

-----------------------------------------------------------------------------
(***************************************************************************)
(* The theorems.                                                           *)
(***************************************************************************)
LEMMA InitHolds ==
    ASSUME Init
    PROVE  HandlesInv
<1>1. PICK disk \in [Files -> SeqOf(Records, MaxSize)] :
       io = [disk |-> disk, mem |-> [s \in Scalars |-> <<>>],
             readers |-> [n \in Names |-> NoReader], writers |-> [n \in Names |-> NoWriter],
             strings |-> [n \in Names |-> NoString], sinks |-> [n \in Names |-> None],
             alias |-> [n \in Names |-> None], hidden |-> {},
             counts |-> [n \in Names |-> 0], last |-> None, out |-> <<>>,
             blocks |-> <<NoSaves>>]
  BY DEF Init
<1>2. /\ ops = MaxOps /\ reading = [n \in Names |-> NoLog] /\ entered = <<>>
      /\ sent = [f \in Files |-> [text |-> <<>>, sure |-> FALSE]]
  BY DEF Init
<1>3. \A t \in SeqOf(Records, MaxSize) : t \in Text
  <2>1. ASSUME NEW t \in SeqOf(Records, MaxSize) PROVE t \in Text
    <3>1. PICK k \in 0 .. MaxSize : t \in [1 .. k -> Records]
      BY DEF SeqOf
    <3>2. k \in Nat
      BY HandlesAssumption
    <3>3. t \in Seq(Records)
      BY <3>1, <3>2
    <3> QED BY <3>3, RecordsAreText
  <2> QED BY <2>1
<1>4. disk \in [Files -> Text]
  BY <1>3
<1>5. /\ <<>> \in Text /\ <<>> \in Seq(Records) /\ <<>> \in Seq(LookType)
      /\ Len(<<>>) = 0
  BY EmptySeq DEF Text
<1>6. /\ NoReader \in Reader /\ NoWriter \in Writer /\ NoString \in StringReader
  BY <1>5 DEF NoReader, NoWriter, NoString, Reader, Writer, StringReader
<1>7. /\ <<NoSaves>> \in Seq(Block) /\ <<NoSaves>> # <<>> /\ Len(<<NoSaves>>) = 1
  <2>1. NoSaves \in Block
    BY EmptySeq DEF NoSaves, Block
  <2> HIDE DEF NoSaves
  <2> QED BY <2>1
<1> HIDE DEF NoSaves, NoReader, NoWriter, NoString
<1>8. io \in IO /\ io.blocks = <<NoSaves>>
  BY <1>1, <1>4, <1>5, <1>6, <1>7 DEF IO
<1>9. /\ reading \in [Names -> Log] /\ \A h \in Names : reading[h].sure = FALSE
  BY <1>2, NoLogTyped
<1>10. /\ sent \in SentType /\ \A f \in Files : sent[f].sure = FALSE
  BY <1>2, <1>5 DEF SentType
<1>11. TypeInv
  BY <1>2, <1>5, <1>7, <1>8, <1>9, <1>10, HandlesAssumption DEF TypeInv
<1>12. LogsHeld(io, reading) /\ TextsHeld(io, sent)
  BY <1>9, <1>10 DEF LogsHeld, TextsHeld
<1>13. Chain(io, entered)
  <2>1. 1 .. Len(entered) = {}
    BY <1>2, <1>5
  <2> QED BY <2>1 DEF Chain
<1> QED BY <1>11, <1>12, <1>13 DEF HandlesInv

\* Nothing happens.
LEMMA StutterKeeps ==
    ASSUME HandlesInv, UNCHANGED vars
    PROVE  HandlesInv'
<1>1. /\ io' = io /\ ops' = ops /\ reading' = reading /\ sent' = sent /\ entered' = entered
  BY DEF vars
<1>2. TypeInv'
  BY <1>1 DEF HandlesInv, TypeInv
<1>3. LogsHeld(io', reading') /\ TextsHeld(io', sent') /\ Chain(io', entered')
  BY <1>1 DEF HandlesInv
<1> QED BY <1>2, <1>3 DEF HandlesInv

\* Every step of the program keeps the invariant.
LEMMA StepKeeps ==
    ASSUME HandlesInv, [Next]_vars
    PROVE  HandlesInv'
BY InputKeeps, OutputKeeps, PositionKeeps, OpenKeeps, NamingKeeps, OpenBlockKeeps,
   EndBlockKeeps, ExitKeeps, StutterKeeps DEF Next

\* HandlesInv is an inductive invariant of the program.
THEOREM HandlesKept == Spec => []HandlesInv
<1>1. Init => HandlesInv
  BY InitHolds
<1>2. HandlesInv /\ [Next]_vars => HandlesInv'
  BY StepKeeps
<1> QED BY <1>1, <1>2, PTL DEF Spec

\* A handle that is open in one table gives the records of its file or scalar in their
\* order, none twice and none left out: what a log has and what waits in the buffer is
\* the text from where the log began.
THEOREM ReadsAreInOrder == Spec => []ReadsInOrder
<1>1. HandlesInv => ReadsInOrder
  <2>1. SUFFICES ASSUME HandlesInv, NEW h \in Names, reading[h].sure
        PROVE  IsPrefix(reading[h].got, Rest(Source(io, h), reading[h].from))
    BY DEF ReadsInOrder
  <2>2. io \in IO /\ reading \in [Names -> Log] /\ LogsHeld(io, reading)
    BY <2>1, InvParts
  <2> DEFINE log == reading[h]
  <2>3. log \in Log /\ Follows(io, h, log)
    BY <2>1, <2>2 DEF LogsHeld
  <2>4. log.from \in Nat /\ log.got \in Text
    <3> HIDE DEF log
    <3> QED BY <2>3 DEF Log
  <2>5. Source(io, h) \in Text
    BY <2>2, SourceTyped
  <2>6. Ahead(io, h) \in Text
    BY <2>2, ReaderParts, EmptySeq DEF Ahead, Text
  <2>7. Agrees(Source(io, h), log.from, log.got \o Ahead(io, h), Place(io, h))
    BY <2>3 DEF Follows
  <2> HIDE DEF log
  <2>8. IsPrefix(log.got, Rest(Source(io, h), log.from))
    BY <2>4, <2>5, <2>6, <2>7, AgreesReads
  <2> QED BY <2>8 DEF log
<1> QED BY <1>1, HandlesKept, PTL

\* A file that one handle at a time writes holds, with the writer's buffer, all that was
\* printed to it, in that order: a writer that is not in append mode stands at the end of
\* the file, so that writing its buffer out puts nothing over what is there.
THEOREM AllIsDelivered == Spec => []Delivered
<1>1. HandlesInv => Delivered
  <2>1. SUFFICES ASSUME HandlesInv, NEW f \in Files, sent[f].sure
        PROVE  \/ Writing(io, f) = {} /\ sent[f].text = io.disk[f]
               \/ \E h \in Names : /\ Writing(io, f) = {h}
                                  /\ sent[f].text = io.disk[f] \o io.writers[h].buf
    BY DEF Delivered
  <2>2. Held(io, f, sent[f].text)
    BY <2>1, InvParts DEF TextsHeld
  <2> QED BY <2>2, HeldMeans
<1> QED BY <1>1, HandlesKept, PTL

\* The end of a block leaves every name standing for what it stood for and the handle
\* last read as it was: the first save of a name says what it stood for, the globs a
\* block hides it did not find hidden, and the saves are undone last first.
THEOREM BlocksGiveBack == Spec => BlocksRestore
<1>1. HandlesInv /\ HandlesInv' /\ [Next]_vars
         => [Top(io') < Top(io) => SameLook /\ SameLast]_vars
  <2>1. SUFFICES ASSUME HandlesInv, HandlesInv', Next, Top(io') < Top(io)
        PROVE  SameLook /\ SameLast
    OBVIOUS
  <2>2. /\ entered \in Seq(LookType) /\ Len(entered) = Top(io) - 1
        /\ io \in IO /\ io' \in IO /\ Len(entered') = Top(io') - 1
    BY <2>1 DEF HandlesInv, TypeInv, Top
  <2>3. Top(io) \in Nat /\ Top(io') \in Nat
    BY <2>2, BlockParts DEF Top
  <2>4. Len(entered') < Len(entered)
    BY <2>1, <2>2, <2>3
  <2>5. CASE EndBlock
    BY <2>1, <2>5, EndBlockKeeps
  <2>6. CASE OpenBlock
    <3>1. entered' = Append(entered, Look(io))
      BY <2>6 DEF OpenBlock
    <3>2. Len(entered') = Len(entered) + 1
      BY <2>2, <3>1, LookTyped, AppendToSeq
    <3> QED BY <2>2, <2>3, <2>4, <3>2
  <2>7. CASE Input \/ Output \/ Position \/ Open \/ Naming \/ Exit
    <3>1. entered' = entered \/ entered' = [d \in DOMAIN entered |-> NoLook]
      BY <2>7 DEF Input, Output, Position, Open, Naming, Exit, Reads, Becomes
    <3>2. CASE entered' = entered
      BY <2>2, <2>3, <2>4, <3>2
    <3>3. CASE entered' = [d \in DOMAIN entered |-> NoLook]
      <4> DEFINE k == Len(entered)
      <4>1. DOMAIN entered = 1 .. k /\ k \in Nat
        BY <2>2, LenProperties
      <4>2. NoLook \in LookType
        BY DEF NoLook, LookType
      <4> HIDE DEF k
      <4>3. Len([d \in 1 .. k |-> NoLook]) = k
        BY <4>1, <4>2, SameThroughout
      <4>4. Len(entered') = k
        BY <3>3, <4>1, <4>3
      <4> QED BY <2>4, <4>1, <4>4 DEF k
    <3> QED BY <3>1, <3>2, <3>3, SMTT(30)
  <2> QED BY <2>1, <2>5, <2>6, <2>7 DEF Next
<1> QED BY <1>1, HandlesKept, PTL DEF Spec, BlocksRestore
================================================================================
