--------------------------- MODULE LexicalsProofs ---------------------------
(***************************************************************************)
(* What Lexicals promises, for every number of subs, items and constructs: *)
(* the types, the frames that the end of a construct leaves (FramesBack),  *)
(* what an anonymous sub captures (CapturesVisible) and that a variable    *)
(* has one storage (OneStorage).                                           *)
(*                                                                         *)
(* The frames alone do not say what the end of a construct will leave: the *)
(* invariant BackInv says of every open construct, not only of the         *)
(* innermost, where the frames around it are while it is executed, and     *)
(* chains them: the frames below one construct are those the one inside    *)
(* it found.  EnvInv does the same for the captured environments: an       *)
(* environment is at the bottom of the frames as long as no construct      *)
(* above its sub has taken frames away.  StorageInv says where all slots   *)
(* are, the one that a file shares included, and that environments hold    *)
(* only slots with cells.                                                  *)
(***************************************************************************)
EXTENDS Lexicals, SequenceLemmas, FiniteSetTheorems

SubKinds == {"anon", "named", "filed"}
Agree(o, b, n) == \A i \in 1 .. n : o[i] = b[i]

\* `o` are the marks of the frames while c is executed: those of the code around it,
\* c.back, are among them or in c.stash.
Inside(c, o) ==
    LET b == c.back
        own == IF c.file THEN 2 ELSE 1
    IN /\ c.kind \in {"block", "eval", "load"} =>
             Len(o) = Len(b) + 1 /\ Agree(o, b, Len(b))
       /\ c.kind = "for" =>
             Len(o) = Len(b) + (IF c.at = "body" THEN 2 ELSE 1) /\ Agree(o, b, Len(b))
       /\ c.kind \in SubKinds /\ c.stash = <<>> =>
             Len(o) = c.pre + Len(b) + own /\ \A i \in 1 .. Len(b) : o[c.pre + i] = b[i]
       /\ c.kind \in SubKinds /\ c.stash # <<>> =>
             Len(o) = c.pre + own /\ Marks(c.stash) = b
       /\ c.kind = "string" =>
             /\ Len(c.stash) < Len(b) /\ Len(o) = Len(b) - Len(c.stash) + 1
             /\ o[1] = b[1]
             /\ \A i \in 1 .. Len(c.stash) : Marks(c.stash)[i] = b[i + 1]
             /\ \A i \in 2 .. Len(b) - Len(c.stash) : o[i] = b[i + Len(c.stash)]
       /\ c.kind = "dofile" => Marks(c.stash) = b

\* Each construct is executed inside the one below it, `o` being the frames of the
\* innermost one.
Chain(s, o) ==
    \A k \in 1 .. Len(s) :
        /\ Len(s[k].back) >= 1
        /\ Inside(s[k], IF k < Len(s) THEN s[k + 1].back ELSE o)
BackInv == Chain(open, Marks(scopes))

\* A construct is opened,
LEMMA ChainOpens ==
    ASSUME NEW C, NEW s \in Seq(C), NEW o, NEW c \in C, NEW p, Chain(s, o),
           c.back = o, Len(o) >= 1, Inside(c, p)
    PROVE  Chain(Append(s, c), p)
<1> DEFINE t == Append(s, c)
           n == Len(s)
<1>1. /\ n \in Nat /\ Len(t) = n + 1 /\ t[n + 1] = c /\ \A k \in 1 .. n : t[k] = s[k]
  BY AppendToSeq
<1>2. \A k \in 1 .. n : /\ Len(s[k].back) >= 1
                       /\ Inside(s[k], IF k < n THEN s[k + 1].back ELSE o)
  BY DEF Chain
<1> HIDE DEF t, n
<1>3. ASSUME NEW k \in 1 .. n + 1
      PROVE  Len(t[k].back) >= 1 /\ Inside(t[k], IF k < n + 1 THEN t[k + 1].back ELSE p)
  <2>1. CASE k = n + 1
    BY <1>1, <2>1
  <2>2. CASE k = n
    BY <1>1, <1>2, <2>2
  <2>3. CASE k < n
    <3>1. k \in 1 .. n /\ k + 1 \in 1 .. n /\ k < n + 1 /\ k \in 1 .. n
      BY <1>1, <2>3
    <3> QED BY <1>1, <1>2, <2>3, <3>1
  <2> QED BY <1>1, <2>1, <2>2, <2>3
<1>4. Chain(t, p)
  BY <1>1, <1>3 DEF Chain
<1> QED BY <1>4 DEF t

\* closed: the frames are those of the code around it,
LEMMA ChainCloses ==
    ASSUME NEW C, NEW s \in Seq(C), NEW o, Chain(s, o), s # <<>>
    PROVE  Chain(Front(s), Last(s).back)
<1> DEFINE t == Front(s)
           n == Len(s)
<1>1. /\ n \in Nat /\ n >= 1 /\ Len(t) = n - 1 /\ \A k \in 1 .. n - 1 : t[k] = s[k]
      /\ Last(s) = s[n]
  BY FrontOfSeq, LastOfSeq
<1>2. \A k \in 1 .. n : /\ Len(s[k].back) >= 1
                       /\ Inside(s[k], IF k < n THEN s[k + 1].back ELSE o)
  BY DEF Chain
<1> HIDE DEF t, n
<1>3. ASSUME NEW k \in 1 .. n - 1
      PROVE  /\ Len(t[k].back) >= 1
             /\ Inside(t[k], IF k < n - 1 THEN t[k + 1].back ELSE s[n].back)
  <2>1. k \in 1 .. n /\ k < n /\ t[k] = s[k]
    BY <1>1
  <2>2. Len(s[k].back) >= 1 /\ Inside(s[k], s[k + 1].back)
    BY <1>2, <2>1
  <2>3. CASE k = n - 1
    BY <1>1, <2>1, <2>2, <2>3
  <2>4. CASE k < n - 1
    <3>1. k + 1 \in 1 .. n - 1
      BY <1>1, <2>4
    <3> QED BY <1>1, <2>1, <2>2, <2>4, <3>1
  <2> QED BY <1>1, <2>3, <2>4
<1>4. Chain(t, s[n].back)
  BY <1>1, <1>3 DEF Chain
<1> QED BY <1>1, <1>4 DEF t

\* or changed together with the frames,
LEMMA ChainMoves ==
    ASSUME NEW C, NEW s \in Seq(C), s # <<>>, NEW o, Chain(s, o), NEW c \in C, NEW p,
           c.back = Last(s).back, Inside(c, p)
    PROVE  Chain([s EXCEPT ![Len(s)] = c], p)
<1> DEFINE n == Len(s)
           t == [s EXCEPT ![n] = c]
<1>1. n \in Nat /\ n >= 1 /\ n \in 1 .. n /\ Last(s) = s[n]
  BY LastOfSeq
<1>2. /\ Len(t) = n /\ t[n] = c /\ \A k \in 1 .. n : k # n => t[k] = s[k]
  BY <1>1, ExceptSeq
<1>3. \A k \in 1 .. n : /\ Len(s[k].back) >= 1
                       /\ Inside(s[k], IF k < n THEN s[k + 1].back ELSE o)
  BY DEF Chain
<1> HIDE DEF t, n
<1>4. ASSUME NEW k \in 1 .. n
      PROVE  Len(t[k].back) >= 1 /\ Inside(t[k], IF k < n THEN t[k + 1].back ELSE p)
  <2>1. CASE k = n
    BY <1>1, <1>2, <1>3, <2>1
  <2>2. CASE k # n
    <3>1. k < n /\ k + 1 \in 1 .. n /\ t[k] = s[k]
      BY <1>1, <1>2, <2>2
    <3>2. t[k + 1].back = s[k + 1].back
      BY <1>1, <1>2, <3>1
    <3> QED BY <1>3, <3>1, <3>2
  <2> QED BY <2>1, <2>2
<1>5. Chain(t, p)
  BY <1>2, <1>4 DEF Chain
<1> QED BY <1>5 DEF t, n

\* The same marks but the innermost one's.
SameBelow(o, p) == Len(p) = Len(o) /\ Agree(p, o, Len(o) - 1)

\* No construct depends on the innermost frame's `$x`.
LEMMA InsideBelow ==
    ASSUME NEW c, NEW o, NEW p, Inside(c, o), SameBelow(o, p),
           Len(o) \in Nat, Len(c.back) \in Nat, Len(c.back) >= 1, Len(c.stash) \in Nat,
           c.pre \in Nat
    PROVE  Inside(c, p)
<1> DEFINE b == c.back
           m == Len(o)
           n == Len(b)
<1>1. m \in Nat /\ n \in Nat /\ n >= 1 /\ Len(p) = m /\ \A i \in 1 .. m - 1 : p[i] = o[i]
  BY DEF SameBelow, Agree
<1>2. CASE c.kind \in {"block", "eval", "load"}
  <2>1. m = n + 1 /\ \A i \in 1 .. n : o[i] = b[i]
    BY <1>2 DEF Inside, Agree
  <2> HIDE DEF m, n, b
  <2>2. \A i \in 1 .. n : p[i] = b[i]
    BY <1>1, <2>1
  <2> QED BY <1>1, <1>2, <2>1, <2>2 DEF Inside, Agree, SubKinds, m, n, b
<1>3. CASE c.kind = "for"
  <2>1. m = n + (IF c.at = "body" THEN 2 ELSE 1) /\ \A i \in 1 .. n : o[i] = b[i]
    BY <1>3 DEF Inside, Agree
  <2> HIDE DEF m, n, b
  <2>2. \A i \in 1 .. n : p[i] = b[i]
    BY <1>1, <2>1
  <2> QED BY <1>1, <1>3, <2>1, <2>2 DEF Inside, Agree, SubKinds, m, n, b
<1>4. CASE c.kind \in SubKinds
  <2> DEFINE own == IF c.file THEN 2 ELSE 1
             q == c.pre
  <2>1. CASE c.stash = <<>>
    <3>1. m = q + n + own /\ \A i \in 1 .. n : o[q + i] = b[i]
      BY <1>4, <2>1 DEF Inside
    <3>2. q \in Nat /\ own \in {1, 2}
      OBVIOUS
    <3> HIDE DEF m, n, b, own, q
    <3>3. \A i \in 1 .. n : q + i \in 1 .. m - 1
      BY <1>1, <3>1, <3>2
    <3>4. \A i \in 1 .. n : p[q + i] = b[i]
      BY <1>1, <3>1, <3>3
    <3> QED BY <1>1, <1>4, <2>1, <3>1, <3>4 DEF Inside, SubKinds, m, n, b, own, q
  <2>2. CASE c.stash # <<>>
    BY <1>1, <1>4, <2>2 DEF Inside, SubKinds
  <2> QED BY <2>1, <2>2
<1>5. CASE c.kind = "string"
  <2> DEFINE w == c.stash
             d == Len(w)
  <2>1. /\ d < n /\ m = n - d + 1 /\ o[1] = b[1] /\ d \in Nat
        /\ \A i \in 2 .. n - d : o[i] = b[i + d]
    BY <1>5 DEF Inside
  <2> HIDE DEF m, n, b, d
  <2>2. p[1] = b[1] /\ \A i \in 2 .. n - d : p[i] = b[i + d]
    BY <1>1, <2>1
  <2> QED BY <1>1, <1>5, <2>1, <2>2 DEF Inside, SubKinds, m, n, b, d
<1>6. CASE c.kind = "dofile"
  BY <1>6 DEF Inside, SubKinds
<1>7. CASE c.kind \notin {"block", "eval", "load", "for", "string", "dofile"} \cup SubKinds
  BY <1>7 DEF Inside
<1> QED BY <1>2, <1>3, <1>4, <1>5, <1>6, <1>7

\* What there is more of after a step: variables, cells, environments.
Grown == /\ born' \in Nat /\ celled' \in Nat /\ stores' \in Seq(Seq(Frames') \ {<<>>})
         /\ born <= born' /\ celled <= celled' /\ Len(stores) <= Len(stores')

\* Types only become larger.
LEMMA LargerFrames ==
    ASSUME TypeOK, born' \in Nat, celled' \in Nat, born <= born', celled <= celled'
    PROVE  /\ Slots \subseteq Slots' /\ Frames \subseteq Frames' /\ Mark \subseteq Mark'
           /\ Seq(Frames) \subseteq Seq(Frames') /\ Seq(Mark) \subseteq Seq(Mark')
<1>1. -1 .. born \subseteq -1 .. born' /\ 0 .. celled \subseteq 0 .. celled'
  BY DEF TypeOK
<1>2. Slots \subseteq Slots'
  BY <1>1 DEF Slots
<1>3. Frames \subseteq Frames' /\ Mark \subseteq Mark'
  BY <1>1, <1>2 DEF Frames, Mark
<1> QED BY <1>2, <1>3, SeqMonotonic

\* and so do those of the environments and the constructs.
LEMMA LargerTypes ==
    ASSUME TypeOK, Grown
    PROVE  Envs \subseteq Envs' /\ Constructs \subseteq Constructs'
<1>1. DOMAIN stores = 1 .. Len(stores) /\ DOMAIN stores' = 1 .. Len(stores')
  BY DEF TypeOK, Grown
<1>2. Envs \subseteq Envs'
  BY <1>1 DEF Envs, Grown, TypeOK
<1>3. /\ Slots \subseteq Slots' /\ Seq(Frames) \subseteq Seq(Frames')
      /\ Seq(Mark) \subseteq Seq(Mark')
  BY LargerFrames DEF Grown
<1>4. Constructs \subseteq Constructs'
  BY <1>2, <1>3 DEF Constructs
<1> QED BY <1>2, <1>4

\* The chain does not depend on the innermost frame's `$x`.
LEMMA ChainTop ==
    ASSUME NEW C, NEW s \in Seq(C), NEW o, NEW p, Chain(s, o), SameBelow(o, p),
           Len(o) \in Nat,
           \A c \in C : Len(c.back) \in Nat /\ Len(c.stash) \in Nat /\ c.pre \in Nat
    PROVE  Chain(s, p)
<1> DEFINE n == Len(s)
<1>1. n \in Nat /\ \A k \in 1 .. n : s[k] \in C
  BY LenProperties, ElementOfSeq
<1>2. \A k \in 1 .. n : /\ Len(s[k].back) >= 1
                       /\ Inside(s[k], IF k < n THEN s[k + 1].back ELSE o)
  BY DEF Chain
<1>3. ASSUME NEW k \in 1 .. n, ~ (k < n) PROVE Inside(s[k], p)
  <2>1. Inside(s[k], o) /\ Len(s[k].back) >= 1 /\ s[k] \in C
    BY <1>1, <1>2, <1>3
  <2> QED BY <2>1, InsideBelow
<1> HIDE DEF n
<1>4. \A k \in 1 .. n : /\ Len(s[k].back) >= 1
                       /\ Inside(s[k], IF k < n THEN s[k + 1].back ELSE p)
  BY <1>2, <1>3
<1> QED BY <1>4 DEF Chain, n

-----------------------------------------------------------------------------
(***************************************************************************)
(* The environments of the running subs.                                   *)
(***************************************************************************)

\* A construct that takes frames of the code around it away or puts others below them.
Cuts(c) == c.pre > 0 \/ c.kind = "dofile" \/ (c.kind = "string" /\ c.stash # <<>>)
\* Only subs have an environment; a sub without one hides nothing.
Sound(c) == /\ c.pre > 0 => c.kind \in SubKinds
            /\ c.kind \in SubKinds /\ c.stash # <<>> => c.pre > 0

\* e is the environment of the innermost construct up to the j-th that has one.
Inner(s, j, e) ==
    \/ e = NoEnv /\ \A i \in 1 .. j : s[i].pre = 0
    \/ \E i \in 1 .. j : /\ s[i].pre > 0 /\ e = s[i].env
                         /\ \A l \in i + 1 .. j : s[l].pre = 0

\* currentEnv is the innermost sub's environment, and each sub remembers the one below.
Nested(s, e) ==
    /\ \A k \in 1 .. Len(s) :
           /\ Sound(s[k])
           /\ s[k].pre > 0 => s[k].env # NoEnv /\ Inner(s, k - 1, s[k].before)
    /\ Inner(s, Len(s), e)

\* A construct that has no part in it leaves the frames below in their place.
LEMMA SoundInside ==
    ASSUME NEW c, NEW o, Inside(c, o), Sound(c), ~ Cuts(c), c.pre \in Nat, c.kind \in Kinds,
           Len(c.back) \in Nat
    PROVE  Len(o) > Len(c.back) /\ Agree(o, c.back, Len(c.back))
<1> DEFINE b == c.back
           n == Len(b)
<1>1. /\ c.pre = 0 /\ c.kind # "dofile" /\ (c.kind = "string" => c.stash = <<>>)
      /\ (c.kind \in SubKinds => c.stash = <<>>)
  <2>1. c.pre = 0 /\ ~ (c.pre > 0)
    BY DEF Cuts
  <2>2. c.kind \in SubKinds => c.stash = <<>>
    BY <2>1 DEF Sound
  <2> QED BY <2>1, <2>2 DEF Cuts
<1> DEFINE m == Len(o)
<1>6. n \in Nat
  OBVIOUS
<1>2. CASE c.kind \in {"block", "eval", "load", "for"}
  <2>1. m \in {n + 1, n + 2} /\ Agree(o, b, n)
    BY <1>2 DEF Inside
  <2> HIDE DEF m, n, b
  <2>2. m > n
    BY <1>6, <2>1
  <2> QED BY <2>1, <2>2 DEF m, n, b
<1>3. CASE c.kind \in SubKinds
  <2>1. m \in {c.pre + n + 1, c.pre + n + 2} /\ \A i \in 1 .. n : o[c.pre + i] = b[i]
    BY <1>1, <1>3 DEF Inside
  <2> HIDE DEF m, n, b
  <2>2. m > n
    BY <1>1, <1>6, <2>1
  <2>3. \A i \in 1 .. n : c.pre + i = i
    BY <1>1
  <2>4. \A i \in 1 .. n : o[i] = b[i]
    BY <2>1, <2>3
  <2> QED BY <2>2, <2>4 DEF Agree, m, n, b
<1>4. CASE c.kind = "string"
  <2>1. /\ Len(c.stash) = 0
        /\ Len(o) = Len(b) - Len(c.stash) + 1 /\ o[1] = b[1]
        /\ \A i \in 2 .. Len(b) - Len(c.stash) : o[i] = b[i + Len(c.stash)]
    BY <1>1, <1>4 DEF Inside
  <2> HIDE DEF b
  <2>2. n \in Nat /\ n = Len(b)
    BY DEF b
  <2> HIDE DEF n
  <2>3. Len(o) = n + 1 /\ \A i \in 2 .. n : o[i] = b[i]
    BY <2>1, <2>2
  <2>4. \A i \in 1 .. n : o[i] = b[i]
    BY <2>1, <2>2, <2>3
  <2> QED BY <2>2, <2>3, <2>4 DEF Agree, b
<1>5. c.kind \in {"block", "eval", "load", "for", "string"} \cup SubKinds
  BY <1>1, LexicalsAssumption DEF SubKinds
<1> QED BY <1>2, <1>3, <1>4, <1>5

\* A construct is opened,
LEMMA NestedOpens ==
    ASSUME NEW C, NEW s \in Seq(C), NEW e, Nested(s, e), NEW c \in C, Sound(c), c.pre \in Nat,
           c.pre > 0 => c.env # NoEnv /\ c.before = e
    PROVE  Nested(Append(s, c), IF c.pre = 0 THEN e ELSE c.env)
<1> DEFINE t == Append(s, c)
           n == Len(s)
           f == IF c.pre = 0 THEN e ELSE c.env
<1>1. /\ n \in Nat /\ Len(t) = n + 1 /\ t[n + 1] = c /\ \A k \in 1 .. n : t[k] = s[k]
  BY AppendToSeq
<1>2. /\ \A k \in 1 .. n :
             /\ Sound(s[k])
             /\ s[k].pre > 0 => s[k].env # NoEnv /\ Inner(s, k - 1, s[k].before)
      /\ Inner(s, n, e)
  BY DEF Nested
<1>3. f = IF c.pre = 0 THEN e ELSE c.env
  OBVIOUS
<1> HIDE DEF t, n, f
<1>4. ASSUME NEW j \in 0 .. n, NEW g, Inner(s, j, g) PROVE Inner(t, j, g)
  <2>1. \A i \in 1 .. j : t[i] = s[i]
    BY <1>1
  <2>2. \A i \in 1 .. j : \A l \in i + 1 .. j : t[l] = s[l]
    BY <1>1
  <2> QED BY <1>4, <2>1, <2>2 DEF Inner
<1>5. ASSUME NEW k \in 1 .. n + 1
      PROVE  /\ Sound(t[k])
             /\ t[k].pre > 0 => t[k].env # NoEnv /\ Inner(t, k - 1, t[k].before)
  <2>1. CASE k = n + 1
    <3>1. Inner(t, n, e) /\ k - 1 = n
      BY <1>1, <1>2, <1>4, <2>1
    <3> QED BY <1>1, <2>1, <3>1
  <2>2. CASE k \in 1 .. n
    <3>1. k - 1 \in 0 .. n
      BY <1>1, <2>2
    <3> QED BY <1>1, <1>2, <1>4, <2>2, <3>1
  <2> QED BY <1>1, <2>1, <2>2
<1>6. Inner(t, n + 1, f)
  <2>1. CASE c.pre = 0
    <3>1. Inner(t, n, e) /\ f = e /\ t[n + 1].pre = 0
      BY <1>1, <1>2, <1>3, <1>4, <2>1
    <3>2. CASE e = NoEnv /\ \A i \in 1 .. n : t[i].pre = 0
      <4>1. \A i \in 1 .. n + 1 : t[i].pre = 0
        BY <1>1, <3>1, <3>2
      <4> QED BY <3>1, <3>2, <4>1 DEF Inner
    <3>3. CASE \E i \in 1 .. n : /\ t[i].pre > 0 /\ e = t[i].env
                                 /\ \A l \in i + 1 .. n : t[l].pre = 0
      <4>1. PICK i \in 1 .. n : /\ t[i].pre > 0 /\ e = t[i].env
                                /\ \A l \in i + 1 .. n : t[l].pre = 0
        BY <3>3
      <4>2. i \in 1 .. n + 1 /\ \A l \in i + 1 .. n + 1 : t[l].pre = 0
        BY <1>1, <3>1, <4>1
      <4> QED BY <3>1, <4>1, <4>2 DEF Inner
    <3> QED BY <3>1, <3>2, <3>3 DEF Inner
  <2>2. CASE c.pre # 0
    <3>1. c.pre > 0 /\ f = t[n + 1].env /\ t[n + 1].pre > 0 /\ n + 1 \in 1 .. n + 1
      BY <1>1, <1>3, <2>2
    <3>2. \A l \in (n + 1) + 1 .. n + 1 : t[l].pre = 0
      BY <1>1
    <3> QED BY <3>1, <3>2 DEF Inner
  <2> QED BY <2>1, <2>2
<1> QED BY <1>1, <1>5, <1>6 DEF Nested, t, f

\* or closed.
LEMMA NestedCloses ==
    ASSUME NEW C, NEW s \in Seq(C), s # <<>>, NEW e, Nested(s, e), \A c \in C : c.pre \in Nat
    PROVE  Nested(Front(s), IF Last(s).pre = 0 THEN e ELSE Last(s).before)
<1> DEFINE t == Front(s)
           n == Len(s)
           f == IF Last(s).pre = 0 THEN e ELSE Last(s).before
<1>1. /\ n \in Nat /\ n >= 1 /\ Len(t) = n - 1 /\ (\A k \in 1 .. n - 1 : t[k] = s[k])
      /\ Last(s) = s[n] /\ n \in 1 .. n /\ s[n] \in C
  BY FrontOfSeq, LastOfSeq
<1>2. /\ \A k \in 1 .. n :
             /\ Sound(s[k])
             /\ s[k].pre > 0 => s[k].env # NoEnv /\ Inner(s, k - 1, s[k].before)
      /\ Inner(s, n, e)
  BY DEF Nested
<1>3. f = IF s[n].pre = 0 THEN e ELSE s[n].before
  BY <1>1
<1> HIDE DEF t, n, f
<1>4. ASSUME NEW j \in 0 .. n - 1, NEW g, Inner(s, j, g) PROVE Inner(t, j, g)
  <2>1. \A i \in 1 .. j : t[i] = s[i]
    BY <1>1
  <2>2. \A i \in 1 .. j : \A l \in i + 1 .. j : t[l] = s[l]
    BY <1>1
  <2> QED BY <1>4, <2>1, <2>2 DEF Inner
<1>5. ASSUME NEW k \in 1 .. n - 1
      PROVE  /\ Sound(t[k])
             /\ t[k].pre > 0 => t[k].env # NoEnv /\ Inner(t, k - 1, t[k].before)
  <2>1. k - 1 \in 0 .. n - 1 /\ k \in 1 .. n
    BY <1>1
  <2> QED BY <1>1, <1>2, <1>4, <2>1
<1>6. Inner(t, n - 1, f)
  <2>0. n - 1 \in 0 .. n - 1
    BY <1>1
  <2>1. CASE s[n].pre = 0
    <3>1. f = e
      BY <1>3, <2>1
    <3>2. CASE e = NoEnv /\ \A i \in 1 .. n : s[i].pre = 0
      <4>1. Inner(s, n - 1, e)
        BY <1>1, <3>2 DEF Inner
      <4> QED BY <1>4, <2>0, <3>1, <4>1
    <3>3. CASE \E i \in 1 .. n : /\ s[i].pre > 0 /\ e = s[i].env
                                 /\ \A l \in i + 1 .. n : s[l].pre = 0
      <4>1. PICK i \in 1 .. n : /\ s[i].pre > 0 /\ e = s[i].env
                                /\ \A l \in i + 1 .. n : s[l].pre = 0
        BY <3>3
      <4>2. i # n
        BY <2>1, <4>1
      <4>3. i \in 1 .. n - 1 /\ \A l \in i + 1 .. n - 1 : s[l].pre = 0
        BY <1>1, <4>1, <4>2
      <4>4. Inner(s, n - 1, e)
        BY <4>1, <4>3 DEF Inner
      <4> QED BY <1>4, <2>0, <3>1, <4>4
    <3> QED BY <1>2, <3>2, <3>3 DEF Inner
  <2>2. CASE s[n].pre # 0
    <3>1. s[n].pre > 0 /\ f = s[n].before
      BY <1>1, <1>3, <2>2
    <3>2. Inner(s, n - 1, f)
      BY <1>1, <1>2, <3>1
    <3> QED BY <1>4, <2>0, <3>2
  <2> QED BY <2>1, <2>2
<1> QED BY <1>1, <1>5, <1>6 DEF Nested, t, f

\* The marks o begin with the variables of the frames v, and there are more.
Covers(o, v) == Len(o) > Len(v) /\ \A i \in 1 .. Len(v) : o[i].var = v[i].x.var
Level(s, o, m) == IF m < Len(s) THEN s[m + 1].back ELSE o

\* While nothing above a sub cuts frames, its environment is at the bottom of them.
Prefix(s, o, st) ==
    \A k \in 1 .. Len(s) : s[k].pre > 0 =>
        /\ s[k].env \in DOMAIN st /\ s[k].pre = Len(st[s[k].env])
        /\ \A m \in k .. Len(s) :
               (\A l \in k + 1 .. m : ~ Cuts(s[l])) => Covers(Level(s, o, m), st[s[k].env])

\* The stores keep their variables.
SameVars(st, u) ==
    \A e \in DOMAIN st :
        /\ e \in DOMAIN u /\ Len(u[e]) = Len(st[e])
        /\ \A i \in 1 .. Len(st[e]) : u[e][i].x.var = st[e][i].x.var

\* So the lowest frames have the variables of what the stores become.
LEMMA PrefixStores ==
    ASSUME NEW s, NEW o, NEW st, NEW u, Prefix(s, o, st), SameVars(st, u)
    PROVE  Prefix(s, o, u)
<1>1. ASSUME NEW e \in DOMAIN st, NEW p, Covers(p, st[e]) PROVE Covers(p, u[e])
  BY <1>1 DEF Covers, SameVars
<1>2. ASSUME NEW k \in 1 .. Len(s), s[k].pre > 0
      PROVE  /\ s[k].env \in DOMAIN u /\ s[k].pre = Len(u[s[k].env])
             /\ \A m \in k .. Len(s) :
                    (\A l \in k + 1 .. m : ~ Cuts(s[l])) => Covers(Level(s, o, m), u[s[k].env])
  <2>1. /\ s[k].env \in DOMAIN st /\ s[k].pre = Len(st[s[k].env])
        /\ \A m \in k .. Len(s) :
               (\A l \in k + 1 .. m : ~ Cuts(s[l])) => Covers(Level(s, o, m), st[s[k].env])
    BY <1>2 DEF Prefix
  <2>2. s[k].env \in DOMAIN u /\ s[k].pre = Len(u[s[k].env])
    BY <2>1 DEF SameVars
  <2> QED BY <1>1, <2>1, <2>2
<1> QED BY <1>2 DEF Prefix

\* Frames that agree cover the same.
LEMMA CoversMore ==
    ASSUME NEW o, NEW p, NEW v, Covers(o, v), Len(o) \in Nat, Len(v) \in Nat, Len(p) >= Len(o),
           Len(p) \in Nat, Agree(p, o, Len(o) - 1)
    PROVE  Covers(p, v)
<1> DEFINE n == Len(v)
           m == Len(o)
           q == Len(p)
<1>1. n \in Nat /\ m \in Nat /\ q \in Nat /\ m > n /\ q >= m
      /\ (\A i \in 1 .. n : o[i].var = v[i].x.var) /\ (\A i \in 1 .. m - 1 : p[i] = o[i])
  BY DEF Covers, Agree
<1> HIDE DEF n, m, q
<1>2. q > n /\ \A i \in 1 .. n : i \in 1 .. m - 1
  BY <1>1
<1>3. \A i \in 1 .. n : p[i].var = v[i].x.var
  BY <1>1, <1>2
<1> QED BY <1>2, <1>3 DEF Covers, n, q

\* They are still at the bottom when a construct is opened, unless it takes frames away,
LEMMA PrefixOpens ==
    ASSUME NEW C, NEW s \in Seq(C), NEW o, NEW st, Prefix(s, o, st), NEW c \in C, NEW p,
           c.back = o, Sound(c), Inside(c, p), c.kind \in Kinds, c.pre \in Nat,
           Len(o) \in Nat, Len(p) \in Nat, \A e \in DOMAIN st : Len(st[e]) \in Nat,
           c.pre > 0 => /\ c.env \in DOMAIN st /\ c.pre = Len(st[c.env])
                        /\ Covers(p, st[c.env])
    PROVE  Prefix(Append(s, c), p, st)
<1> DEFINE t == Append(s, c)
           n == Len(s)
<1>1. /\ n \in Nat /\ Len(t) = n + 1 /\ t[n + 1] = c /\ \A k \in 1 .. n : t[k] = s[k]
  BY AppendToSeq
<1>2. \A k \in 1 .. n : s[k].pre > 0 =>
        /\ s[k].env \in DOMAIN st /\ s[k].pre = Len(st[s[k].env])
        /\ \A m \in k .. n :
               (\A l \in k + 1 .. m : ~ Cuts(s[l])) => Covers(Level(s, o, m), st[s[k].env])
  BY DEF Prefix
<1>3. /\ \A m \in 1 .. n : Level(t, p, m) = Level(s, o, m)
      /\ Level(t, p, n + 1) = p /\ Level(s, o, n) = o
  <2>1. \A m \in 1 .. n - 1 : Level(t, p, m) = Level(s, o, m)
    <3> TAKE m \in 1 .. n - 1
    <3>1. m < n /\ m < n + 1 /\ m + 1 \in 1 .. n
      BY <1>1
    <3> HIDE DEF t
    <3> QED BY <1>1, <3>1 DEF Level
  <2>2. Level(t, p, n) = o /\ Level(s, o, n) = o
    <3> HIDE DEF t
    <3> QED BY <1>1 DEF Level
  <2>3. Level(t, p, n + 1) = p
    <3> HIDE DEF t
    <3> QED BY <1>1 DEF Level
  <2> HIDE DEF n, t
  <2>4. \A m \in 1 .. n : m = n \/ m \in 1 .. n - 1
    BY <1>1
  <2> QED BY <2>1, <2>2, <2>3, <2>4
<1> HIDE DEF t, n
<1>4. ASSUME NEW k \in 1 .. n + 1, t[k].pre > 0
      PROVE  /\ t[k].env \in DOMAIN st /\ t[k].pre = Len(st[t[k].env])
             /\ \A m \in k .. n + 1 :
                    (\A l \in k + 1 .. m : ~ Cuts(t[l])) => Covers(Level(t, p, m), st[t[k].env])
  <2>1. CASE k = n + 1
    <3>1. \A m \in k .. n + 1 : m = n + 1
      BY <1>1, <2>1
    <3>2. t[k] = c
      BY <1>1, <2>1
    <3> QED BY <1>3, <1>4, <3>1, <3>2
  <2>2. CASE k \in 1 .. n
    <3>1. /\ t[k] = s[k] /\ s[k].env \in DOMAIN st /\ s[k].pre = Len(st[s[k].env])
      BY <1>1, <1>2, <1>4, <2>2
    <3>2. ASSUME NEW m \in k .. n + 1, \A l \in k + 1 .. m : ~ Cuts(t[l])
          PROVE  Covers(Level(t, p, m), st[s[k].env])
      <4>1. CASE m \in k .. n
        <5>1. \A l \in k + 1 .. m : l \in 1 .. n
          BY <1>1, <2>2, <4>1
        <5>2. \A l \in k + 1 .. m : ~ Cuts(s[l])
          BY <1>1, <3>2, <5>1
        <5>3. m \in 1 .. n
          BY <1>1, <2>2, <4>1
        <5>4. s[k].pre > 0
          BY <1>4, <3>1
        <5> QED BY <1>2, <1>3, <2>2, <4>1, <5>2, <5>3, <5>4
      <4>2. CASE m = n + 1
        <5>1. n \in k .. n /\ n + 1 \in k + 1 .. m /\ \A l \in k + 1 .. n : l \in k + 1 .. m /\ l \in 1 .. n
          BY <1>1, <2>2, <4>2
        <5>2. ~ Cuts(c) /\ \A l \in k + 1 .. n : ~ Cuts(s[l])
          BY <1>1, <3>2, <5>1
        <5>3. s[k].pre > 0
          BY <1>4, <3>1
        <5>4. Covers(o, st[s[k].env])
          BY <1>2, <1>3, <2>2, <5>1, <5>2, <5>3
        <5>5. Len(p) > Len(o) /\ Agree(p, o, Len(o))
          BY <5>2, SoundInside
        <5>6. Agree(p, o, Len(o) - 1) /\ Len(p) >= Len(o)
          BY <5>5 DEF Agree
        <5>7. Covers(p, st[s[k].env])
          BY <3>1, <5>4, <5>6, CoversMore
        <5> QED BY <1>3, <4>2, <5>7
      <4> QED BY <1>1, <4>1, <4>2
    <3> QED BY <3>1, <3>2
  <2> QED BY <1>1, <2>1, <2>2
<1> QED BY <1>1, <1>4 DEF Prefix, t

\* when one ends: they were at the bottom of the frames it found,
LEMMA PrefixCloses ==
    ASSUME NEW C, NEW s \in Seq(C), s # <<>>, NEW o, NEW st, Prefix(s, o, st), NEW p,
           SameBelow(Last(s).back, p), Len(Last(s).back) \in Nat,
           \A e \in DOMAIN st : Len(st[e]) \in Nat
    PROVE  Prefix(Front(s), p, st)
<1> DEFINE t == Front(s)
           n == Len(s)
           b == Last(s).back
<1>1. /\ n \in Nat /\ n >= 1 /\ Len(t) = n - 1 /\ (\A k \in 1 .. n - 1 : t[k] = s[k])
      /\ b = s[n].back
  BY FrontOfSeq, LastOfSeq
<1>2. \A k \in 1 .. n : s[k].pre > 0 =>
        /\ s[k].env \in DOMAIN st /\ s[k].pre = Len(st[s[k].env])
        /\ \A m \in k .. n :
               (\A l \in k + 1 .. m : ~ Cuts(s[l])) => Covers(Level(s, o, m), st[s[k].env])
  BY DEF Prefix
<1>3. Len(p) = Len(b) /\ Len(b) \in Nat /\ Agree(p, b, Len(b) - 1) /\ Len(p) >= Len(b)
  <2> HIDE DEF b
  <2>1. Len(b) \in Nat /\ SameBelow(b, p)
    BY DEF b
  <2> QED BY <2>1 DEF SameBelow
<1> HIDE DEF t, n, b
<1>4. ASSUME NEW k \in 1 .. n - 1, t[k].pre > 0
      PROVE  /\ t[k].env \in DOMAIN st /\ t[k].pre = Len(st[t[k].env])
             /\ \A m \in k .. n - 1 :
                    (\A l \in k + 1 .. m : ~ Cuts(t[l])) => Covers(Level(t, p, m), st[t[k].env])
  <2>1. k \in 1 .. n /\ t[k] = s[k]
    BY <1>1
  <2>2. /\ s[k].env \in DOMAIN st /\ s[k].pre = Len(st[s[k].env])
        /\ \A m \in k .. n :
               (\A l \in k + 1 .. m : ~ Cuts(s[l])) => Covers(Level(s, o, m), st[s[k].env])
    BY <1>2, <1>4, <2>1
  <2>3. ASSUME NEW m \in k .. n - 1, \A l \in k + 1 .. m : ~ Cuts(t[l])
        PROVE  Covers(Level(t, p, m), st[s[k].env])
    <3>1. m \in k .. n /\ m < n /\ \A l \in k + 1 .. m : l \in 1 .. n - 1
      BY <1>1
    <3>2. \A l \in k + 1 .. m : ~ Cuts(s[l])
      BY <1>1, <2>3, <3>1
    <3>3. Covers(s[m + 1].back, st[s[k].env])
      <4>1. Level(s, o, m) = s[m + 1].back
        BY <3>1 DEF Level, n
      <4> QED BY <2>2, <3>1, <3>2, <4>1
    <3>4. CASE m < n - 1
      <4>1. Level(t, p, m) = t[m + 1].back /\ m + 1 \in 1 .. n - 1
        BY <1>1, <3>4 DEF Level
      <4> QED BY <1>1, <3>3, <4>1
    <3>5. CASE m = n - 1
      <4>1. Level(t, p, m) = p /\ m + 1 = n
        BY <1>1, <3>5 DEF Level
      <4>2. Covers(b, st[s[k].env])
        BY <1>1, <3>3, <4>1
      <4>3. Covers(p, st[s[k].env])
        BY <1>3, <2>2, <4>2, CoversMore
      <4> QED BY <4>1, <4>3
    <3> QED BY <1>1, <3>4, <3>5
  <2> QED BY <2>1, <2>2, <2>3
<1> QED BY <1>1, <1>4 DEF Prefix, t

\* and when the innermost frame gets another `$x`: it is above them.
LEMMA PrefixTop ==
    ASSUME NEW C, NEW s \in Seq(C), NEW o, NEW st, Prefix(s, o, st), NEW p, SameBelow(o, p),
           Len(o) \in Nat, \A e \in DOMAIN st : Len(st[e]) \in Nat
    PROVE  Prefix(s, p, st)
<1> DEFINE n == Len(s)
<1>1. n \in Nat /\ Len(p) \in Nat /\ Len(p) >= Len(o) /\ Agree(p, o, Len(o) - 1)
  BY LenProperties DEF SameBelow
<1>2. ASSUME NEW m, NEW v, Len(v) \in Nat, Covers(Level(s, o, m), v)
      PROVE  Covers(Level(s, p, m), v)
  <2>1. CASE m < n
    BY <1>2, <2>1 DEF Level
  <2>2. CASE ~ (m < n)
    <3>1. Covers(o, v) /\ Level(s, p, m) = p
      BY <1>2, <2>2 DEF Level
    <3>2. Covers(p, v)
      BY <1>1, <1>2, <3>1, CoversMore
    <3> QED BY <3>1, <3>2
  <2> QED BY <2>1, <2>2
<1> QED BY <1>2 DEF Prefix

-----------------------------------------------------------------------------
(* The frames and the constructs.                                          *)

MarkOf(f) == [owner |-> f.owner, var |-> f.x.var]
\* What Marks returns, whatever the frames are,
LEMMA MarksAt ==
    ASSUME NEW S, NEW sc \in Seq(S)
    PROVE  /\ Len(Marks(sc)) = Len(sc) /\ Len(sc) \in Nat
           /\ \A i \in 1 .. Len(sc) : Marks(sc)[i] = MarkOf(sc[i])
<1> DEFINE T == {MarkOf(f) : f \in S}
           n == Len(sc)
           m == [i \in 1 .. n |-> MarkOf(sc[i])]
<1>1. n \in Nat /\ DOMAIN sc = 1 .. n /\ \A i \in 1 .. n : sc[i] \in S
  BY LenProperties, ElementOfSeq
<1>2. Marks(sc) = m
  BY <1>1 DEF Marks, MarkOf
<1>3. m \in [1 .. n -> T] /\ \A i \in 1 .. n : m[i] = MarkOf(sc[i])
  BY <1>1
<1> HIDE DEF n, m, T
<1>4. m \in Seq(T) /\ DOMAIN m = 1 .. n
  BY <1>1, <1>3
<1>5. Len(m) \in Nat /\ DOMAIN m = 1 .. Len(m)
  BY <1>4, LenProperties
<1>6. Len(m) = n
  BY <1>1, <1>4, <1>5
<1> QED BY <1>1, <1>2, <1>3, <1>6 DEF n

\* and of which type they are.
LEMMA MarksOf ==
    ASSUME NEW sc \in Seq(Frames), born \in Nat
    PROVE  /\ Marks(sc) \in Seq(Mark) /\ Len(Marks(sc)) = Len(sc) /\ Len(sc) \in Nat
           /\ \A i \in 1 .. Len(sc) : Marks(sc)[i] = MarkOf(sc[i])
<1>1. /\ Len(sc) \in Nat /\ DOMAIN sc = 1 .. Len(sc)
      /\ \A i \in 1 .. Len(sc) : sc[i] \in Frames
  BY LenProperties, ElementOfSeq
<1>2. Marks(sc) = [i \in 1 .. Len(sc) |-> MarkOf(sc[i])]
  BY <1>1 DEF Marks, MarkOf
<1>3. \A i \in 1 .. Len(sc) : MarkOf(sc[i]) \in Mark
  BY <1>1 DEF MarkOf, Mark, Frames, Slots
<1> DEFINE n == Len(sc)
           m == [i \in 1 .. n |-> MarkOf(sc[i])]
<1>4. m \in [1 .. n -> Mark]
  BY <1>3
<1>5. m \in Seq(Mark) /\ Len(m) = n
  <2>1. n \in Nat
    BY <1>1
  <2> HIDE DEF n, m
  <2>2. m \in Seq(Mark) /\ DOMAIN m = 1 .. n
    BY <1>4, <2>1
  <2>3. Len(m) \in Nat /\ DOMAIN m = 1 .. Len(m)
    BY <2>2
  <2> QED BY <2>1, <2>2, <2>3
<1> QED BY <1>1, <1>2, <1>5

\* Frames with given marks.
LEMMA SameMarks ==
    ASSUME NEW sc \in Seq(Frames), NEW b \in Seq(Mark), born \in Nat, Len(sc) = Len(b),
           \A i \in 1 .. Len(b) : MarkOf(sc[i]) = b[i]
    PROVE  Marks(sc) = b
<1>1. /\ Marks(sc) \in Seq(Mark) /\ Len(Marks(sc)) = Len(sc)
      /\ \A i \in 1 .. Len(sc) : Marks(sc)[i] = MarkOf(sc[i])
  BY MarksOf
<1> QED BY <1>1, SeqEqual

\* What is known of the frames,
LEMMA ScopesFacts ==
    ASSUME TypeOK
    PROVE  /\ scopes \in Seq(Frames) /\ scopes # <<>> /\ Len(scopes) \in Nat /\ Len(scopes) >= 1
           /\ DOMAIN scopes = 1 .. Len(scopes)
           /\ \A i \in 1 .. Len(scopes) : scopes[i] \in Frames
           /\ Last(scopes) = scopes[Len(scopes)] /\ Last(scopes) \in Frames
           /\ Front(scopes) \in Seq(Frames) /\ Len(Front(scopes)) = Len(scopes) - 1
           /\ \A i \in 1 .. Len(scopes) - 1 : Front(scopes)[i] = scopes[i]
           /\ born \in Nat /\ celled \in Nat
           /\ Marks(scopes) \in Seq(Mark) /\ Len(Marks(scopes)) = Len(scopes)
           /\ \A i \in 1 .. Len(scopes) : Marks(scopes)[i] = MarkOf(scopes[i])
<1>1. scopes \in Seq(Frames) /\ scopes # <<>> /\ born \in Nat /\ celled \in Nat
  BY DEF TypeOK
<1>2. /\ Len(scopes) \in Nat /\ Len(scopes) >= 1 /\ Last(scopes) = scopes[Len(scopes)]
      /\ DOMAIN scopes = 1 .. Len(scopes)
      /\ \A i \in 1 .. Len(scopes) : scopes[i] \in Frames
  BY <1>1, LastOfSeq, LenProperties, ElementOfSeq
<1>3. /\ Front(scopes) \in Seq(Frames) /\ Len(Front(scopes)) = Len(scopes) - 1
      /\ \A i \in 1 .. Len(scopes) - 1 : Front(scopes)[i] = scopes[i]
  BY <1>1, FrontOfSeq
<1>4. /\ Marks(scopes) \in Seq(Mark) /\ Len(Marks(scopes)) = Len(scopes)
      /\ \A i \in 1 .. Len(scopes) : Marks(scopes)[i] = MarkOf(scopes[i])
  BY <1>1, MarksOf
<1>5. Last(scopes) \in Frames
  BY <1>2
<1> QED BY <1>1, <1>2, <1>3, <1>4, <1>5

\* of a construct,
LEMMA ConstructFacts ==
    ASSUME NEW c \in Constructs
    PROVE  /\ c.back \in Seq(Mark) /\ Len(c.back) \in Nat
           /\ c.stash \in Seq(Frames) /\ Len(c.stash) \in Nat /\ c.pre \in Nat
           /\ c.env \in Envs /\ c.before \in Envs /\ c.kind \in Kinds
           /\ c.saved \in Slots /\ c.i \in Nat /\ c.n \in 0 .. MaxItems + 1
<1>1. /\ c.back \in Seq(Mark) /\ c.stash \in Seq(Frames) /\ c.pre \in Nat
      /\ c.env \in Envs /\ c.before \in Envs /\ c.kind \in Kinds
      /\ c.saved \in Slots /\ c.i \in Nat /\ c.n \in 0 .. MaxItems + 1
  BY DEF Constructs
<1> QED BY <1>1, LenProperties

\* and of the innermost one.
LEMMA TopFacts ==
    ASSUME TypeOK, BackInv, open # <<>>
    PROVE  /\ Depth \in Nat /\ Depth >= 1 /\ Top = open[Depth] /\ Top \in Constructs
           /\ Len(Top.back) >= 1 /\ Inside(Top, Marks(scopes))
           /\ Front(open) \in Seq(Constructs) /\ Len(Front(open)) = Depth - 1
           /\ Chain(Front(open), Top.back)
<1>1. open \in Seq(Constructs)
  BY DEF TypeOK
<1>2. Depth \in Nat /\ Depth >= 1 /\ Top = open[Depth] /\ Top \in Constructs /\ Depth \in 1 .. Depth
  BY <1>1, LastOfSeq DEF Top, Depth
<1>3. Front(open) \in Seq(Constructs) /\ Len(Front(open)) = Depth - 1
  BY <1>1, FrontOfSeq DEF Depth
<1>4. Chain(Front(open), Top.back)
  BY <1>1, ChainCloses DEF BackInv, Top
<1>5. Len(Top.back) >= 1 /\ Inside(Top, Marks(scopes))
  <2>1. ~ (Depth < Depth)
    BY <1>2
  <2> QED BY <1>2, <2>1 DEF BackInv, Chain, Depth
<1> QED BY <1>2, <1>3, <1>4, <1>5

-----------------------------------------------------------------------------
(* The ends of constructs.                                                 *)

\* The marks of the frames without the innermost one, or two.
LEMMA FrontMarks ==
    ASSUME NEW sc \in Seq(Frames), sc # <<>>, NEW b \in Seq(Mark), born \in Nat,
           Len(Marks(sc)) = Len(b) + 1, Agree(Marks(sc), b, Len(b))
    PROVE  Front(sc) \in Seq(Frames) /\ Marks(Front(sc)) = b
<1>1. /\ Front(sc) \in Seq(Frames) /\ Len(Front(sc)) = Len(sc) - 1
      /\ \A i \in 1 .. Len(sc) - 1 : Front(sc)[i] = sc[i]
  BY FrontOfSeq
<1>2. /\ Len(Marks(sc)) = Len(sc) /\ Len(sc) \in Nat
      /\ \A i \in 1 .. Len(sc) : Marks(sc)[i] = MarkOf(sc[i])
  BY MarksOf
<1>3. Len(b) \in Nat /\ Len(sc) - 1 = Len(b)
  BY <1>2, LenProperties
<1> DEFINE n == Len(b)
           t == Front(sc)
           m == Marks(sc)
<1>4. \A i \in 1 .. n : m[i] = b[i] /\ i \in 1 .. Len(sc) /\ i \in 1 .. Len(sc) - 1
  BY <1>2, <1>3 DEF Agree
<1>5. \A i \in 1 .. n : MarkOf(t[i]) = b[i]
  BY <1>1, <1>2, <1>4
<1>6. Len(t) = n
  BY <1>1, <1>3
<1> QED BY <1>1, <1>5, <1>6, SameMarks

\* The same below a loop's body, which has a frame more.
LEMMA FrontFrontMarks ==
    ASSUME NEW sc \in Seq(Frames), sc # <<>>, NEW b \in Seq(Mark), b # <<>>, born \in Nat,
           Len(Marks(sc)) = Len(b) + 2, Agree(Marks(sc), b, Len(b))
    PROVE  Front(Front(sc)) \in Seq(Frames) /\ Marks(Front(Front(sc))) = b
<1> DEFINE t == Front(sc)
           n == Len(sc)
<1>1. /\ t \in Seq(Frames) /\ Len(t) = n - 1
      /\ \A i \in 1 .. n - 1 : t[i] = sc[i]
  BY FrontOfSeq
<1>2. /\ Len(Marks(sc)) = n /\ n \in Nat
      /\ \A i \in 1 .. n : Marks(sc)[i] = MarkOf(sc[i])
  BY MarksOf
<1>3. Len(b) \in Nat /\ n = Len(b) + 2 /\ \A i \in 1 .. Len(b) : Marks(sc)[i] = b[i]
  BY <1>2, LenProperties DEF Agree
<1> HIDE DEF t, n
<1>4. /\ Len(Marks(t)) = Len(t) /\ Len(t) \in Nat
      /\ \A i \in 1 .. Len(t) : Marks(t)[i] = MarkOf(t[i])
  BY <1>1, MarksOf
<1>5. Len(Marks(t)) = Len(b) + 1 /\ t # <<>>
  BY <1>1, <1>2, <1>3, <1>4, EmptySeq
<1>6. \A i \in 1 .. Len(b) : Marks(t)[i] = b[i]
  BY <1>1, <1>2, <1>3, <1>4
<1>7. Agree(Marks(t), b, Len(b))
  BY <1>6 DEF Agree
<1>8. Front(t) \in Seq(Frames) /\ Marks(Front(t)) = b
  BY <1>1, <1>5, <1>7, FrontMarks
<1> QED BY <1>8 DEF t

\* A frame with another `$x`.
LEMMA FrameWith ==
    ASSUME NEW f \in Frames, NEW x \in Slots
    PROVE  /\ [f EXCEPT !.x = x] \in Frames
           /\ MarkOf([f EXCEPT !.x = x]) = [owner |-> f.owner, var |-> x.var]
           /\ MarkOf(f) \in Mark
           /\ [MarkOf(f) EXCEPT !.var = x.var] = [owner |-> f.owner, var |-> x.var]
           /\ [owner |-> f.owner, var |-> x.var] \in Mark
BY DEF Frames, Slots, MarkOf, Mark

\* An abandoned loop marks the innermost frame that remains with its saved variable.
LEMMA RestoredMarks ==
    ASSUME NEW sc \in Seq(Frames), sc # <<>>, born \in Nat, celled \in Nat, Top.saved \in Slots
    PROVE  /\ RestoreIn(sc) \in Seq(Frames) /\ RestoreIn(sc) # <<>>
           /\ Marks(RestoreIn(sc)) = [Marks(sc) EXCEPT ![Len(Marks(sc))].var = Top.saved.var]
<1> DEFINE n == Len(sc)
           x == [var |-> Top.saved.var, cell |-> 0]
           f == [sc[n] EXCEPT !.x = x]
           t == [sc EXCEPT ![n] = f]
           m == Marks(sc)
           u == [m[n] EXCEPT !.var = Top.saved.var]
<1>1. /\ n \in Nat /\ n >= 1 /\ n \in 1 .. n /\ sc[n] \in Frames
  BY LastOfSeq
<1>0. x \in Slots /\ x.var = Top.saved.var
  BY DEF Slots, Unbound
<1>2. f \in Frames /\ MarkOf(f) = [owner |-> sc[n].owner, var |-> Top.saved.var]
  <2> HIDE DEF x
  <2> QED BY <1>0, <1>1, FrameWith, ZenonT(60)
<1>3. /\ m \in Seq(Mark) /\ Len(m) = n
      /\ \A i \in 1 .. n : m[i] = MarkOf(sc[i])
  BY MarksOf
<1>4. u \in Mark /\ u = MarkOf(f)
  <2>1. m[n] = MarkOf(sc[n])
    BY <1>1, <1>3
  <2>2. u = [MarkOf(sc[n]) EXCEPT !.var = x.var]
    BY <1>0, <2>1
  <2> HIDE DEF x, u
  <2> QED BY <1>0, <1>1, <1>2, <2>2, FrameWith
<1>5. RestoreIn(sc) = t /\ [m EXCEPT ![n].var = Top.saved.var] = [m EXCEPT ![n] = u]
  BY <1>1, <1>3 DEF RestoreIn
<1> DEFINE v == [m EXCEPT ![n] = u]
<1> HIDE DEF u, f, x, m
<1>6. /\ t \in Seq(Frames) /\ Len(t) = n /\ \A i \in 1 .. n : t[i] = IF i = n THEN f ELSE sc[i]
  BY <1>1, <1>2, ExceptSeq
<1>7. /\ v \in Seq(Mark) /\ Len(v) = n /\ \A i \in 1 .. n : v[i] = IF i = n THEN u ELSE m[i]
  BY <1>1, <1>3, <1>4, ExceptSeq
<1> HIDE DEF t, v, n
<1>8. \A i \in 1 .. n : MarkOf(t[i]) = v[i]
  BY <1>3, <1>4, <1>6, <1>7
<1>9. Marks(t) = v /\ t # <<>>
  BY <1>1, <1>6, <1>7, <1>8, SameMarks, EmptySeq
<1> QED BY <1>3, <1>5, <1>6, <1>9 DEF t, v, m, n

\* A construct is closed and its end leaves what it must.
Closed == /\ open # <<>> /\ open' = Front(open)
          /\ scopes' \in Seq(Frames) /\ scopes' # <<>> /\ Marks(scopes') = Around

\* A block, an eval, a file loaded and a loop that is over take one frame away.
LEMMA BlockCloses ==
    ASSUME TypeOK, BackInv, open # <<>>, open' = Front(open), scopes' = Front(scopes),
           \/ Top.kind \in {"block", "eval", "load"}
           \/ Top.kind = "for" /\ Top.at = "head" /\ flow = "none" /\ Top.i > Top.n
    PROVE  Closed
<1> DEFINE b == Top.back
<1>1. b \in Seq(Mark) /\ Len(b) \in Nat /\ Len(b) >= 1 /\ Inside(Top, Marks(scopes))
      /\ Top.i \in Nat /\ Top.n \in Nat
  BY TopFacts, ConstructFacts
<1>2. Len(Marks(scopes)) = Len(b) + 1 /\ Agree(Marks(scopes), b, Len(b))
  BY <1>1 DEF Inside
<1>3. scopes \in Seq(Frames) /\ scopes # <<>> /\ born \in Nat
  BY ScopesFacts
<1>4. scopes' \in Seq(Frames) /\ Marks(scopes') = b
  BY <1>1, <1>2, <1>3, FrontMarks
<1>5. Len(scopes') = Len(b) /\ scopes' # <<>>
  BY <1>1, <1>3, <1>4, MarksOf, EmptySeq
<1>6. ~ Abandons
  BY <1>1 DEF Abandons
<1> QED BY <1>4, <1>5, <1>6 DEF Closed, Around

\* An abandoned loop takes its frames away and restores its variable.
LEMMA LoopCloses ==
    ASSUME TypeOK, BackInv, open # <<>>, open' = Front(open), Top.kind = "for", Abandons,
           \/ Top.at \in {"head", "continue"} /\ scopes' = RestoreIn(Front(scopes))
           \/ Top.at = "body" /\ scopes' = RestoreIn(Front(Front(scopes)))
    PROVE  Closed
<1> DEFINE b == Top.back
<1>1. /\ b \in Seq(Mark) /\ Len(b) \in Nat /\ Len(b) >= 1 /\ Inside(Top, Marks(scopes))
      /\ Top.saved \in Slots /\ b # <<>>
  BY TopFacts, ConstructFacts, EmptySeq
<1>2. scopes \in Seq(Frames) /\ scopes # <<>> /\ born \in Nat /\ celled \in Nat
  BY ScopesFacts
<1>3. PICK sc \in Seq(Frames) : Marks(sc) = b /\ scopes' = RestoreIn(sc)
  <2>1. CASE Top.at \in {"head", "continue"} /\ scopes' = RestoreIn(Front(scopes))
    <3>1. Len(Marks(scopes)) = Len(b) + 1 /\ Agree(Marks(scopes), b, Len(b))
      BY <1>1, <2>1 DEF Inside
    <3> QED BY <1>1, <1>2, <2>1, <3>1, FrontMarks
  <2>2. CASE Top.at = "body" /\ scopes' = RestoreIn(Front(Front(scopes)))
    <3>1. Len(Marks(scopes)) = Len(b) + 2 /\ Agree(Marks(scopes), b, Len(b))
      BY <1>1, <2>2 DEF Inside
    <3> QED BY <1>1, <1>2, <2>2, <3>1, FrontFrontMarks
  <2> QED BY <2>1, <2>2
<1>4. sc # <<>>
  BY <1>1, <1>2, <1>3, MarksOf, EmptySeq
<1>5. /\ scopes' \in Seq(Frames) /\ scopes' # <<>>
      /\ Marks(scopes') = [b EXCEPT ![Len(b)].var = Top.saved.var]
  BY <1>1, <1>2, <1>3, <1>4, RestoredMarks
<1> QED BY <1>5 DEF Closed, Around

\* The frames that a sub leaves: those above its environment, or those it has hidden.
LEMMA ReturnedFrames ==
    ASSUME TypeOK, BackInv, open # <<>>, Top.kind \in SubKinds
    PROVE  LET w == Top.stash
               q == Top.pre
               own == IF Top.file THEN 2 ELSE 1
               n == Len(scopes)
               r == ReturnFrames(Top, scopes)
           IN /\ r \in Seq(Frames) /\ q \in Nat /\ Len(r) \in Nat /\ Len(r) = Len(Top.back)
              /\ w = <<>> => n = q + Len(r) + own /\ \A i \in 1 .. Len(r) : r[i] = scopes[q + i]
              /\ w # <<>> => /\ n = q + own /\ Len(r) = Len(w)
                             /\ \A i \in 1 .. Len(r) : r[i] = w[i]
<1> DEFINE b == Top.back
           w == Top.stash
           q == Top.pre
           l == LessFile(Top, Front(scopes))
           n == Len(scopes)
           own == IF Top.file THEN 2 ELSE 1
           m == Marks(scopes)
           r == ReturnFrames(Top, scopes)
<1>1. /\ b \in Seq(Mark) /\ Len(b) \in Nat /\ Len(b) >= 1 /\ Inside(Top, m)
      /\ w \in Seq(Frames) /\ Len(w) \in Nat /\ q \in Nat
  BY TopFacts, ConstructFacts
<1>2. /\ scopes \in Seq(Frames) /\ scopes # <<>> /\ born \in Nat /\ n \in Nat /\ Len(m) = n
  BY ScopesFacts
<1>3. /\ w = <<>> => n = q + Len(b) + own
      /\ w # <<>> => n = q + own /\ Marks(w) = b
  BY <1>1, <1>2 DEF Inside
<1>4. n > own - 1 /\ own \in {1, 2}
  BY <1>1, <1>2, <1>3, EmptySeq, SMTT(30)
<1>5. l \in Seq(Frames) /\ Len(l) = n - own /\ \A i \in 1 .. n - own : l[i] = scopes[i]
  <2> DEFINE a == Front(scopes)
  <2>1. a \in Seq(Frames) /\ Len(a) = n - 1 /\ \A i \in 1 .. n - 1 : a[i] = scopes[i]
    BY ScopesFacts
  <2>2. CASE Top.file
    <3> HIDE DEF a
    <3>1. n - 1 >= 1 /\ own = 2
      BY <1>1, <1>2, <1>3, <2>2, EmptySeq
    <3>2. a # <<>>
      BY <1>2, <2>1, <3>1, EmptySeq
    <3>3. /\ Front(a) \in Seq(Frames) /\ Len(Front(a)) = Len(a) - 1
          /\ \A i \in 1 .. Len(a) - 1 : Front(a)[i] = a[i]
      BY <2>1, <3>2, FrontOfSeq
    <3>4. l = Front(a)
      BY <2>2 DEF LessFile, a
    <3> QED BY <1>2, <2>1, <3>1, <3>3, <3>4
  <2>3. CASE ~ Top.file
    BY <2>1, <2>3 DEF LessFile
  <2> QED BY <2>2, <2>3
<1> DEFINE all == l \o w
<1>6. /\ all \in Seq(Frames) /\ Len(all) = Len(l) + Len(w)
      /\ \A i \in 1 .. Len(l) + Len(w) : all[i] = IF i <= Len(l) THEN l[i] ELSE w[i - Len(l)]
  BY <1>1, <1>5, ConcatProperties, ZenonT(60)
<1>7. r = SubSeq(all, q + 1, Len(all))
  BY DEF ReturnFrames
<1>8. w # <<>> => Len(w) = Len(b)
  BY <1>1, <1>2, <1>3, MarksOf
<1> HIDE DEF b, w, q, l, n, own, all, m, r
<1>9. q <= Len(all) /\ Len(all) - q = Len(b) /\ Len(l) \in Nat /\ Len(l) = n - own
  <2>1. Len(l) \in Nat /\ Len(l) = n - own
    BY <1>2, <1>4, <1>5
  <2>2. Len(w) \in Nat /\ q \in Nat /\ Len(b) \in Nat /\ own \in {1, 2} /\ n \in Nat
        /\ Len(all) = Len(l) + Len(w)
    BY <1>1, <1>2, <1>4, <1>6
  <2>3. \/ Len(w) = 0 /\ n = q + Len(b) + own
        \/ Len(w) = Len(b) /\ n = q + own
    BY <1>3, <1>8, EmptySeq
  <2> QED BY <2>1, <2>2, <2>3
<1>10. /\ r \in Seq(Frames) /\ Len(r) = Len(b) /\ \A i \in 1 .. Len(b) : r[i] = all[q + i]
  <2>1. /\ SubSeq(all, q + 1, Len(all)) \in Seq(Frames)
        /\ Len(SubSeq(all, q + 1, Len(all))) = Len(all) - q
        /\ \A i \in 1 .. Len(all) - q : SubSeq(all, q + 1, Len(all))[i] = all[q + i]
    BY <1>1, <1>6, <1>9, RestOfSeq
  <2> QED BY <1>7, <1>9, <2>1
<1>11. CASE w = <<>>
  <2>1. Len(w) = 0 /\ n = q + Len(b) + own
    BY <1>3, <1>11, EmptySeq
  <2>2. ASSUME NEW i \in 1 .. Len(b) PROVE r[i] = scopes[q + i]
    <3>1. q + i \in 1 .. Len(l) + Len(w) /\ q + i <= Len(l) /\ q + i \in 1 .. n - own
      BY <1>1, <1>2, <1>4, <1>9, <2>1
    <3> QED BY <1>5, <1>6, <1>10, <3>1
  <2>3. /\ r \in Seq(Frames) /\ q \in Nat /\ Len(r) \in Nat /\ Len(r) = Len(b) /\ n = q + Len(r) + own
        /\ \A i \in 1 .. Len(r) : r[i] = scopes[q + i]
    BY <1>1, <1>10, <2>1, <2>2
  <2> QED BY <1>11, <2>3 DEF b, w, q, n, own, r
<1>12. CASE w # <<>>
  <2>1. Len(w) = Len(b) /\ n = q + own
    BY <1>3, <1>8, <1>12
  <2>2. ASSUME NEW i \in 1 .. Len(b) PROVE r[i] = w[i]
    <3>1. q + i \in 1 .. Len(l) + Len(w) /\ ~ (q + i <= Len(l)) /\ (q + i) - Len(l) = i
      BY <1>1, <1>2, <1>4, <1>9, <2>1
    <3> QED BY <1>6, <1>10, <3>1
  <2>3. /\ r \in Seq(Frames) /\ q \in Nat /\ Len(r) \in Nat /\ Len(r) = Len(b) /\ n = q + own
        /\ Len(r) = Len(w) /\ \A i \in 1 .. Len(r) : r[i] = w[i]
    BY <1>1, <1>10, <2>1, <2>2
  <2> QED BY <1>12, <2>3 DEF b, w, q, n, own, r
<1> QED BY <1>11, <1>12

\* A sub takes away its frame, its file's scope and its environment, and puts back what
\* it has hidden.
LEMMA SubCloses ==
    ASSUME TypeOK, BackInv, open # <<>>, open' = Front(open), Top.kind \in SubKinds,
           scopes' = ReturnFrames(Top, scopes)
    PROVE  Closed
<1> DEFINE b == Top.back
           w == Top.stash
           q == Top.pre
           n == Len(scopes)
           own == IF Top.file THEN 2 ELSE 1
           m == Marks(scopes)
           r == ReturnFrames(Top, scopes)
<1>1. /\ b \in Seq(Mark) /\ Len(b) \in Nat /\ Len(b) >= 1 /\ Inside(Top, m)
      /\ w \in Seq(Frames) /\ born \in Nat
  BY TopFacts, ConstructFacts, ScopesFacts
<1>2. Len(m) = n /\ n \in Nat /\ \A i \in 1 .. n : m[i] = MarkOf(scopes[i])
  BY ScopesFacts
<1>3. /\ w = <<>> => \A i \in 1 .. Len(b) : m[q + i] = b[i]
      /\ w # <<>> => Marks(w) = b
  BY <1>1, <1>2 DEF Inside
<1>4. /\ r \in Seq(Frames) /\ q \in Nat /\ Len(r) \in Nat /\ Len(r) = Len(b)
      /\ w = <<>> => n = q + Len(r) + own /\ \A i \in 1 .. Len(r) : r[i] = scopes[q + i]
      /\ w # <<>> => Len(r) = Len(w) /\ \A i \in 1 .. Len(r) : r[i] = w[i]
  BY ReturnedFrames
<1>5. own \in {1, 2}
  OBVIOUS
<1>6. \A i \in 1 .. Len(w) : Marks(w)[i] = MarkOf(w[i])
  BY <1>1, MarksOf
<1> HIDE DEF b, w, q, n, own, m, r
<1>7. ASSUME NEW i \in 1 .. Len(b) PROVE MarkOf(r[i]) = b[i]
  <2>1. CASE w = <<>>
    <3>1. q + i \in 1 .. n
      BY <1>2, <1>4, <1>5, <2>1
    <3> QED BY <1>2, <1>3, <1>4, <2>1, <3>1
  <2>2. CASE w # <<>>
    BY <1>3, <1>4, <1>6, <2>2
  <2> QED BY <2>1, <2>2
<1>8. Marks(r) = b
  BY <1>1, <1>4, <1>7, SameMarks
<1>9. r # <<>>
  BY <1>1, <1>4, EmptySeq
<1>10. ~ Abandons
  BY DEF Abandons, SubKinds
<1> QED BY <1>4, <1>8, <1>9, <1>10 DEF Closed, Around, b, r

\* The frames that eval STRING leaves: the first, those it has hidden, and the others.
LEMMA StringFrames ==
    ASSUME TypeOK, BackInv, open # <<>>, Top.kind = "string"
    PROVE  LET w == Top.stash
               d == Len(w)
               n == Len(scopes)
               nb == Len(Top.back)
               r == <<Head(scopes)>> \o w \o SubSeq(Front(scopes), 2, Len(scopes) - 1)
           IN /\ r \in Seq(Frames) /\ Len(r) = nb
              /\ nb \in Nat /\ d \in Nat /\ d < nb /\ n \in Nat /\ n = nb - d + 1
              /\ r[1] = scopes[1]
              /\ \A i \in 1 .. d : r[1 + i] = w[i]
              /\ \A i \in 2 .. nb - d : r[i + d] = scopes[i]
<1> DEFINE b == Top.back
           w == Top.stash
           n == Len(scopes)
           d == Len(w)
           m == Marks(scopes)
           a == Front(scopes)
<1>1. /\ b \in Seq(Mark) /\ Len(b) \in Nat /\ Len(b) >= 1 /\ Inside(Top, m)
      /\ w \in Seq(Frames) /\ d \in Nat
  BY TopFacts, ConstructFacts
<1>2. /\ scopes \in Seq(Frames) /\ scopes # <<>> /\ born \in Nat /\ n \in Nat
      /\ Len(m) = n /\ (\A i \in 1 .. n : m[i] = MarkOf(scopes[i]))
      /\ a \in Seq(Frames) /\ Len(a) = n - 1 /\ (\A i \in 1 .. n - 1 : a[i] = scopes[i])
      /\ Head(scopes) = scopes[1] /\ Head(scopes) \in Frames
  <2>1. Head(scopes) = scopes[1]
    OBVIOUS
  <2>2. 1 \in 1 .. n
    BY ScopesFacts
  <2> QED BY ScopesFacts, <2>1, <2>2
<1>3. /\ d < Len(b) /\ n = Len(b) - d + 1 /\ m[1] = b[1]
      /\ \A i \in 1 .. d : Marks(w)[i] = b[i + 1]
      /\ \A i \in 2 .. Len(b) - d : m[i] = b[i + d]
  BY <1>1, <1>2 DEF Inside
<1>4. \A i \in 1 .. d : MarkOf(w[i]) = b[i + 1]
  BY <1>1, <1>2, <1>3, MarksOf
<1> DEFINE t == SubSeq(a, 2, n - 1)
           h == <<Head(scopes)>>
<1>5. /\ t \in Seq(Frames) /\ Len(t) = n - 2
      /\ \A i \in 1 .. n - 2 : t[i] = scopes[i + 1]
  <2>1. n >= 2 /\ 1 <= Len(a) /\ Len(a) = n - 1
    BY <1>1, <1>2, <1>3
  <2> HIDE DEF a, n
  <2>2. /\ SubSeq(a, 1 + 1, Len(a)) \in Seq(Frames)
        /\ Len(SubSeq(a, 1 + 1, Len(a))) = Len(a) - 1
        /\ \A i \in 1 .. Len(a) - 1 : SubSeq(a, 1 + 1, Len(a))[i] = a[1 + i]
    BY <1>2, <2>1, RestOfSeq
  <2>3. t = SubSeq(a, 1 + 1, Len(a)) /\ Len(a) - 1 = n - 2
    BY <1>2, <2>1
  <2> HIDE DEF t
  <2>4. \A i \in 1 .. n - 2 : 1 + i \in 1 .. n - 1 /\ 1 + i = i + 1
    BY <1>2
  <2> QED BY <1>2, <2>2, <2>3, <2>4
<1>6. h \in Seq(Frames) /\ Len(h) = 1 /\ h[1] = scopes[1]
  BY <1>2
<1> DEFINE u == h \o w
           nb == Len(b)
           nw == Len(w)
           nu == Len(u)
           nt == Len(t)
<1>7. /\ u \in Seq(Frames) /\ nu = 1 + d
      /\ u[1] = scopes[1] /\ \A i \in 1 .. d : u[1 + i] = w[i]
  <2>0. h \in Seq(Frames) /\ w \in Seq(Frames)
    BY <1>1, <1>6
  <2> HIDE DEF h, w
  <2>1. /\ u \in Seq(Frames) /\ Len(u) = Len(h) + Len(w)
        /\ \A i \in 1 .. Len(h) + Len(w) : u[i] = IF i <= Len(h) THEN h[i] ELSE w[i - Len(h)]
    BY <2>0, ConcatProperties
  <2> HIDE DEF u, d
  <2>2. d = Len(w) /\ d \in Nat
    BY <1>1 DEF d
  <2>3. u[1] = scopes[1]
    <3>1. 1 \in 1 .. Len(h) + Len(w)
      BY <1>6, <2>2
    <3> QED BY <1>6, <2>1, <3>1
  <2>4. ASSUME NEW i \in 1 .. d PROVE u[1 + i] = w[i]
    <3>1. 1 + i \in 1 .. Len(h) + Len(w) /\ ~ (1 + i <= Len(h)) /\ (1 + i) - Len(h) = i
      BY <1>6, <2>2
    <3> QED BY <2>1, <3>1
  <2>5. Len(u) = 1 + d
    BY <1>6, <2>1, <2>2
  <2> QED BY <2>1, <2>3, <2>4, <2>5
<1> DEFINE r == u \o t
<1>8. /\ r \in Seq(Frames) /\ Len(r) = nu + nt
      /\ \A i \in 1 .. nu + nt : r[i] = IF i <= nu THEN u[i] ELSE t[i - nu]
  <2>1. r = u \o t
    OBVIOUS
  <2>2. u \in Seq(Frames) /\ t \in Seq(Frames)
    BY <1>5, <1>7
  <2> HIDE DEF u, t, r
  <2>3. /\ r \in Seq(Frames) /\ Len(r) = Len(u) + Len(t)
        /\ \A i \in 1 .. Len(u) + Len(t) : r[i] = IF i <= Len(u) THEN u[i] ELSE t[i - Len(u)]
    BY <2>1, <2>2, ConcatProperties
  <2> QED BY <2>3
<1>9. nt = n - 2 /\ nb \in Nat /\ d \in Nat /\ n \in Nat
  BY <1>1, <1>2, <1>5
<1> HIDE DEF u, t, h, a, w, b, n, m, d, r, nb, nw, nu, nt
<1>10. Len(r) = nb /\ n >= 2 /\ d < nb /\ n = nb - d + 1 /\ nu = 1 + d
  BY <1>3, <1>7, <1>8, <1>9 DEF nb
<1>11. \A i \in 1 .. d : r[1 + i] = w[i]
  <2> TAKE i \in 1 .. d
  <2>1. 1 + i \in 1 .. nu + nt /\ 1 + i <= nu
    BY <1>9, <1>10
  <2> QED BY <1>7, <1>8, <2>1
<1>12. \A i \in 2 .. nb - d : r[i + d] = scopes[i]
  <2> TAKE i \in 2 .. nb - d
  <2> DEFINE j == (i + d) - nu
  <2>1. i + d \in 1 .. nu + nt /\ ~ (i + d <= nu) /\ j \in 1 .. n - 2 /\ j + 1 = i
    BY <1>9, <1>10
  <2> HIDE DEF j
  <2>2. r[i + d] = t[j]
    BY <1>8, <2>1 DEF j
  <2> QED BY <1>5, <2>1, <2>2
<1>13. r[1] = scopes[1]
  <2>1. 1 \in 1 .. nu + nt /\ 1 <= nu
    BY <1>9, <1>10
  <2> QED BY <1>7, <1>8, <2>1
<1>14. r = <<Head(scopes)>> \o w \o SubSeq(Front(scopes), 2, Len(scopes) - 1)
  BY DEF r, u, h, t, a, n
<1>15. /\ r \in Seq(Frames) /\ Len(r) = nb
       /\ nb \in Nat /\ d \in Nat /\ d < nb /\ n \in Nat /\ n = nb - d + 1
       /\ r[1] = scopes[1]
       /\ (\A i \in 1 .. d : r[1 + i] = w[i])
       /\ (\A i \in 2 .. nb - d : r[i + d] = scopes[i])
  BY <1>8, <1>9, <1>10, <1>11, <1>12, <1>13
<1> DEFINE rr == <<Head(scopes)>> \o w \o SubSeq(Front(scopes), 2, Len(scopes) - 1)
<1> HIDE DEF rr
<1>16. r = rr
  BY <1>14 DEF rr
<1>17. /\ rr \in Seq(Frames) /\ Len(rr) = nb
       /\ nb \in Nat /\ d \in Nat /\ d < nb /\ n \in Nat /\ n = nb - d + 1
       /\ rr[1] = scopes[1]
       /\ (\A i \in 1 .. d : rr[1 + i] = w[i])
       /\ (\A i \in 2 .. nb - d : rr[i + d] = scopes[i])
  BY <1>15, <1>16
<1> QED BY <1>17 DEF rr, w, d, n, nb, b

\* eval STRING takes its frame away and puts back what it has hidden below the first.
LEMMA StringCloses ==
    ASSUME TypeOK, BackInv, open # <<>>, open' = Front(open), Top.kind = "string",
           scopes' = <<Head(scopes)>> \o Top.stash \o SubSeq(Front(scopes), 2, Len(scopes) - 1)
    PROVE  Closed
<1> DEFINE b == Top.back
           w == Top.stash
           n == Len(scopes)
           d == Len(w)
           nb == Len(b)
           m == Marks(scopes)
           r == scopes'
<1>1. /\ b \in Seq(Mark) /\ nb \in Nat /\ nb >= 1 /\ Inside(Top, m)
      /\ w \in Seq(Frames) /\ born \in Nat
  BY TopFacts, ConstructFacts, ScopesFacts
<1>2. n \in Nat /\ n >= 1 /\ Len(m) = n /\ (\A i \in 1 .. n : m[i] = MarkOf(scopes[i]))
  BY ScopesFacts
<1>3. /\ m[1] = b[1]
      /\ \A i \in 1 .. d : Marks(w)[i] = b[i + 1]
      /\ \A i \in 2 .. nb - d : m[i] = b[i + d]
  BY <1>1 DEF Inside
<1>4. \A i \in 1 .. d : MarkOf(w[i]) = b[i + 1]
  BY <1>1, <1>3, MarksOf
<1>5. /\ r \in Seq(Frames) /\ Len(r) = nb
      /\ d \in Nat /\ d < nb /\ n = nb - d + 1
      /\ r[1] = scopes[1]
      /\ (\A i \in 1 .. d : r[1 + i] = w[i])
      /\ (\A i \in 2 .. nb - d : r[i + d] = scopes[i])
  BY StringFrames
<1> HIDE DEF b, w, n, d, nb, m, r
<1>6. ASSUME NEW i \in 1 .. nb PROVE MarkOf(r[i]) = b[i]
  <2>2. CASE i = 1
    BY <1>2, <1>3, <1>5, <2>2
  <2>3. CASE i > 1 /\ i <= 1 + d
    <3> DEFINE j == i - 1
    <3>1. j \in 1 .. d /\ 1 + j = i /\ j + 1 = i
      BY <1>1, <1>5, <2>3
    <3> HIDE DEF j
    <3> QED BY <1>4, <1>5, <3>1
  <2>4. CASE i > 1 + d
    <3> DEFINE k == i - d
    <3>1. k \in 2 .. nb - d /\ k + d = i /\ k \in 1 .. n
      BY <1>1, <1>5, <2>4
    <3> HIDE DEF k
    <3> QED BY <1>2, <1>3, <1>5, <3>1
  <2> QED BY <1>1, <1>5, <2>2, <2>3, <2>4
<1>7. Marks(r) = b
  BY <1>1, <1>5, <1>6, SameMarks DEF nb
<1>8. r # <<>>
  BY <1>1, <1>5, EmptySeq
<1>9. ~ Abandons
  BY DEF Abandons
<1> QED BY <1>5, <1>7, <1>8, <1>9 DEF Closed, Around, b, r

\* do FILE puts all the frames back.
LEMMA FileCloses ==
    ASSUME TypeOK, BackInv, open # <<>>, open' = Front(open), Top.kind = "dofile",
           scopes' = Top.stash
    PROVE  Closed
<1>1. /\ Top.back \in Seq(Mark) /\ Len(Top.back) \in Nat /\ Len(Top.back) >= 1
      /\ Inside(Top, Marks(scopes)) /\ Top.stash \in Seq(Frames) /\ born \in Nat
  BY TopFacts, ConstructFacts, ScopesFacts
<1>2. Marks(scopes') = Top.back
  BY <1>1 DEF Inside
<1>3. scopes' # <<>>
  BY <1>1, <1>2, MarksOf, EmptySeq
<1>4. ~ Abandons
  BY DEF Abandons
<1> QED BY <1>1, <1>2, <1>3, <1>4 DEF Closed, Around

-----------------------------------------------------------------------------
(* The beginnings of constructs.                                           *)

\* A frame and a construct as they are made.
LEMMA NewFrame ==
    ASSUME TypeOK, Depth < MaxDepth
    PROVE  /\ Unbound \in Slots /\ Frame(Depth + 1) \in Frames /\ NoFrame \in Frames
           /\ Out \in Frames /\ Depth \in Nat
<1>1. /\ born \in Nat /\ celled \in Nat /\ open \in Seq(Constructs) /\ MaxDepth \in Nat
  BY LexicalsAssumption DEF TypeOK
<1>2. Depth \in Nat
  BY <1>1, LenProperties DEF Depth
<1>3. Unbound \in Slots
  BY <1>1 DEF Unbound, Slots
<1>4. \A o \in -2 .. MaxDepth : Frame(o) \in Frames
  BY <1>3 DEF Frame, Frames
<1>5. Depth + 1 \in -2 .. MaxDepth /\ -1 \in -2 .. MaxDepth /\ -2 \in -2 .. MaxDepth
  BY <1>1, <1>2
<1> QED BY <1>2, <1>3, <1>4, <1>5 DEF NoFrame, Out

\* A construct begins with the marks of the frames around it.
LEMMA NewConstruct ==
    ASSUME TypeOK, NEW kind \in Kinds
    PROVE  /\ Construct(kind) \in Constructs /\ Construct(kind).back = Marks(scopes)
           /\ Construct(kind).kind = kind /\ Construct(kind).stash = <<>>
           /\ Construct(kind).file = FALSE /\ Construct(kind).pre = 0
<1>1. Marks(scopes) \in Seq(Mark) /\ born \in Nat /\ celled \in Nat
  BY ScopesFacts
<1>2. Unbound \in Slots
  BY <1>1 DEF Unbound, Slots
<1>3. NoEnv \in Envs /\ <<>> \in Seq(Frames) /\ 0 \in Nat /\ 0 \in 0 .. MaxItems + 1
  BY LexicalsAssumption, EmptySeq DEF Envs
<1> QED BY <1>1, <1>2, <1>3 DEF Construct, Constructs

\* One frame on the top.
LEMMA PushedMarks ==
    ASSUME NEW S, NEW sc \in Seq(S), NEW f \in S
    PROVE  /\ Append(sc, f) \in Seq(S) /\ Append(sc, f) # <<>>
           /\ Len(Marks(Append(sc, f))) = Len(Marks(sc)) + 1
           /\ Agree(Marks(Append(sc, f)), Marks(sc), Len(Marks(sc)))
<1> DEFINE t == Append(sc, f)
           n == Len(sc)
<1>1. /\ t \in Seq(S) /\ t # <<>> /\ Len(t) = n + 1 /\ \A i \in 1 .. n : t[i] = sc[i]
  BY AppendToSeq
<1>2. /\ Len(Marks(sc)) = n /\ n \in Nat /\ \A i \in 1 .. n : Marks(sc)[i] = MarkOf(sc[i])
  BY MarksAt
<1> HIDE DEF t, n
<1>3. Len(Marks(t)) = n + 1 /\ \A i \in 1 .. n + 1 : Marks(t)[i] = MarkOf(t[i])
  BY <1>1, MarksAt
<1>4. \A i \in 1 .. n : Marks(t)[i] = Marks(sc)[i]
  BY <1>1, <1>2, <1>3
<1> QED BY <1>1, <1>2, <1>3, <1>4 DEF Agree, t

\* A construct is opened and BackInv holds of it.
Opened(c) ==
    /\ c \in Constructs' /\ open' = Append(open, c) /\ c.back = Marks(scopes)
    /\ scopes' \in Seq(Frames') /\ scopes' # <<>> /\ Inside(c, Marks(scopes'))
    /\ Depth < MaxDepth

\* currentEnv follows.
EnvOpened(c) ==
    /\ Sound(c) /\ stores' = stores
    /\ currentEnv' = IF c.pre = 0 THEN currentEnv ELSE c.env
    /\ c.pre > 0 => /\ c.env \in DOMAIN stores /\ c.env # NoEnv
                    /\ c.pre = Len(stores[c.env]) /\ c.before = currentEnv
                    /\ Covers(Marks(scopes'), stores[c.env])

\* A construct that is no sub has no environment.
LEMMA QuietOpened ==
    ASSUME NEW c, c.pre = 0, c.kind \notin SubKinds, stores' = stores,
           currentEnv' = currentEnv
    PROVE  EnvOpened(c)
<1>1. ~ (c.pre > 0)
  OBVIOUS
<1> QED BY <1>1 DEF EnvOpened, Sound

\* What is opened continues the chain.
LEMMA OpenedBack ==
    ASSUME TypeOK, BackInv, Constructs \subseteq Constructs', NEW c, Opened(c)
    PROVE  BackInv' /\ open' \in Seq(Constructs') /\ Len(open') = Depth + 1
<1>1. open \in Seq(Constructs')
  <2>1. open \in Seq(Constructs) /\ Seq(Constructs) \subseteq Seq(Constructs')
    BY SeqMonotonic DEF TypeOK
  <2> QED BY <2>1
<1>2. Chain(open, Marks(scopes)) /\ Len(Marks(scopes)) >= 1
  BY ScopesFacts DEF BackInv
<1>3. /\ c \in Constructs' /\ open' = Append(open, c) /\ c.back = Marks(scopes)
      /\ Inside(c, Marks(scopes'))
  BY DEF Opened
<1> DEFINE o == Marks(scopes)
           p == Marks(scopes')
           C == Constructs'
<1> HIDE DEF C, o, p
<1>4. Chain(Append(open, c), p)
  BY <1>1, <1>2, <1>3, ChainOpens DEF C, o, p
<1>5. Append(open, c) \in Seq(C) /\ Len(Append(open, c)) = Len(open) + 1
  BY <1>1, <1>3, AppendToSeq DEF C
<1> QED BY <1>3, <1>4, <1>5 DEF BackInv, Depth, C, p

\* Blocks, evals and loads, and loops, push one frame.
LEMMA PushOpens ==
    ASSUME TypeOK, NEW c \in Constructs, Frames \subseteq Frames', Constructs \subseteq Constructs',
           Depth < MaxDepth, open' = Append(open, c), c.back = Marks(scopes),
           c.kind \in {"block", "eval", "load"} \/ (c.kind = "for" /\ c.at = "head"),
           scopes' = Append(scopes, Frame(Depth + 1))
    PROVE  Opened(c)
<1> DEFINE f == Frame(Depth + 1)
<1>1. scopes \in Seq(Frames) /\ f \in Frames /\ Seq(Frames) \subseteq Seq(Frames')
  BY ScopesFacts, NewFrame, SeqMonotonic
<1> HIDE DEF f
<1>2. /\ scopes' \in Seq(Frames) /\ scopes' # <<>>
      /\ Len(Marks(scopes')) = Len(Marks(scopes)) + 1
      /\ Agree(Marks(scopes'), Marks(scopes), Len(Marks(scopes)))
  BY <1>1, PushedMarks DEF f
<1>3. Inside(c, Marks(scopes'))
  BY <1>2 DEF Inside, SubKinds
<1> QED BY <1>1, <1>2, <1>3 DEF Opened

\* do FILE starts again with one frame.
LEMMA DoFileOpens ==
    ASSUME TypeOK, BackInv, Frames \subseteq Frames', Constructs \subseteq Constructs', DoFile
    PROVE  \E c : Opened(c) /\ EnvOpened(c)
<1> DEFINE d == Construct("dofile")
           c == [d EXCEPT !.stash = scopes]
           f == Frame(Depth + 1)
<1>1. Depth < MaxDepth /\ "dofile" \in Kinds /\ open' = Append(open, c) /\ scopes' = <<f>>
      /\ stores' = stores /\ currentEnv' = currentEnv
  BY DEF DoFile, Opens, captured
<1>2. d \in Constructs /\ d.back = Marks(scopes) /\ d.kind = "dofile" /\ d.pre = 0
  BY <1>1, NewConstruct
<1>3. scopes \in Seq(Frames) /\ scopes # <<>>
  BY ScopesFacts
<1>4. c \in Constructs /\ c.back = Marks(scopes) /\ c.kind = "dofile" /\ c.stash = scopes
      /\ c.pre = 0
  <2> HIDE DEF d
  <2> QED BY <1>2, <1>3, ZenonT(60) DEF Constructs
<1>5. f \in Frames'
  BY <1>1, NewFrame
<1>6. scopes' \in Seq(Frames') /\ scopes' # <<>>
  <2> HIDE DEF f
  <2> QED BY <1>1, <1>5
<1> HIDE DEF c, d
<1>7. Inside(c, Marks(scopes'))
  BY <1>4 DEF Inside, SubKinds
<1>8. EnvOpened(c)
  BY <1>1, <1>4, QuietOpened DEF SubKinds
<1>9. Opened(c)
  BY <1>1, <1>4, <1>6, <1>7 DEF Opened
<1> QED BY <1>8, <1>9

\* Marks of a concatenation.
LEMMA ConcatMarks ==
    ASSUME NEW S, NEW s \in Seq(S), NEW t \in Seq(S), NEW u \in Seq(S),
           Len(u) = Len(s) + Len(t),
           \A i \in 1 .. Len(s) + Len(t) : u[i] = IF i <= Len(s) THEN s[i] ELSE t[i - Len(s)]
    PROVE  /\ Len(Marks(u)) = Len(s) + Len(t)
           /\ \A i \in 1 .. Len(s) : Marks(u)[i] = Marks(s)[i]
           /\ \A i \in 1 .. Len(t) : Marks(u)[Len(s) + i] = Marks(t)[i]
<1> DEFINE n == Len(s)
           m == Len(t)
<1>1. Len(u) = n + m /\ \A i \in 1 .. n + m : u[i] = IF i <= n THEN s[i] ELSE t[i - n]
  OBVIOUS
<1>2. /\ n \in Nat /\ m \in Nat
      /\ (\A i \in 1 .. n : Marks(s)[i] = MarkOf(s[i]))
      /\ (\A i \in 1 .. m : Marks(t)[i] = MarkOf(t[i]))
  BY MarksAt
<1> HIDE DEF n, m
<1>3. Len(Marks(u)) = n + m /\ \A i \in 1 .. n + m : Marks(u)[i] = MarkOf(u[i])
  BY <1>1, MarksAt
<1>4. ASSUME NEW i \in 1 .. n PROVE Marks(u)[i] = Marks(s)[i]
  BY <1>1, <1>2, <1>3
<1>5. ASSUME NEW i \in 1 .. m PROVE Marks(u)[n + i] = Marks(t)[i]
  <2>1. n + i \in 1 .. n + m /\ ~ (n + i <= n) /\ (n + i) - n = i
    BY <1>2
  <2> QED BY <1>1, <1>2, <1>3, <2>1
<1> QED BY <1>1, <1>3, <1>4, <1>5 DEF n, m

\* eval STRING: the hidden frames and the others.
LEMMA HiddenSlots ==
    ASSUME TypeOK, LexicalEnd \in 2 .. Len(scopes)
    PROVE  LET n == Len(scopes)
               d == Len(Hidden)
               rest == <<Head(scopes)>> \o SubSeq(scopes, LexicalEnd + 1, Len(scopes))
           IN /\ Hidden \in Seq(Frames) /\ Hidden # <<>>
              /\ n \in Nat /\ d \in Nat /\ d < n /\ (\A i \in 1 .. d : Hidden[i] = scopes[i + 1])
              /\ rest \in Seq(Frames) /\ Len(rest) = n - d /\ rest[1] = scopes[1]
              /\ (\A i \in 2 .. n - d : rest[i] = scopes[i + d])
<1> DEFINE n == Len(scopes)
           e == LexicalEnd
           h == <<Head(scopes)>>
           w == Hidden
           t == SubSeq(scopes, e + 1, n)
           r == h \o t
<1>1. scopes \in Seq(Frames) /\ scopes # <<>> /\ n \in Nat
  BY ScopesFacts
<1>2. e \in Nat /\ 2 <= e /\ e <= n
  BY <1>1
<1>3. w = SubSeq(scopes, 1 + 1, e)
  BY DEF Hidden
<1>4. /\ h \in Seq(Frames) /\ Len(h) = 1 /\ h[1] = scopes[1]
  <2>1. Head(scopes) = scopes[1]
    OBVIOUS
  <2>2. scopes[1] \in Frames
    BY <1>1, LastOfSeq
  <2> QED BY <2>1, <2>2
<1> HIDE DEF n, e, h, w
<1>5. /\ w \in Seq(Frames) /\ Len(w) = e - 1 /\ \A i \in 1 .. e - 1 : w[i] = scopes[1 + i]
  BY <1>1, <1>2, <1>3, SliceOfSeq DEF n
<1>6. /\ t \in Seq(Frames) /\ Len(t) = n - e /\ \A i \in 1 .. n - e : t[i] = scopes[e + i]
  BY <1>1, <1>2, SliceOfSeq DEF n
<1> HIDE DEF t
<1>7. /\ r \in Seq(Frames) /\ Len(r) = Len(h) + Len(t)
      /\ \A i \in 1 .. Len(h) + Len(t) : r[i] = IF i <= Len(h) THEN h[i] ELSE t[i - Len(h)]
  BY <1>4, <1>6, ConcatProperties
<1> HIDE DEF r
<1>8. w # <<>> /\ Len(w) \in Nat /\ Len(w) < n /\ Len(r) = n - Len(w)
  BY <1>1, <1>2, <1>4, <1>5, <1>6, <1>7, EmptySeq
<1>9. ASSUME NEW i \in 1 .. Len(w) PROVE w[i] = scopes[i + 1]
  <2>1. i \in 1 .. e - 1 /\ 1 + i = i + 1
    BY <1>2, <1>5
  <2> QED BY <1>5, <2>1
<1>10. r[1] = scopes[1]
  <2>1. 1 \in 1 .. Len(h) + Len(t) /\ 1 <= Len(h)
    BY <1>1, <1>2, <1>4, <1>6
  <2> QED BY <1>4, <1>7, <2>1
<1>11. ASSUME NEW i \in 2 .. n - Len(w) PROVE r[i] = scopes[i + Len(w)]
  <2> DEFINE j == i - 1
             k == i + Len(w)
  <2>1. /\ j \in 1 .. n - e /\ e + j = k /\ i \in 1 .. Len(h) + Len(t)
        /\ ~ (i <= Len(h)) /\ i - Len(h) = j
    BY <1>1, <1>2, <1>4, <1>5, <1>6
  <2> HIDE DEF j, k
  <2>2. r[i] = t[j] /\ t[j] = scopes[e + j]
    BY <1>6, <1>7, <2>1
  <2> QED BY <2>1, <2>2 DEF k
<1>12. h \o t = r
  BY DEF r
<1>13. /\ w \in Seq(Frames) /\ w # <<>>
       /\ n \in Nat /\ Len(w) \in Nat /\ Len(w) < n /\ (\A i \in 1 .. Len(w) : w[i] = scopes[i + 1])
       /\ h \o t \in Seq(Frames) /\ Len(h \o t) = n - Len(w) /\ (h \o t)[1] = scopes[1]
       /\ (\A i \in 2 .. n - Len(w) : (h \o t)[i] = scopes[i + Len(w)])
  BY <1>1, <1>5, <1>7, <1>8, <1>9, <1>10, <1>11, <1>12
<1> QED BY <1>13 DEF w, h, t, e, n

\* and their marks.
LEMMA HiddenFrames ==
    ASSUME TypeOK, BackInv, LexicalEnd \in 2 .. Len(scopes)
    PROVE  LET m == Marks(scopes)
               d == Len(Hidden)
               rest == <<Head(scopes)>> \o SubSeq(scopes, LexicalEnd + 1, Len(scopes))
           IN /\ Hidden \in Seq(Frames) /\ Hidden # <<>>
              /\ d < Len(m) /\ \A i \in 1 .. d : Marks(Hidden)[i] = m[i + 1]
              /\ rest \in Seq(Frames) /\ Len(Marks(rest)) = Len(m) - d
              /\ Marks(rest)[1] = m[1]
              /\ \A i \in 2 .. Len(m) - d : Marks(rest)[i] = m[i + d]
<1> DEFINE n == Len(scopes)
           m == Marks(scopes)
           w == Hidden
           d == Len(w)
           r == <<Head(scopes)>> \o SubSeq(scopes, LexicalEnd + 1, Len(scopes))
<1>1. Len(m) = n /\ (\A i \in 1 .. n : m[i] = MarkOf(scopes[i]))
  BY ScopesFacts
<1>2. /\ w \in Seq(Frames) /\ w # <<>>
      /\ n \in Nat /\ d \in Nat /\ d < n /\ (\A i \in 1 .. d : w[i] = scopes[i + 1])
      /\ r \in Seq(Frames) /\ Len(r) = n - d /\ r[1] = scopes[1]
      /\ (\A i \in 2 .. n - d : r[i] = scopes[i + d])
  BY HiddenSlots
<1> HIDE DEF n, m, w, d, r
<1>3. /\ Len(Marks(w)) = Len(w) /\ (\A i \in 1 .. Len(w) : Marks(w)[i] = MarkOf(w[i]))
      /\ Len(Marks(r)) = Len(r) /\ (\A i \in 1 .. Len(r) : Marks(r)[i] = MarkOf(r[i]))
  BY <1>2, MarksAt
<1>4. ASSUME NEW i \in 1 .. d PROVE Marks(w)[i] = m[i + 1]
  <2>1. i + 1 \in 1 .. n
    BY <1>2
  <2> QED BY <1>1, <1>2, <1>3, <2>1 DEF d
<1>5. Marks(r)[1] = m[1]
  <2>1. 1 \in 1 .. n /\ 1 \in 1 .. Len(r)
    BY <1>2
  <2> QED BY <1>1, <1>2, <1>3, <2>1
<1>6. ASSUME NEW i \in 2 .. n - d PROVE Marks(r)[i] = m[i + d]
  <2>1. i + d \in 1 .. n /\ i \in 1 .. Len(r)
    BY <1>2
  <2> QED BY <1>1, <1>2, <1>3, <2>1
<1>7. /\ w \in Seq(Frames) /\ w # <<>>
      /\ d < Len(m) /\ (\A i \in 1 .. d : Marks(w)[i] = m[i + 1])
      /\ r \in Seq(Frames) /\ Len(Marks(r)) = Len(m) - d /\ Marks(r)[1] = m[1]
      /\ (\A i \in 2 .. Len(m) - d : Marks(r)[i] = m[i + d])
  BY <1>1, <1>2, <1>3, <1>4, <1>5, <1>6
<1> QED BY <1>7 DEF w, m, r, d, n

\* eval STRING hides the frames from the second to the sub's own.
LEMMA StringOpens ==
    ASSUME TypeOK, BackInv, Frames \subseteq Frames', Constructs \subseteq Constructs', EvalString
    PROVE  \E c : Opened(c) /\ EnvOpened(c)
<1> DEFINE d == Construct("string")
           c == [d EXCEPT !.stash = Hidden]
           f == Frame(Depth + 1)
           m == Marks(scopes)
           r == IF Hidden = <<>> THEN scopes
                ELSE <<Head(scopes)>> \o SubSeq(scopes, LexicalEnd + 1, Len(scopes))
           h == Len(Hidden)
<1>1. Depth < MaxDepth /\ "string" \in Kinds /\ open' = Append(open, c) /\ scopes' = r \o <<f>>
      /\ stores' = stores /\ currentEnv' = currentEnv
  BY DEF EvalString, Opens, captured
<1>2. d \in Constructs /\ d.back = Marks(scopes) /\ d.kind = "string" /\ d.pre = 0
  BY <1>1, NewConstruct
<1>3. /\ scopes \in Seq(Frames) /\ scopes # <<>> /\ Len(m) \in Nat /\ Len(m) >= 1
  BY ScopesFacts
<1>4. /\ Hidden \in Seq(Frames) /\ h < Len(m) /\ h \in Nat
      /\ (\A i \in 1 .. h : Marks(Hidden)[i] = m[i + 1])
      /\ r \in Seq(Frames) /\ Len(Marks(r)) = Len(m) - h /\ Marks(r)[1] = m[1]
      /\ (\A i \in 2 .. Len(m) - h : Marks(r)[i] = m[i + h])
  <2>1. CASE LexicalEnd \in 2 .. Len(scopes)
    <3> DEFINE rest == <<Head(scopes)>> \o SubSeq(scopes, LexicalEnd + 1, Len(scopes))
    <3>1. /\ Hidden \in Seq(Frames) /\ Hidden # <<>>
          /\ h < Len(m) /\ (\A i \in 1 .. h : Marks(Hidden)[i] = m[i + 1])
          /\ rest \in Seq(Frames) /\ Len(Marks(rest)) = Len(m) - h /\ Marks(rest)[1] = m[1]
          /\ (\A i \in 2 .. Len(m) - h : Marks(rest)[i] = m[i + h])
      BY <2>1, HiddenFrames
    <3>2. h \in Nat
      BY <3>1, LenProperties
    <3>3. r = rest
      BY <3>1
    <3> HIDE DEF r, rest, h, m
    <3> QED BY <3>1, <3>2, <3>3
  <2>2. CASE ~ (LexicalEnd \in 2 .. Len(scopes))
    <3>1. Hidden = <<>>
      BY <2>2 DEF Hidden
    <3>2. h = 0 /\ r = scopes /\ Hidden \in Seq(Frames)
      BY <3>1, EmptySeq
    <3> HIDE DEF r, h
    <3>3. \A i \in 2 .. Len(m) : i + 0 = i
      OBVIOUS
    <3> QED BY <1>3, <3>2, <3>3 DEF m, h
  <2> QED BY <2>1, <2>2
<1>5. c \in Constructs /\ c.back = m /\ c.kind = "string" /\ c.stash = Hidden /\ c.pre = 0
  <2> HIDE DEF d, r
  <2> QED BY <1>2, <1>4, ZenonT(60) DEF Constructs
<1>6. f \in Frames
  BY <1>1, NewFrame
<1> HIDE DEF r, f
<1>7. scopes' = Append(r, f)
  BY <1>1, <1>4, <1>6
<1>8. /\ scopes' \in Seq(Frames) /\ scopes' # <<>>
      /\ Len(Marks(scopes')) = Len(Marks(r)) + 1
      /\ Agree(Marks(scopes'), Marks(r), Len(Marks(r)))
  <2>1. r \in Seq(Frames)
    BY <1>4
  <2>2. /\ Append(r, f) \in Seq(Frames) /\ Append(r, f) # <<>>
        /\ Len(Marks(Append(r, f))) = Len(Marks(r)) + 1
        /\ Agree(Marks(Append(r, f)), Marks(r), Len(Marks(r)))
    BY <1>6, <2>1, PushedMarks
  <2> QED BY <1>7, <2>2
<1>9. scopes' \in Seq(Frames')
  <2>1. Seq(Frames) \subseteq Seq(Frames')
    BY SeqMonotonic
  <2> QED BY <1>8, <2>1
<1> DEFINE p == Marks(scopes')
           n == Len(m)
<1> HIDE DEF c, d, m, n, h, p
<1>10. n \in Nat /\ n >= 1 /\ Len(p) = n - h + 1 /\ \A i \in 1 .. n - h : p[i] = Marks(r)[i]
  BY <1>3, <1>4, <1>8 DEF Agree, p, n
<1>11. p[1] = m[1] /\ \A i \in 2 .. n - h : p[i] = m[i + h]
  <2>1. 1 \in 1 .. n - h /\ \A i \in 2 .. n - h : i \in 1 .. n - h
    BY <1>4, <1>10 DEF n
  <2> QED BY <1>4, <1>10, <2>1 DEF n
<1>12. Inside(c, p)
  BY <1>4, <1>5, <1>10, <1>11 DEF Inside, SubKinds, h, n
<1>13. EnvOpened(c)
  BY <1>1, <1>5, QuietOpened DEF SubKinds
<1>14. Opened(c)
  BY <1>1, <1>5, <1>8, <1>9, <1>12 DEF Opened, m, p
<1> QED BY <1>13, <1>14

-----------------------------------------------------------------------------
(* Calls.                                                                  *)

\* Frames as Copies and Stored make them.
Relabelled(sc, o) == [i \in DOMAIN sc |-> [sc[i] EXCEPT !.owner = o]]

\* They are frames again,
LEMMA RelabelledFrames ==
    ASSUME NEW X, NEW F, F = [owner : -2 .. MaxDepth, x : X], NEW sc \in Seq(F),
           NEW o \in -2 .. MaxDepth
    PROVE  Relabelled(sc, o) \in Seq(F) /\ Len(Relabelled(sc, o)) = Len(sc)
<1> DEFINE n == Len(sc)
           t == [i \in 1 .. n |-> [sc[i] EXCEPT !.owner = o]]
<1>1. n \in Nat /\ DOMAIN sc = 1 .. n /\ \A i \in 1 .. n : sc[i] \in F
  BY LenProperties, ElementOfSeq
<1>2. Relabelled(sc, o) = t
  BY <1>1 DEF Relabelled
<1>3. \A i \in 1 .. n : [sc[i] EXCEPT !.owner = o] \in F /\ [sc[i] EXCEPT !.owner = o].x = sc[i].x
  BY <1>1
<1>4. t \in [1 .. n -> F] /\ \A i \in 1 .. n : t[i].x = sc[i].x
  BY <1>1, <1>3
<1> HIDE DEF n, t
<1>5. t \in Seq(F) /\ DOMAIN t = 1 .. n
  BY <1>1, <1>4
<1>6. Len(t) \in Nat /\ DOMAIN t = 1 .. Len(t)
  BY <1>5, LenProperties
<1>7. Len(t) = n
  BY <1>1, <1>5, <1>6
<1> QED BY <1>2, <1>4, <1>5, <1>7 DEF n

\* with the same slots.
LEMMA RelabelledSlots ==
    ASSUME NEW sc, NEW o, NEW i \in DOMAIN sc, NEW f, f = sc[i], "x" \in DOMAIN f,
           f = [k \in DOMAIN f |-> f[k]]
    PROVE  Relabelled(sc, o)[i].x = f.x
<1> DEFINE g == [f EXCEPT !.owner = o]
<1>1. g.x = f.x
  OBVIOUS
<1>2. Relabelled(sc, o)[i] = g
  BY DEF Relabelled
<1> QED BY <1>1, <1>2

\* The environment of a sub, if it has one.
LEMMA EnvFacts ==
    ASSUME TypeOK, NEW e \in Envs, e # NoEnv
    PROVE  /\ e \in DOMAIN stores /\ stores[e] \in Seq(Frames) /\ stores[e] # <<>>
           /\ Len(stores[e]) \in Nat /\ Len(stores[e]) > 0
<1>1. e \in DOMAIN stores /\ stores \in Seq(Seq(Frames) \ {<<>>})
  BY DEF TypeOK, Envs
<1>2. stores[e] \in Seq(Frames) \ {<<>>}
  BY <1>1
<1> QED BY <1>1, <1>2, LastOfSeq

\* What a call puts below the sub's own frame.
Pre(c) == IF env[c] = NoEnv THEN 0 ELSE Len(stores[env[c]])
Spliced(c) == IF Pre(c) = 0 THEN scopes ELSE Copies(c) \o scopes
Hides(c) == Pre(c) > 0 /\ c = Named
Seen(c) == IF Hides(c) THEN SubSeq(Spliced(c), 1, Pre(c)) ELSE Spliced(c)

\* A copy of an environment has its slots.
LEMMA CopiesFrames ==
    ASSUME TypeOK, NEW c \in Codes, Depth < MaxDepth, env[c] # NoEnv
    PROVE  LET v == stores[env[c]]
           IN /\ Copies(c) \in Seq(Frames) /\ Len(Copies(c)) = Len(v)
              /\ Len(v) \in Nat /\ Len(v) > 0 /\ env[c] \in DOMAIN stores
              /\ \A i \in 1 .. Len(v) : Copies(c)[i].x = v[i].x
<1> DEFINE e == env[c]
           v == stores[e]
           o == Depth + 1
<1>1. e \in Envs /\ e # NoEnv
  BY DEF TypeOK
<1> HIDE DEF e
<1>2. e \in DOMAIN stores /\ v \in Seq(Frames) /\ Len(v) \in Nat /\ Len(v) > 0
  BY <1>1, EnvFacts
<1>3. o \in -2 .. MaxDepth
  <2>1. Depth \in Nat /\ MaxDepth \in Nat
    BY NewFrame, LexicalsAssumption
  <2> QED BY <2>1
<1>4. Copies(c) = Relabelled(v, o)
  BY DEF Copies, Relabelled, e
<1> HIDE DEF v, o
<1> DEFINE F == Frames
<1>5. F = [owner : -2 .. MaxDepth, x : Slots] /\ v \in Seq(F)
  BY <1>2 DEF Frames
<1> HIDE DEF F
<1>6. Relabelled(v, o) \in Seq(F) /\ Len(Relabelled(v, o)) = Len(v)
  BY <1>3, <1>5, RelabelledFrames
<1>7. ASSUME NEW i \in 1 .. Len(v) PROVE Relabelled(v, o)[i].x = v[i].x
  <2>1. v[i] \in [owner : -2 .. MaxDepth, x : Slots] /\ i \in DOMAIN v
    BY <1>5, ElementOfSeq, LenProperties
  <2> DEFINE f == v[i]
  <2>2. "x" \in DOMAIN f /\ f = [k \in DOMAIN f |-> f[k]]
    BY <2>1
  <2> QED BY <2>1, <2>2, RelabelledSlots
<1>8. /\ Copies(c) \in Seq(Frames) /\ Len(Copies(c)) = Len(v)
      /\ Len(v) \in Nat /\ Len(v) > 0 /\ e \in DOMAIN stores
      /\ \A i \in 1 .. Len(v) : Copies(c)[i].x = v[i].x
  BY <1>2, <1>4, <1>6, <1>7 DEF F
<1> QED BY <1>8 DEF v, e

\* The frames a call leaves below the sub's: the environment, and above it the live ones
\* unless the sub is named and has one;
LEMMA SeenSlots ==
    ASSUME TypeOK, NEW c \in Codes, Depth < MaxDepth
    PROVE  /\ Pre(c) \in Nat /\ env[c] \in Envs /\ Seen(c) \in Seq(Frames)
           /\ Hides(c) => Len(Seen(c)) = Pre(c)
           /\ ~ Hides(c) =>
                 /\ Len(Seen(c)) = Pre(c) + Len(scopes)
                 /\ \A i \in 1 .. Len(scopes) : Seen(c)[Pre(c) + i] = scopes[i]
           /\ Pre(c) > 0 =>
                 /\ env[c] \in DOMAIN stores /\ env[c] # NoEnv /\ Pre(c) = Len(stores[env[c]])
                 /\ Len(Seen(c)) >= Pre(c)
                 /\ \A i \in 1 .. Pre(c) : Seen(c)[i].x = stores[env[c]][i].x
<1> DEFINE pre == Pre(c)
           spliced == Spliced(c)
           hides == Hides(c)
           seen == Seen(c)
           n == Len(scopes)
           w == Copies(c)
           v == stores[env[c]]
<1>1. /\ pre = IF env[c] = NoEnv THEN 0 ELSE Len(v)
      /\ spliced = IF pre = 0 THEN scopes ELSE w \o scopes
      /\ hides <=> pre > 0 /\ c = Named
      /\ seen = IF hides THEN SubSeq(spliced, 1, pre) ELSE spliced
  BY DEF Pre, Spliced, Hides, Seen
<1>2. scopes \in Seq(Frames) /\ n \in Nat
  BY ScopesFacts
<1>3. env[c] \in Envs
  BY DEF TypeOK
<1>4. env[c] # NoEnv =>
        /\ w \in Seq(Frames) /\ Len(w) = Len(v) /\ Len(v) \in Nat /\ Len(v) > 0
        /\ env[c] \in DOMAIN stores /\ \A i \in 1 .. Len(v) : w[i].x = v[i].x
  BY CopiesFrames
<1> HIDE DEF pre, spliced, hides, seen, w, v, n
<1>5. CASE env[c] = NoEnv
  <2>1. pre = 0 /\ ~ hides /\ seen = scopes /\ ~ (pre > 0)
    BY <1>1, <1>5
  <2>2. Len(seen) = pre + n /\ \A i \in 1 .. n : seen[pre + i] = scopes[i]
    <3>1. Len(seen) = n
      BY <2>1 DEF n
    <3> QED BY <1>2, <2>1, <3>1
  <2> QED BY <1>2, <1>3, <2>1, <2>2 DEF pre, hides, seen, n
<1>6. CASE env[c] # NoEnv
  <2>1. /\ pre = Len(v) /\ pre \in Nat /\ pre > 0 /\ w \in Seq(Frames) /\ Len(w) = pre
        /\ env[c] \in DOMAIN stores /\ \A i \in 1 .. pre : w[i].x = v[i].x
    BY <1>1, <1>4, <1>6
  <2>2. spliced = w \o scopes
    BY <1>1, <2>1
  <2>3. /\ w \o scopes \in Seq(Frames) /\ Len(w \o scopes) = Len(w) + Len(scopes)
        /\ \A i \in 1 .. Len(w) + Len(scopes) :
              (w \o scopes)[i] = IF i <= Len(w) THEN w[i] ELSE scopes[i - Len(w)]
    BY <1>2, <2>1, ConcatProperties
  <2>4. /\ spliced \in Seq(Frames) /\ Len(spliced) = pre + n
        /\ \A i \in 1 .. pre + n : spliced[i] = IF i <= pre THEN w[i] ELSE scopes[i - pre]
    BY <2>1, <2>2, <2>3 DEF n
  <2>5. CASE hides
    <3>1. /\ SubSeq(spliced, 1, pre) \in Seq(Frames) /\ Len(SubSeq(spliced, 1, pre)) = pre
          /\ \A i \in 1 .. pre : SubSeq(spliced, 1, pre)[i] = spliced[i]
      <4>1. pre <= Len(spliced)
        BY <1>2, <2>1, <2>4
      <4> QED BY <2>1, <2>4, <4>1, FirstOfSeq
    <3>2. seen = SubSeq(spliced, 1, pre)
      BY <1>1, <2>5
    <3>3. seen \in Seq(Frames) /\ Len(seen) = pre
      BY <3>1, <3>2
    <3>4. ASSUME NEW i \in 1 .. pre PROVE seen[i].x = v[i].x
      <4>1. i \in 1 .. pre + n /\ i <= pre
        BY <1>2, <2>1
      <4>2. seen[i] = w[i]
        BY <2>4, <3>1, <3>2, <4>1
      <4> QED BY <2>1, <4>2
    <3>5. Len(seen) >= pre
      BY <2>1, <3>3
    <3> QED BY <1>3, <1>6, <2>1, <2>5, <3>3, <3>4, <3>5 DEF pre, hides, seen, v
  <2>6. CASE ~ hides
    <3>1. seen = spliced
      BY <1>1, <2>6
    <3>2. ASSUME NEW i \in 1 .. n PROVE seen[pre + i] = scopes[i]
      <4>1. pre + i \in 1 .. pre + n /\ ~ (pre + i <= pre) /\ (pre + i) - pre = i
        BY <1>2, <2>1
      <4> QED BY <2>4, <3>1, <4>1
    <3>3. ASSUME NEW i \in 1 .. pre PROVE seen[i].x = v[i].x
      <4>1. i \in 1 .. pre + n /\ i <= pre
        BY <1>2, <2>1
      <4>2. seen[i] = w[i]
        BY <2>4, <3>1, <4>1
      <4> QED BY <2>1, <4>2
    <3>4. Len(seen) >= pre /\ Len(seen) = pre + n /\ seen \in Seq(Frames)
      BY <1>2, <2>1, <2>4, <3>1
    <3> QED BY <1>3, <1>6, <2>1, <2>6, <3>2, <3>3, <3>4 DEF pre, hides, seen, v, n
  <2> QED BY <2>5, <2>6
<1> QED BY <1>5, <1>6

\* and their marks.
LEMMA SeenFrames ==
    ASSUME TypeOK, NEW c \in Codes, Depth < MaxDepth
    PROVE  /\ Pre(c) \in Nat /\ env[c] \in Envs /\ Seen(c) \in Seq(Frames)
           /\ Hides(c) => Len(Seen(c)) = Pre(c)
           /\ ~ Hides(c) =>
                 /\ Len(Seen(c)) = Pre(c) + Len(scopes)
                 /\ \A i \in 1 .. Len(scopes) : Marks(Seen(c))[Pre(c) + i] = Marks(scopes)[i]
           /\ Pre(c) > 0 =>
                 /\ env[c] \in DOMAIN stores /\ env[c] # NoEnv /\ Pre(c) = Len(stores[env[c]])
                 /\ Len(Seen(c)) >= Pre(c)
                 /\ \A i \in 1 .. Pre(c) : Marks(Seen(c))[i].var = stores[env[c]][i].x.var
<1> DEFINE pre == Pre(c)
           seen == Seen(c)
           n == Len(scopes)
           m == Marks(scopes)
           o == Marks(seen)
           v == stores[env[c]]
<1>1. /\ pre \in Nat /\ env[c] \in Envs /\ seen \in Seq(Frames)
      /\ Hides(c) => Len(seen) = pre
      /\ ~ Hides(c) => Len(seen) = pre + n /\ \A i \in 1 .. n : seen[pre + i] = scopes[i]
      /\ pre > 0 => /\ env[c] \in DOMAIN stores /\ env[c] # NoEnv /\ pre = Len(v)
                    /\ Len(seen) >= pre /\ \A i \in 1 .. pre : seen[i].x = v[i].x
  BY SeenSlots
<1> HIDE DEF pre, seen, v
<1>2. n \in Nat /\ \A i \in 1 .. n : m[i] = MarkOf(scopes[i])
  BY ScopesFacts
<1>3. Len(seen) \in Nat /\ \A i \in 1 .. Len(seen) : o[i] = MarkOf(seen[i])
  BY <1>1, MarksAt
<1> HIDE DEF n, m, o
<1>4. ~ Hides(c) => \A i \in 1 .. n : o[pre + i] = m[i]
  <2> SUFFICES ASSUME ~ Hides(c), NEW i \in 1 .. n PROVE o[pre + i] = m[i]
    OBVIOUS
  <2>1. pre + i \in 1 .. Len(seen)
    BY <1>1, <1>2
  <2> QED BY <1>1, <1>2, <1>3, <2>1
<1>5. pre > 0 => \A i \in 1 .. pre : o[i].var = v[i].x.var
  <2> SUFFICES ASSUME pre > 0, NEW i \in 1 .. pre PROVE o[i].var = v[i].x.var
    OBVIOUS
  <2>1. i \in 1 .. Len(seen) /\ seen[i].x = v[i].x
    BY <1>1, <1>3
  <2>2. o[i] = MarkOf(seen[i])
    BY <1>3, <2>1
  <2>3. MarkOf(seen[i]).var = seen[i].x.var
    BY DEF MarkOf
  <2> QED BY <2>1, <2>2, <2>3
<1> QED BY <1>1, <1>4, <1>5 DEF pre, seen, n, m, o, v

\* A call.
LEMMA CallOpens ==
    ASSUME TypeOK, BackInv, Frames \subseteq Frames', Constructs \subseteq Constructs',
           NEW c \in Codes, CallSub(c)
    PROVE  \E k : Opened(k) /\ EnvOpened(k)
<1> DEFINE pre == Pre(c)
           hides == Hides(c)
           seen == Seen(c)
           file == c = Filed /\ ~Loading /\ fileScope # Out
           g == [fileScope EXCEPT !.owner = Depth + 1]
           framed == IF file THEN Append(seen, g) ELSE seen
           f == Frame(Depth + 1)
           stash == IF hides THEN scopes ELSE <<>>
           d == Construct(Kind(c))
           k == [d EXCEPT !.pre = pre, !.env = env[c], !.before = currentEnv,
                          !.stash = stash, !.file = file, !.start = Len(framed)]
           n == Len(scopes)
           b == Marks(scopes)
<1>1. /\ Depth < MaxDepth /\ Kind(c) \in Kinds
      /\ scopes' = Append(framed, f) /\ open' = Append(open, k)
      /\ stores' = stores /\ currentEnv' = IF pre = 0 THEN currentEnv ELSE env[c]
  BY DEF CallSub, Opens, Pre, Spliced, Hides, Seen, captured
<1>2. /\ scopes \in Seq(Frames) /\ scopes # <<>> /\ n \in Nat /\ n >= 1 /\ Len(b) = n
      /\ b \in Seq(Mark)
  BY ScopesFacts
<1>3. f \in Frames /\ g \in Frames /\ Depth \in Nat
  <2>1. f \in Frames /\ Depth \in Nat
    BY <1>1, NewFrame
  <2>2. Depth + 1 \in -2 .. MaxDepth
    BY <1>1, <2>1, LexicalsAssumption
  <2>3. fileScope \in Frames
    BY DEF TypeOK
  <2>4. g \in Frames
    BY <2>2, <2>3 DEF Frames
  <2> QED BY <2>1, <2>4
<1>4. hides \in BOOLEAN /\ file \in BOOLEAN
  BY DEF Hides
<1> HIDE DEF d, g, f
<1>5. /\ pre \in Nat /\ env[c] \in Envs /\ seen \in Seq(Frames)
      /\ hides => Len(seen) = pre
      /\ ~ hides => /\ Len(seen) = pre + n
                    /\ \A i \in 1 .. n : Marks(seen)[pre + i] = b[i]
      /\ pre > 0 => /\ env[c] \in DOMAIN stores /\ env[c] # NoEnv /\ pre = Len(stores[env[c]])
                    /\ Len(seen) >= pre
                    /\ \A i \in 1 .. pre : Marks(seen)[i].var = stores[env[c]][i].x.var
      /\ hides => pre > 0
  <2>1. hides => pre > 0
    BY DEF Hides
  <2> QED BY <1>1, <2>1, SeenFrames
<1>6. framed = (IF file THEN Append(seen, g) ELSE seen) /\ stash = (IF hides THEN scopes ELSE <<>>)
  OBVIOUS
<1>7. hides => stash # <<>>
  BY <1>2
<1>8. /\ k = [d EXCEPT !.pre = pre, !.env = env[c], !.before = currentEnv,
                       !.stash = stash, !.file = file, !.start = Len(framed)]
  OBVIOUS
<1> HIDE DEF k, framed, seen, pre, hides, file, stash, b, n
<1> DEFINE own == IF file THEN 2 ELSE 1
<1>9. /\ framed \in Seq(Frames) /\ Len(Marks(framed)) + 1 = Len(seen) + own
      /\ Len(framed) \in Nat /\ Len(seen) \in Nat
      /\ \A i \in 1 .. Len(seen) : Marks(framed)[i] = Marks(seen)[i]
  <2>1. Len(Marks(seen)) = Len(seen) /\ Len(seen) \in Nat
    BY <1>5, MarksAt
  <2>2. CASE file
    <3>1. framed = Append(seen, g) /\ own = 2
      BY <1>6, <2>2
    <3>2. /\ Append(seen, g) \in Seq(Frames)
          /\ Len(Marks(Append(seen, g))) = Len(Marks(seen)) + 1
          /\ Agree(Marks(Append(seen, g)), Marks(seen), Len(Marks(seen)))
      BY <1>3, <1>5, PushedMarks
    <3>3. Len(Append(seen, g)) \in Nat
      BY <3>2, LenProperties
    <3> HIDE DEF own
    <3> QED BY <2>1, <3>1, <3>2, <3>3 DEF Agree
  <2>3. CASE ~ file
    <3>1. framed = seen /\ own = 1
      BY <1>6, <2>3
    <3> HIDE DEF own
    <3> QED BY <1>5, <2>1, <3>1
  <2> QED BY <1>4, <2>2, <2>3
<1>10. /\ scopes' \in Seq(Frames) /\ scopes' # <<>>
       /\ Len(Marks(scopes')) = Len(Marks(framed)) + 1
       /\ Agree(Marks(scopes'), Marks(framed), Len(Marks(framed)))
  <2>1. /\ Append(framed, f) \in Seq(Frames) /\ Append(framed, f) # <<>>
        /\ Len(Marks(Append(framed, f))) = Len(Marks(framed)) + 1
        /\ Agree(Marks(Append(framed, f)), Marks(framed), Len(Marks(framed)))
    BY <1>3, <1>9, PushedMarks
  <2> QED BY <1>1, <2>1
<1>11. scopes' \in Seq(Frames')
  <2>1. Seq(Frames) \subseteq Seq(Frames')
    BY SeqMonotonic
  <2> QED BY <1>10, <2>1
<1>12. /\ d \in Constructs /\ d.back = b /\ d.kind = Kind(c)
  BY <1>1, NewConstruct DEF d, b
<1>13. /\ k \in Constructs /\ k.back = b /\ k.kind = Kind(c) /\ k.pre = pre /\ k.stash = stash
       /\ k.file = file /\ k.env = env[c] /\ k.before = currentEnv
  <2>1. stash \in Seq(Frames)
    <3>1. <<>> \in Seq(Frames)
      BY EmptySeq
    <3> QED BY <1>2, <1>6, <3>1
  <2>2. currentEnv \in Envs
    BY DEF TypeOK
  <2> QED BY <1>4, <1>5, <1>8, <1>9, <1>12, <2>1, <2>2, ZenonT(60) DEF Constructs
<1> DEFINE p == Marks(scopes')
<1>14. Len(p) = Len(seen) + own /\ \A i \in 1 .. Len(seen) : p[i] = Marks(seen)[i]
  <2>1. \A i \in 1 .. Len(Marks(framed)) : p[i] = Marks(framed)[i]
    BY <1>10 DEF Agree
  <2>2. \A i \in 1 .. Len(seen) : i \in 1 .. Len(Marks(framed))
    <3> DEFINE v == Marks(framed)
               l == Len(v)
    <3>1. own >= 1 /\ own \in Nat
      BY <1>4
    <3>2. l \in Nat
      BY <1>9, MarksAt
    <3>3. l + 1 = Len(seen) + own
      BY <1>9
    <3> HIDE DEF own, l
    <3>4. \A i \in 1 .. Len(seen) : i \in 1 .. l
      BY <1>9, <3>1, <3>2, <3>3
    <3> QED BY <3>4 DEF l
  <2> HIDE DEF own, p
  <2>3. Len(p) = Len(seen) + own
    BY <1>9, <1>10 DEF p
  <2> QED BY <1>9, <2>1, <2>2, <2>3
<1> HIDE DEF p
<1>15. Kind(c) \in SubKinds
  BY DEF Kind, SubKinds
<1>16. Inside(k, p)
  <2>1. CASE hides
    <3>1. k.stash # <<>> /\ Marks(k.stash) = b /\ Len(seen) = pre
      BY <1>5, <1>6, <1>7, <1>13, <2>1 DEF b
    <3> QED BY <1>13, <1>14, <1>15, <3>1 DEF Inside, SubKinds
  <2>2. CASE ~ hides
    <3>1. k.stash = <<>> /\ Len(p) = pre + Len(b) + own
      BY <1>2, <1>5, <1>6, <1>13, <1>14, <2>2
    <3>2. ASSUME NEW i \in 1 .. Len(b) PROVE p[pre + i] = b[i]
      <4>1. pre + i \in 1 .. Len(seen) /\ i \in 1 .. n
        BY <1>2, <1>5, <2>2
      <4> QED BY <1>5, <1>14, <2>2, <4>1
    <3> QED BY <1>13, <1>14, <1>15, <3>1, <3>2 DEF Inside, SubKinds
  <2> QED BY <2>1, <2>2
<1>17. Sound(k)
  <2>1. ~ hides => k.stash = <<>>
    BY <1>6, <1>13
  <2> QED BY <1>4, <1>5, <1>13, <1>15, <2>1 DEF Sound
<1>18. pre > 0 => Covers(p, stores[env[c]])
  <2> HAVE pre > 0
  <2> DEFINE v == stores[env[c]]
             l == Len(seen)
  <2>1. pre = Len(v) /\ l >= pre /\ \A i \in 1 .. pre : Marks(seen)[i].var = v[i].x.var
    BY <1>5
  <2>2. own \in Nat /\ own >= 1 /\ l \in Nat
    BY <1>9
  <2>3. Len(p) = l + own /\ \A i \in 1 .. l : p[i] = Marks(seen)[i]
    BY <1>14
  <2> HIDE DEF l, own, v
  <2>4. Len(p) > pre /\ \A i \in 1 .. pre : i \in 1 .. l
    BY <1>5, <2>1, <2>2, <2>3
  <2>5. \A i \in 1 .. pre : p[i].var = v[i].x.var
    BY <2>1, <2>3, <2>4
  <2> QED BY <2>1, <2>4, <2>5 DEF Covers, v
<1>19. EnvOpened(k)
  BY <1>1, <1>5, <1>13, <1>17, <1>18 DEF EnvOpened, p
<1>20. Opened(k)
  BY <1>1, <1>10, <1>11, <1>13, <1>16 DEF Opened, p, b
<1> QED BY <1>19, <1>20, SMTT(30)

-----------------------------------------------------------------------------
(* What there is more of.                                                  *)

\* Variables and cells come only new, and stores are kept,
LEMMA StoresKept ==
    ASSUME TypeOK, born' \in Nat, celled' \in Nat, born <= born', celled <= celled',
           stores' = stores
    PROVE  Grown
<1>1. Seq(Frames) \subseteq Seq(Frames')
  BY LargerFrames
<1>2. Seq(Frames) \ {<<>>} \subseteq Seq(Frames') \ {<<>>}
  BY <1>1
<1>3. Seq(Seq(Frames) \ {<<>>}) \subseteq Seq(Seq(Frames') \ {<<>>})
  BY <1>2, SeqMonotonic
<1>4. stores \in Seq(Seq(Frames) \ {<<>>})
  BY DEF TypeOK
<1>5. Len(stores) \in Nat
  BY <1>4, LenProperties
<1> QED BY <1>3, <1>4, <1>5 DEF Grown

\* added
LEMMA StoreAdded ==
    ASSUME TypeOK, born' = born, celled' \in Nat, celled <= celled',
           NEW st \in Seq(Frames'), st # <<>>, stores' = Append(stores, st)
    PROVE  Grown /\ Len(stores') \in Envs'
<1>0. born \in Nat /\ celled \in Nat
  BY DEF TypeOK
<1>1. Seq(Frames) \subseteq Seq(Frames')
  BY <1>0, LargerFrames
<1>2. Seq(Frames) \ {<<>>} \subseteq Seq(Frames') \ {<<>>}
  BY <1>1
<1>3. Seq(Seq(Frames) \ {<<>>}) \subseteq Seq(Seq(Frames') \ {<<>>})
  BY <1>2, SeqMonotonic
<1> DEFINE S == Seq(Frames') \ {<<>>}
<1>4. stores \in Seq(S) /\ st \in S
  BY <1>3 DEF TypeOK
<1> HIDE DEF S
<1>5. Append(stores, st) \in Seq(S) /\ Len(Append(stores, st)) = Len(stores) + 1
      /\ Len(stores) \in Nat
  BY <1>4, AppendToSeq, LenProperties
<1>6. stores' \in Seq(S) /\ Len(stores') = Len(stores) + 1
  BY <1>5
<1>7. DOMAIN stores' = 1 .. Len(stores')
  BY <1>6, LenProperties
<1>8. Len(stores') \in Envs'
  BY <1>5, <1>6, <1>7 DEF Envs
<1> QED BY <1>0, <1>5, <1>6, <1>8 DEF Grown, S

\* or written back.
LEMMA StoreWritten ==
    ASSUME TypeOK, born' = born, celled' = celled, NEW e \in Envs,
           NEW st \in Seq(Frames), st # <<>>, stores' = [stores EXCEPT ![e] = st]
    PROVE  Grown
<1> DEFINE S == Seq(Frames) \ {<<>>}
<1>0. born \in Nat /\ celled \in Nat
  BY DEF TypeOK
<1>1. Frames' = Frames
  BY DEF Frames, Slots
<1>2. stores \in Seq(S) /\ st \in S
  BY DEF TypeOK
<1> HIDE DEF S
<1>3. stores' \in Seq(S) /\ Len(stores') = Len(stores) /\ Len(stores) \in Nat
  <2>1. Len(stores) \in Nat /\ DOMAIN stores = 1 .. Len(stores)
    BY <1>2, LenProperties
  <2>2. CASE e \in 1 .. Len(stores)
    BY <1>2, <2>1, <2>2, ExceptSeq
  <2>3. CASE e \notin 1 .. Len(stores)
    <3>1. stores' = stores
      BY <1>2, <2>1, <2>3
    <3> QED BY <1>2, <2>1, <3>1
  <2> QED BY <2>2, <2>3
<1> QED BY <1>0, <1>1, <1>3 DEF Grown, S

\* Numbering the promoted cells.
LEMMA PromotedFrames ==
    ASSUME TypeOK, celled' = celled + Cardinality(Promote), born' = born
    PROVE  /\ celled' \in Nat /\ celled <= celled'
           /\ Promoted \in Seq(Frames') /\ Len(Promoted) = Len(scopes)
           /\ \A i \in 1 .. Len(scopes) : MarkOf(Promoted[i]) = MarkOf(scopes[i])
<1> DEFINE n == Len(scopes)
           k == Cardinality(Promote)
           Upto(i) == {j \in Promote : j <= i}
           F(i) == IF i \in Promote
                   THEN [scopes[i] EXCEPT !.x.cell = celled + Cardinality(Upto(i))]
                   ELSE scopes[i]
           t == [i \in 1 .. n |-> F(i)]
<1>1. /\ n \in Nat /\ DOMAIN scopes = 1 .. n /\ born \in Nat /\ celled \in Nat
      /\ \A i \in 1 .. n : scopes[i] \in Frames
  BY ScopesFacts
<1>2. IsFiniteSet(Promote) /\ Promote \subseteq 1 .. n
  <2>1. IsFiniteSet(1 .. n)
    BY <1>1, FS_Interval
  <2>2. Promote \subseteq 1 .. n
    BY <1>1 DEF Promote, Bound
  <2> QED BY <2>1, <2>2, FS_Subset
<1>3. k \in Nat
  BY <1>2, FS_CardinalityType
<1>4. celled' \in Nat /\ celled <= celled' /\ celled' = celled + k
  BY <1>1, <1>3
<1>5. \A i \in 1 .. n : Cardinality(Upto(i)) \in Nat /\ Cardinality(Upto(i)) <= k
  <2> TAKE i \in 1 .. n
  <2>1. Upto(i) \subseteq Promote
    OBVIOUS
  <2> HIDE DEF Upto
  <2>2. IsFiniteSet(Upto(i)) /\ Cardinality(Upto(i)) <= Cardinality(Promote)
    BY <1>2, <2>1, FS_Subset
  <2> QED BY <2>2, FS_CardinalityType
<1>6. Promoted = t
  BY <1>1 DEF Promoted
<1>7. ASSUME NEW i \in 1 .. n PROVE F(i) \in Frames' /\ MarkOf(F(i)) = MarkOf(scopes[i])
  <2> DEFINE c == celled + Cardinality(Upto(i))
  <2>1. c \in 0 .. celled'
    <3> HIDE DEF Upto, k
    <3> QED BY <1>1, <1>3, <1>4, <1>5
  <2>2. Frames \subseteq Frames'
    BY <1>1, <1>4, LargerFrames
  <2>3. scopes[i] \in Frames'
    BY <1>1, <2>2
  <2>4. CASE i \in Promote
    <3>1. F(i) = [scopes[i] EXCEPT !.x.cell = c] /\ scopes[i].x # Unbound
      BY <2>4 DEF Promote, Bound
    <3> HIDE DEF F, c
    <3>2. scopes[i].x.var # -1
      BY <2>3, <3>1 DEF Frames, Slots
    <3> QED BY <2>1, <2>3, <3>1, <3>2 DEF Frames, Slots, MarkOf
  <2>5. CASE i \notin Promote
    BY <2>3, <2>5
  <2> QED BY <2>4, <2>5
<1> HIDE DEF F, Upto, k
<1>8. t \in [1 .. n -> Frames'] /\ \A i \in 1 .. n : MarkOf(t[i]) = MarkOf(scopes[i])
  BY <1>7
<1> HIDE DEF n, t
<1>9. t \in Seq(Frames') /\ DOMAIN t = 1 .. n
  BY <1>1, <1>8
<1>10. Len(t) \in Nat /\ DOMAIN t = 1 .. Len(t)
  BY <1>9, LenProperties
<1>11. Len(t) = n
  BY <1>1, <1>9, <1>10
<1> QED BY <1>4, <1>6, <1>8, <1>9, <1>11 DEF n

\* The slot that get_var finds.
LEMMA VisibleSlot ==
    ASSUME TypeOK, NEW sc \in Seq(Frames)
    PROVE  /\ Visible(sc) \in Slots
           /\ Bound(sc) # {} => /\ Max(Bound(sc)) \in Bound(sc)
                                /\ \A i \in Bound(sc) : i <= Max(Bound(sc))
<1> DEFINE n == Len(sc)
           B == Bound(sc)
<1>1. n \in Nat /\ DOMAIN sc = 1 .. n /\ \A i \in 1 .. n : sc[i] \in Frames
  BY LenProperties, ElementOfSeq
<1>2. born \in Nat /\ celled \in Nat
  BY DEF TypeOK
<1>3. B \subseteq 1 .. n
  BY <1>1 DEF Bound
<1>4. CASE B = {}
  <2>1. Visible(sc) = [var |-> 0, cell |-> 0]
    BY <1>4 DEF Visible, Global
  <2>2. Visible(sc) \in Slots
    BY <1>2, <2>1 DEF Slots
  <2> QED BY <1>4, <2>2
<1>5. CASE B # {}
  <2> HIDE DEF n, B
  <2>1. PICK i \in B : \A j \in B : j <= i
    BY <1>1, <1>3, <1>5, Extremes
  <2>2. Max(B) \in B /\ \A j \in B : Max(B) >= j
    <3>1. \A j \in B : i >= j
      BY <1>1, <1>3, <2>1
    <3> QED BY <3>1 DEF Max
  <2>3. Max(B) \in 1 .. n /\ \A j \in B : j <= Max(B)
    BY <1>1, <1>3, <2>2
  <2>4. sc[Max(B)] \in Frames
    BY <1>1, <2>3
  <2>5. Visible(sc) = sc[Max(B)].x
    BY <1>5 DEF Visible, B
  <2>6. Visible(sc) \in Slots
    BY <2>4, <2>5 DEF Frames
  <2> QED BY <2>2, <2>3, <2>6 DEF B
<1> QED BY <1>4, <1>5

\* A block, an eval, a file to be loaded.
LEMMA BlockOpens ==
    ASSUME TypeOK, Frames \subseteq Frames', Constructs \subseteq Constructs',
           (\E kind \in {"block", "eval"} : OpenBlock(kind)) \/ Load
    PROVE  \E c : Opened(c) /\ EnvOpened(c)
<1>1. PICK kind \in {"block", "eval", "load"} :
         /\ Opens(kind) /\ open' = Append(open, Construct(kind))
         /\ scopes' = Append(scopes, Frame(Depth + 1))
         /\ stores' = stores /\ currentEnv' = currentEnv
  BY DEF OpenBlock, Load, captured
<1>2. Depth < MaxDepth /\ kind \in Kinds
  BY <1>1 DEF Opens
<1> DEFINE c == Construct(kind)
<1>3. c \in Constructs /\ c.back = Marks(scopes) /\ c.kind = kind /\ c.pre = 0
  BY <1>2, NewConstruct
<1> HIDE DEF c
<1>4. open' = Append(open, c)
  BY <1>1 DEF c
<1>9. c.kind \in {"block", "eval", "load"}
  BY <1>3
<1>5. c.kind \in {"block", "eval", "load"} \/ (c.kind = "for" /\ c.at = "head")
  BY <1>9
<1>6. scopes' = Append(scopes, Frame(Depth + 1))
  BY <1>1
<1>8. c \in Constructs /\ c.back = Marks(scopes) /\ Depth < MaxDepth
  BY <1>2, <1>3
<1>7. Opened(c)
  BY <1>4, <1>5, <1>6, <1>8, PushOpens
<1>10. EnvOpened(c)
  BY <1>1, <1>3, <1>9, QuietOpened DEF SubKinds
<1> QED BY <1>7, <1>10

\* A loop.
LEMMA ForOpens ==
    ASSUME TypeOK, Frames \subseteq Frames', Constructs \subseteq Constructs',
           NEW list \in Lists, NEW cont \in BOOLEAN, For(list, cont)
    PROVE  \E c : Opened(c) /\ EnvOpened(c)
<1> DEFINE owns == list = "magic" /\ shared = Unbound
           d == Construct("for")
           items == Items(list)
           x == Visible(scopes)
           c == [d EXCEPT !.list = list, !.at = "head", !.i = 1, !.n = items,
                          !.saved = x, !.owned = owns, !.cont = cont]
<1>1. /\ Depth < MaxDepth /\ "for" \in Kinds /\ open' = Append(open, c)
      /\ scopes' = Append(scopes, Frame(Depth + 1))
      /\ stores' = stores /\ currentEnv' = currentEnv
  BY DEF For, Opens, captured
<1>2. d \in Constructs /\ d.back = Marks(scopes) /\ d.kind = "for" /\ d.pre = 0
  BY <1>1, NewConstruct
<1>3. x \in Slots
  BY ScopesFacts, VisibleSlot
<1>4. items \in 0 .. MaxItems + 1
  <2>1. array \in 0 .. MaxItems /\ MaxItems \in Nat
    BY LexicalsAssumption DEF TypeOK
  <2> QED BY <2>1 DEF Items
<1>5. owns \in BOOLEAN
  OBVIOUS
<1> HIDE DEF d, owns, items, x
<1>6. c \in Constructs /\ c.back = Marks(scopes) /\ c.kind = "for" /\ c.at = "head"
      /\ c.pre = 0
  <2>1. c \in Constructs
    <3>1. d \in Constructs
      BY <1>2
    <3> QED BY <1>3, <1>4, <1>5, <3>1 DEF Constructs
  <2>2. c.back = d.back /\ c.kind = d.kind /\ c.at = "head" /\ c.pre = d.pre
    BY <1>2 DEF Constructs
  <2> QED BY <1>2, <2>1, <2>2
<1> HIDE DEF c
<1>7. Opened(c)
  BY <1>1, <1>6, PushOpens
<1>8. EnvOpened(c)
  <2>1. stores' = stores /\ currentEnv' = currentEnv
    BY <1>1
  <2>2. c.pre = 0 /\ c.kind \notin SubKinds
    BY <1>6 DEF SubKinds
  <2> QED BY <2>1, <2>2, QuietOpened
<1> QED BY <1>7, <1>8

\* Every construct that is opened.
LEMMA OpenOpens ==
    ASSUME TypeOK, BackInv, Grown, Open
    PROVE  \E c : Opened(c) /\ EnvOpened(c)
<1>1. Frames \subseteq Frames' /\ Constructs \subseteq Constructs'
  BY LargerFrames, LargerTypes DEF Grown
<1>2. CASE (\E kind \in {"block", "eval"} : OpenBlock(kind)) \/ Load
  BY <1>1, <1>2, BlockOpens
<1>3. CASE \E list \in Lists, cont \in BOOLEAN : For(list, cont)
  BY <1>1, <1>3, ForOpens
<1>4. CASE Call
  <2>1. PICK c \in Anons \cup {Named, Filed} : CallSub(c)
    BY <1>4 DEF Call
  <2>2. c \in Codes
    BY <2>1, LexicalsAssumption DEF Anons, Codes, Named, Filed
  <2> QED BY <1>1, <2>1, <2>2, CallOpens
<1>5. CASE EvalString
  BY <1>1, <1>5, StringOpens
<1>6. CASE DoFile
  BY <1>1, <1>6, DoFileOpens
<1> QED BY <1>2, <1>3, <1>4, <1>5, <1>6 DEF Open

-----------------------------------------------------------------------------
(* Every step keeps BackInv and the types of the two stacks.               *)

Stacked ==
    /\ scopes' \in Seq(Frames') /\ scopes' # <<>>
    /\ open' \in Seq(Constructs') /\ Len(open') <= MaxDepth /\ BackInv'
    /\ Len(open') < Depth => Marks(scopes') = Around

\* A construct is opened,
LEMMA OpenStacked ==
    ASSUME TypeOK, BackInv, Grown, \E c : Opened(c)
    PROVE  Stacked
<1>1. PICK c : Opened(c)
  OBVIOUS
<1>2. Constructs \subseteq Constructs'
  BY LargerTypes
<1>3. BackInv' /\ open' \in Seq(Constructs') /\ Len(open') = Depth + 1
  BY <1>1, <1>2, OpenedBack
<1>4. Depth \in Nat /\ Depth < MaxDepth
  <2>1. Depth < MaxDepth
    BY <1>1 DEF Opened
  <2> QED BY <2>1, NewFrame
<1>5. scopes' \in Seq(Frames') /\ scopes' # <<>>
  BY <1>1 DEF Opened
<1>6. MaxDepth \in Nat
  BY LexicalsAssumption
<1>7. Len(open') <= MaxDepth /\ ~ (Len(open') < Depth)
  BY <1>3, <1>4, <1>6
<1> QED BY <1>3, <1>5, <1>7 DEF Stacked

\* What a construct's end leaves differs from what was there in the innermost frame only.
LEMMA AroundBelow ==
    ASSUME TypeOK, BackInv, open # <<>>, Marks(scopes') = Around
    PROVE  SameBelow(Top.back, Marks(scopes'))
<1> DEFINE o == Top.back
           p == Marks(scopes')
<1>1. o \in Seq(Mark) /\ Len(o) \in Nat /\ Len(o) >= 1
  BY TopFacts, ConstructFacts
<1>2. CASE Abandons
  <2> DEFINE n == Len(o)
             v == Top.saved.var
  <2>1. p = [o EXCEPT ![n].var = v]
    BY <1>2 DEF Around
  <2> HIDE DEF o, p
  <2>2. DOMAIN o = 1 .. n
    BY <1>1, LenProperties
  <2>3. p = [i \in 1 .. n |-> IF i = n THEN [o[n] EXCEPT !.var = v] ELSE o[i]]
    BY <2>1, <2>2
  <2> HIDE DEF n, v
  <2>4. DOMAIN p = 1 .. n /\ \A i \in 1 .. n - 1 : p[i] = o[i]
    BY <1>1, <2>3 DEF n
  <2>5. Len(p) = n
    BY <1>1, <2>4 DEF n
  <2>6. SameBelow(o, p)
    BY <2>4, <2>5 DEF SameBelow, Agree, n
  <2> QED BY <2>6 DEF o, p
<1>3. CASE ~ Abandons
  <2>1. p = o
    BY <1>3 DEF Around
  <2> HIDE DEF o, p
  <2>2. SameBelow(o, p)
    BY <2>1 DEF SameBelow, Agree
  <2> QED BY <2>2 DEF o, p
<1> QED BY <1>2, <1>3

\* ends: the one below is inside the same frames as before,
LEMMA CloseStacked ==
    ASSUME TypeOK, BackInv, Grown, Closed
    PROVE  Stacked
<1> DEFINE o == Top.back
           p == Marks(scopes')
           s == Front(open)
<1>1. /\ open # <<>> /\ open' = s /\ scopes' \in Seq(Frames) /\ scopes' # <<>> /\ p = Around
  BY DEF Closed
<1>2. /\ Depth \in Nat /\ Depth >= 1 /\ Len(o) >= 1 /\ Top \in Constructs
      /\ s \in Seq(Constructs) /\ Len(s) = Depth - 1 /\ Chain(s, o)
  BY <1>1, TopFacts
<1>3. o \in Seq(Mark) /\ Len(o) \in Nat
  BY <1>2, ConstructFacts
<1>4. SameBelow(o, p)
  BY <1>1, AroundBelow
<1>5. \A c \in Constructs : Len(c.back) \in Nat /\ Len(c.stash) \in Nat /\ c.pre \in Nat
  BY ConstructFacts
<1>6. Chain(s, p)
  <2> HIDE DEF s, o, p
  <2> QED BY <1>2, <1>3, <1>4, <1>5, ChainTop
<1>7. BackInv'
  BY <1>1, <1>6 DEF BackInv
<1>8. Constructs \subseteq Constructs' /\ Frames \subseteq Frames'
  BY LargerTypes, LargerFrames DEF Grown
<1>9. scopes' \in Seq(Frames') /\ open' \in Seq(Constructs')
  <2>1. Seq(Frames) \subseteq Seq(Frames') /\ Seq(Constructs) \subseteq Seq(Constructs')
    BY <1>8, SeqMonotonic
  <2> QED BY <1>1, <1>2, <2>1
<1>10. Len(open') <= MaxDepth
  <2>1. Depth <= MaxDepth /\ MaxDepth \in Nat
    BY LexicalsAssumption DEF TypeOK
  <2> QED BY <1>1, <1>2, <2>1
<1> QED BY <1>1, <1>7, <1>9, <1>10 DEF Stacked

\* The constructs and the marks stay, but those of the innermost frame.
Kept ==
    /\ open' = open /\ scopes' \in Seq(Frames') /\ scopes' # <<>>
    /\ SameBelow(Marks(scopes), Marks(scopes'))

\* stays
LEMMA KeptStacked ==
    ASSUME TypeOK, BackInv, Grown, Kept
    PROVE  Stacked
<1>0. /\ open' = open /\ scopes' \in Seq(Frames') /\ scopes' # <<>>
      /\ SameBelow(Marks(scopes), Marks(scopes'))
  BY DEF Kept
<1>1. open \in Seq(Constructs) /\ Depth <= MaxDepth
  BY DEF TypeOK
<1>2. Len(Marks(scopes)) \in Nat
  BY ScopesFacts
<1>3. \A c \in Constructs : Len(c.back) \in Nat /\ Len(c.stash) \in Nat /\ c.pre \in Nat
  BY ConstructFacts
<1>4. Chain(open, Marks(scopes'))
  BY <1>0, <1>1, <1>2, <1>3, ChainTop DEF BackInv
<1>5. BackInv'
  BY <1>0, <1>4 DEF BackInv
<1>6. open' \in Seq(Constructs')
  <2>1. Seq(Constructs) \subseteq Seq(Constructs')
    BY LargerTypes, SeqMonotonic
  <2> QED BY <1>0, <1>1, <2>1
<1>7. Len(open') = Depth /\ Depth \in Nat
  BY <1>0, <1>1, LenProperties DEF Depth
<1> QED BY <1>0, <1>1, <1>5, <1>6, <1>7 DEF Stacked

\* A loop goes to its next item, its body or its continue block.
LoopMoved ==
    /\ open # <<>> /\ Top.kind = "for" /\ scopes' \in Seq(Frames') /\ scopes' # <<>>
    /\ Agree(Marks(scopes'), Top.back, Len(Top.back))
    /\ \E at \in {"head", "body", "continue"}, i \in Nat, again \in BOOLEAN :
           /\ open' = [open EXCEPT ![Depth].at = at, ![Depth].i = i, ![Depth].again = again]
           /\ Len(Marks(scopes')) = Len(Top.back) + (IF at = "body" THEN 2 ELSE 1)

\* The loop's construct then, in place of the one before.
LEMMA MovedLoop ==
    ASSUME TypeOK, BackInv, LoopMoved
    PROVE  \E c \in Constructs :
              /\ c.back = Top.back /\ c.kind = "for" /\ c.pre = Top.pre /\ c.stash = Top.stash
              /\ open' = [open EXCEPT ![Depth] = c] /\ Inside(c, Marks(scopes'))
<1>0. PICK at \in {"head", "body", "continue"}, i \in Nat, again \in BOOLEAN :
         /\ open' = [open EXCEPT ![Depth].at = at, ![Depth].i = i, ![Depth].again = again]
         /\ Len(Marks(scopes')) = Len(Top.back) + (IF at = "body" THEN 2 ELSE 1)
  BY DEF LoopMoved
<1> DEFINE c == [Top EXCEPT !.at = at, !.i = i, !.again = again]
           p == Marks(scopes')
           t == [open EXCEPT ![Depth] = c]
<1>1. /\ Depth \in Nat /\ Depth >= 1 /\ Top = open[Depth] /\ Top \in Constructs
      /\ Top.kind = "for" /\ Agree(p, Top.back, Len(Top.back))
  BY TopFacts DEF LoopMoved
<1>2. open \in Seq(Constructs) /\ Depth <= MaxDepth /\ Depth = Len(open)
  BY DEF TypeOK, Depth
<1>3. c \in Constructs
  BY <1>1, ZenonT(60) DEF Constructs
<1>4. c.back = Top.back /\ c.kind = "for" /\ c.at = at /\ c.pre = Top.pre /\ c.stash = Top.stash
  BY <1>1 DEF Constructs
<1>5. open' = t
  <2>1. Depth \in DOMAIN open
    BY <1>1, <1>2, LenProperties
  <2> QED BY <1>0, <1>1, <2>1
<1> HIDE DEF c
<1>6. Inside(c, p)
  BY <1>0, <1>1, <1>4 DEF Inside, SubKinds
<1> QED BY <1>3, <1>4, <1>5, <1>6

\* or goes on.
LEMMA LoopStacked ==
    ASSUME TypeOK, BackInv, Grown, LoopMoved
    PROVE  Stacked
<1> DEFINE p == Marks(scopes')
           C == Constructs'
<1>0. PICK c \in Constructs :
         /\ c.back = Top.back /\ open' = [open EXCEPT ![Depth] = c] /\ Inside(c, p)
  BY MovedLoop
<1>4. open # <<>> /\ scopes' \in Seq(Frames') /\ scopes' # <<>>
  BY DEF LoopMoved
<1> DEFINE t == [open EXCEPT ![Depth] = c]
<1>1. /\ Depth \in Nat /\ Depth >= 1
  BY <1>4, TopFacts
<1>2. open \in Seq(Constructs) /\ Depth <= MaxDepth /\ Depth = Len(open)
  BY DEF TypeOK, Depth
<1>3. Constructs \subseteq C
  BY LargerTypes
<1> HIDE DEF p
<1>7. Chain(open, Marks(scopes)) /\ Last(open).back = c.back
  BY <1>0 DEF BackInv, Top
<1>8. Chain([open EXCEPT ![Len(open)] = c], p)
  BY <1>0, <1>2, <1>4, <1>7, ChainMoves
<1>9. Chain(t, p)
  BY <1>2, <1>8
<1>10. BackInv'
  BY <1>0, <1>9 DEF BackInv, p
<1>11. t \in Seq(Constructs) /\ Len(t) = Depth
  BY <1>0, <1>1, <1>2, ExceptSeq
<1>12. open' \in Seq(C) /\ Len(open') = Depth
  <2>1. Seq(Constructs) \subseteq Seq(C)
    BY <1>3, SeqMonotonic
  <2> QED BY <1>0, <1>11, <2>1
<1> HIDE DEF t
<1> QED BY <1>1, <1>2, <1>4, <1>10, <1>12 DEF Stacked

-----------------------------------------------------------------------------
(* Statements, and runs of a loop's body.                                  *)

\* The innermost frame gets another `$x`.
LEMMA SetX ==
    ASSUME TypeOK, Frames \subseteq Frames', NEW x \in Slots', NEW t,
           t = [scopes EXCEPT ![Len(scopes)].x = x]
    PROVE  t \in Seq(Frames') /\ t # <<>> /\ SameBelow(Marks(scopes), Marks(t))
<1> DEFINE n == Len(scopes)
           f == [scopes[n] EXCEPT !.x = x]
           F == Frames'
           u == [scopes EXCEPT ![n] = f]
<1>1. /\ n \in Nat /\ n >= 1 /\ n \in 1 .. n /\ scopes[n] \in Frames
      /\ Len(Marks(scopes)) = n /\ (\A i \in 1 .. n : Marks(scopes)[i] = MarkOf(scopes[i]))
      /\ DOMAIN scopes = 1 .. n
  BY ScopesFacts
<1>2. scopes \in Seq(F)
  <2>1. scopes \in Seq(Frames) /\ Seq(Frames) \subseteq Seq(F)
    BY ScopesFacts, SeqMonotonic
  <2> QED BY <2>1
<1>3. f \in F
  <2>1. scopes[n] \in F
    BY <1>1
  <2> QED BY <2>1 DEF Frames
<1>4. t = u
  BY <1>1
<1> HIDE DEF f, n, F
<1>5. u \in Seq(F) /\ Len(u) = n /\ \A i \in 1 .. n : i # n => u[i] = scopes[i]
  BY <1>1, <1>2, <1>3, ExceptSeq
<1> HIDE DEF u
<1>6. Len(Marks(u)) = n /\ \A i \in 1 .. n : Marks(u)[i] = MarkOf(u[i])
  BY <1>5, MarksAt
<1>7. \A i \in 1 .. n - 1 : Marks(u)[i] = Marks(scopes)[i]
  <2> TAKE i \in 1 .. n - 1
  <2>1. i \in 1 .. n /\ i # n
    BY <1>1
  <2> QED BY <1>1, <1>5, <1>6, <2>1
<1>8. u # <<>>
  BY <1>1, <1>5, EmptySeq
<1> QED BY <1>1, <1>4, <1>5, <1>6, <1>7, <1>8 DEF SameBelow, Agree, F

\* `my $x` changes the innermost frame only.
LEMMA MyKept ==
    ASSUME TypeOK, BackInv, Grown, My
    PROVE  Kept
<1> DEFINE x == [var |-> born', cell |-> 0]
<1>1. born' \in Nat /\ celled' \in Nat /\ Frames \subseteq Frames'
  BY LargerFrames DEF Grown
<1>2. x \in Slots'
  BY <1>1 DEF Slots
<1>3. scopes' = [scopes EXCEPT ![Len(scopes)].x = x] /\ open' = open
  BY DEF My
<1> HIDE DEF x
<1>4. scopes' \in Seq(Frames') /\ scopes' # <<>> /\ SameBelow(Marks(scopes), Marks(scopes'))
  BY <1>1, <1>2, <1>3, SetX
<1> QED BY <1>3, <1>4 DEF Kept

\* Promotion to cells changes no variable.
LEMMA NamedKept ==
    ASSUME TypeOK, BackInv, Grown, DefineNamed
    PROVE  Kept
<1>1. /\ scopes' = Promoted /\ celled' = celled + Cardinality(Promote) /\ born' = born
      /\ open' = open
  BY DEF DefineNamed
<1>2. /\ Promoted \in Seq(Frames') /\ Len(Promoted) = Len(scopes)
      /\ \A i \in 1 .. Len(scopes) : MarkOf(Promoted[i]) = MarkOf(scopes[i])
  BY <1>1, PromotedFrames
<1>3. /\ Len(scopes) \in Nat /\ Len(scopes) >= 1 /\ Len(Marks(scopes)) = Len(scopes)
      /\ \A i \in 1 .. Len(scopes) : Marks(scopes)[i] = MarkOf(scopes[i])
  BY ScopesFacts
<1> DEFINE t == Promoted
           n == Len(scopes)
<1> HIDE DEF t, n
<1>4. /\ Len(Marks(t)) = n /\ \A i \in 1 .. n : Marks(t)[i] = MarkOf(t[i])
  BY <1>2, MarksAt DEF t, n
<1>5. \A i \in 1 .. n - 1 : Marks(t)[i] = Marks(scopes)[i]
  <2> TAKE i \in 1 .. n - 1
  <2>1. i \in 1 .. n
    BY <1>3 DEF n
  <2> QED BY <1>2, <1>3, <1>4, <2>1 DEF n, t
<1>6. SameBelow(Marks(scopes), Marks(t))
  BY <1>3, <1>4, <1>5 DEF SameBelow, Agree, n
<1>7. t # <<>>
  BY <1>2, <1>3, EmptySeq DEF t, n
<1>8. scopes' \in Seq(Frames') /\ scopes' # <<>> /\ SameBelow(Marks(scopes), Marks(scopes'))
  BY <1>1, <1>2, <1>6, <1>7 DEF t
<1> QED BY <1>1, <1>8 DEF Kept

\* What leaves both stacks alone.
LEMMA SameKept ==
    ASSUME TypeOK, BackInv, Grown, scopes' = scopes, open' = open
    PROVE  Kept
<1>1. /\ scopes \in Seq(Frames) /\ scopes # <<>> /\ Len(Marks(scopes)) = Len(scopes)
      /\ Frames \subseteq Frames'
  BY ScopesFacts, LargerFrames DEF Grown
<1>2. scopes' \in Seq(Frames') /\ scopes' # <<>>
  <2>1. Seq(Frames) \subseteq Seq(Frames')
    BY <1>1, SeqMonotonic
  <2> QED BY <1>1, <2>1
<1>3. Marks(scopes') = Marks(scopes)
  OBVIOUS
<1>4. SameBelow(Marks(scopes), Marks(scopes'))
  BY <1>3 DEF SameBelow, Agree
<1> QED BY <1>2, <1>4 DEF Kept

\* An item is put in the loop's frame, which is above those around the loop.
LEMMA ItemMoves ==
    ASSUME TypeOK, BackInv, Grown, NextItem
    PROVE  LoopMoved
<1> DEFINE fresh == ~Top.again /\ Top.list # "magic"
           t == IF Top.again THEN scopes ELSE [scopes EXCEPT ![Len(scopes)].x = Item]
           f == Frame(Depth)
           b == Top.back
           F == Frames'
<1>1. /\ open # <<>> /\ Top.kind = "for" /\ Top.at = "head"
      /\ scopes' = Append(t, f)
      /\ open' = [open EXCEPT ![Depth].at = "body", ![Depth].again = FALSE]
      /\ born' = (IF fresh THEN born + 1 ELSE born)
      /\ celled' = (IF fresh THEN celled + 1 ELSE celled)
  BY DEF NextItem, InLoop
<1>2. /\ Depth \in Nat /\ Depth >= 1 /\ Top = open[Depth] /\ Top \in Constructs
      /\ Len(b) >= 1 /\ Inside(Top, Marks(scopes))
  BY <1>1, TopFacts
<1>3. /\ Top.i \in Nat /\ b \in Seq(Mark) /\ Len(b) \in Nat
      /\ Top.again \in BOOLEAN
  <2>1. Top.again \in BOOLEAN
    BY <1>2 DEF Constructs
  <2> QED BY <1>2, <2>1, ConstructFacts
<1>4. Len(Marks(scopes)) = Len(b) + 1 /\ Agree(Marks(scopes), b, Len(b))
  BY <1>1, <1>2 DEF Inside
<1>5. Frames \subseteq F /\ Slots \subseteq Slots' /\ born' \in Nat /\ celled' \in Nat
  BY LargerFrames DEF Grown
<1>6. t \in Seq(F) /\ t # <<>> /\ SameBelow(Marks(scopes), Marks(t))
  <2>1. CASE Top.again
    <3>1. t = scopes
      BY <2>1
    <3>2. scopes \in Seq(Frames) /\ scopes # <<>> /\ Seq(Frames) \subseteq Seq(F)
      BY <1>5, ScopesFacts, SeqMonotonic
    <3> HIDE DEF t
    <3> QED BY <3>1, <3>2 DEF SameBelow, Agree
  <2>2. CASE ~ Top.again
    <3>1. t = [scopes EXCEPT ![Len(scopes)].x = Item]
      BY <2>2
    <3>2. Item \in Slots'
      <4>1. CASE Top.list = "magic"
        <5>1. shared \in Slots
          BY DEF TypeOK
        <5> QED BY <1>5, <4>1, <5>1 DEF Item
      <4>2. CASE Top.list # "magic"
        <5>1. /\ born \in Nat /\ celled \in Nat /\ born' = born + 1 /\ celled' = celled + 1
              /\ Item = [var |-> born + 1, cell |-> celled + 1]
          BY <1>1, <2>2, <4>2 DEF Item, TypeOK
        <5> QED BY <5>1 DEF Slots
      <4> QED BY <4>1, <4>2
    <3> HIDE DEF t
    <3> QED BY <1>5, <3>1, <3>2, SetX
  <2> QED BY <2>1, <2>2
<1>7. f \in F
  <2>1. Depth \in -2 .. MaxDepth /\ Unbound \in Slots
    <3>1. Depth <= MaxDepth /\ MaxDepth \in Nat /\ born \in Nat /\ celled \in Nat
      BY LexicalsAssumption DEF TypeOK
    <3> QED BY <1>2, <3>1 DEF Unbound, Slots
  <2>2. f \in Frames
    BY <2>1 DEF Frame, Frames
  <2> QED BY <1>5, <2>2
<1> HIDE DEF t, f, F, fresh, b
<1>8. /\ scopes' \in Seq(F) /\ scopes' # <<>>
      /\ Len(Marks(scopes')) = Len(Marks(t)) + 1
      /\ Agree(Marks(scopes'), Marks(t), Len(Marks(t)))
  <2>1. /\ Append(t, f) \in Seq(F) /\ Append(t, f) # <<>>
        /\ Len(Marks(Append(t, f))) = Len(Marks(t)) + 1
        /\ Agree(Marks(Append(t, f)), Marks(t), Len(Marks(t)))
    BY <1>6, <1>7, PushedMarks
  <2> QED BY <1>1, <2>1
<1> DEFINE p == Marks(scopes')
           n == Len(b)
<1>9. Len(p) = n + 2 /\ \A i \in 1 .. n : p[i] = b[i]
  <2>1. Len(Marks(t)) = n + 1 /\ (\A i \in 1 .. n : Marks(t)[i] = Marks(scopes)[i])
        /\ (\A i \in 1 .. n : Marks(scopes)[i] = b[i])
    <3>1. Len(Marks(scopes)) - 1 = n
      BY <1>3, <1>4
    <3> HIDE DEF n
    <3> QED BY <1>4, <1>6, <3>1 DEF SameBelow, Agree, n
  <2>2. \A i \in 1 .. n + 1 : p[i] = Marks(t)[i]
    BY <1>8, <2>1 DEF Agree
  <2>3. n \in Nat /\ Len(p) = Len(Marks(t)) + 1
    BY <1>3, <1>8
  <2> HIDE DEF n, p
  <2>4. \A i \in 1 .. n : i \in 1 .. n + 1
    BY <2>3
  <2> QED BY <2>1, <2>2, <2>3, <2>4
<1>10. open' = [open EXCEPT ![Depth].at = "body", ![Depth].i = Top.i, ![Depth].again = FALSE]
  <2>1. open \in Seq(Constructs) /\ Depth \in DOMAIN open
    BY <1>2, LenProperties DEF TypeOK, Depth
  <2>2. open[Depth] \in Constructs
    BY <1>2
  <2> DEFINE c == open[Depth]
             u == [c EXCEPT !.at = "body", !.again = FALSE]
             v == [c EXCEPT !.at = "body", !.i = c.i, !.again = FALSE]
  <2>3. u = v
    BY <2>2 DEF Constructs
  <2>4. /\ open' = [open EXCEPT ![Depth] = u]
        /\ [open EXCEPT ![Depth].at = "body", ![Depth].i = Top.i, ![Depth].again = FALSE]
             = [open EXCEPT ![Depth] = v]
    BY <1>1, <1>2, <2>1
  <2> QED BY <2>3, <2>4
<1>11. /\ Len(Marks(scopes')) = Len(Top.back) + 2
       /\ Agree(Marks(scopes'), Top.back, Len(Top.back))
  BY <1>9 DEF Agree, b
<1> HIDE DEF p, n
<1> QED BY <1>1, <1>3, <1>8, <1>10, <1>11 DEF LoopMoved, F

\* The body's frame goes at its end.
LEMMA BodyMoves ==
    ASSUME TypeOK, BackInv, Grown, BodyEnds
    PROVE  LoopMoved
<1> DEFINE b == Top.back
           t == Front(scopes)
<1>1. /\ open # <<>> /\ Top.kind = "for" /\ Top.at = "body" /\ scopes' = t
  BY DEF BodyEnds, InLoop
<1>2. /\ Top \in Constructs /\ Len(b) >= 1 /\ Inside(Top, Marks(scopes))
  BY <1>1, TopFacts
<1>3. /\ Top.i \in Nat /\ Top.n \in Nat /\ b \in Seq(Mark) /\ Len(b) \in Nat
      /\ Top.cont \in BOOLEAN
  <2>1. Top.cont \in BOOLEAN
    BY <1>2 DEF Constructs
  <2>2. 0 .. MaxItems + 1 \subseteq Nat
    BY LexicalsAssumption
  <2> QED BY <1>2, <2>1, <2>2, ConstructFacts
<1>4. PICK at \in {"head", "continue"}, i \in Nat, again \in BOOLEAN :
         open' = [open EXCEPT ![Depth].at = at, ![Depth].i = i, ![Depth].again = again]
  <2>1. CASE flow = "redo"
    <3>1. Advance("head", Top.i, TRUE)
      BY <2>1 DEF BodyEnds
    <3> QED BY <1>3, <3>1 DEF Advance
  <2>2. CASE flow = "last"
    <3>1. Advance("head", Top.n + 1, FALSE)
      BY <2>2 DEF BodyEnds
    <3>2. Top.n + 1 \in Nat
      BY <1>3
    <3> QED BY <3>1, <3>2 DEF Advance
  <2>3. CASE flow \in {"none", "next"}
    <3>1. Advance(IF Top.cont THEN "continue" ELSE "head",
                  IF Top.cont THEN Top.i ELSE Top.i + 1, FALSE)
      BY <2>3 DEF BodyEnds
    <3>2. Top.i + 1 \in Nat
      BY <1>3
    <3>3. CASE Top.cont
      <4>1. Advance("continue", Top.i, FALSE)
        BY <3>1, <3>3
      <4> QED BY <1>3, <4>1 DEF Advance
    <3>4. CASE ~ Top.cont
      <4>1. Advance("head", Top.i + 1, FALSE)
        BY <3>1, <3>4
      <4> QED BY <3>2, <4>1 DEF Advance
    <3> QED BY <3>3, <3>4
  <2> QED BY <2>1, <2>2, <2>3 DEF BodyEnds
<1>5. Len(Marks(scopes)) = Len(b) + 2 /\ Agree(Marks(scopes), b, Len(b))
  BY <1>1, <1>2 DEF Inside
<1>6. /\ t \in Seq(Frames) /\ Len(t) = Len(scopes) - 1
      /\ (\A j \in 1 .. Len(scopes) - 1 : t[j] = scopes[j])
      /\ Len(scopes) \in Nat /\ Len(Marks(scopes)) = Len(scopes)
      /\ (\A j \in 1 .. Len(scopes) : Marks(scopes)[j] = MarkOf(scopes[j]))
  BY ScopesFacts
<1> DEFINE n == Len(b)
<1> HIDE DEF t, b, n
<1>7. n \in Nat /\ Len(scopes) = n + 2 /\ Len(t) = n + 1
  BY <1>3, <1>5, <1>6 DEF n
<1>8. Len(Marks(t)) = n + 1 /\ \A j \in 1 .. n + 1 : Marks(t)[j] = MarkOf(t[j])
  BY <1>6, <1>7, MarksAt
<1>9. \A j \in 1 .. n : Marks(t)[j] = b[j]
  <2> TAKE j \in 1 .. n
  <2>1. j \in 1 .. n + 1 /\ j \in 1 .. n + 2 /\ j \in 1 .. Len(scopes) - 1
    BY <1>7
  <2>2. Marks(scopes)[j] = b[j]
    BY <1>5 DEF Agree, n
  <2> QED BY <1>6, <1>7, <1>8, <2>1, <2>2
<1>10. t # <<>> /\ t \in Seq(Frames')
  <2>1. Seq(Frames) \subseteq Seq(Frames')
    BY LargerFrames DEF Grown
  <2>2. Len(t) # 0
    BY <1>7
  <2> QED BY <1>6, <2>1, <2>2, EmptySeq
<1>11. /\ scopes' \in Seq(Frames') /\ scopes' # <<>>
       /\ Len(Marks(scopes')) = Len(Top.back) + 1
       /\ Agree(Marks(scopes'), Top.back, Len(Top.back))
  BY <1>1, <1>8, <1>9, <1>10 DEF Agree, b, n
<1> QED BY <1>1, <1>4, <1>11 DEF LoopMoved

\* A continue block has no frame of its own.
LEMMA ContinueMoves ==
    ASSUME TypeOK, BackInv, Grown, ContinueEnds
    PROVE  LoopMoved
<1> DEFINE i == IF flow = "last" THEN Top.n + 1 ELSE Top.i + 1
<1>1. /\ open # <<>> /\ Top.kind = "for" /\ Top.at = "continue" /\ scopes' = scopes
      /\ open' = [open EXCEPT ![Depth].at = "head", ![Depth].i = i, ![Depth].again = FALSE]
  BY DEF ContinueEnds, InLoop, Advance
<1>2. /\ Top \in Constructs /\ Inside(Top, Marks(scopes))
  BY <1>1, TopFacts
<1>3. i \in Nat
  <2>1. Top.i \in Nat /\ Top.n \in Nat
    <3>1. 0 .. MaxItems + 1 \subseteq Nat
      BY LexicalsAssumption
    <3> QED BY <1>2, <3>1, ConstructFacts
  <2> QED BY <2>1
<1>4. /\ Len(Marks(scopes')) = Len(Top.back) + 1
      /\ Agree(Marks(scopes'), Top.back, Len(Top.back))
  BY <1>1, <1>2 DEF Inside
<1>5. scopes' \in Seq(Frames') /\ scopes' # <<>>
  <2>1. Seq(Frames) \subseteq Seq(Frames')
    BY LargerFrames DEF Grown
  <2> QED BY <1>1, <2>1, ScopesFacts
<1> HIDE DEF i
<1> QED BY <1>1, <1>3, <1>4, <1>5 DEF LoopMoved

\* The four things a step does to the two stacks and to currentEnv.
Shaped ==
    \/ \E c : Opened(c) /\ EnvOpened(c)
    \/ /\ Closed
       /\ currentEnv' = IF Top.kind \in SubKinds /\ Top.pre # 0 THEN Top.before ELSE currentEnv
    \/ (LoopMoved \/ Kept) /\ currentEnv' = currentEnv

\* What the interpreter does at the end of a construct.
LEMMA LeaveShaped ==
    ASSUME TypeOK, BackInv, Grown, Leave
    PROVE  Shaped
<1>1. CASE SubReturns
  <2>1. /\ open # <<>> /\ open' = Front(open) /\ Top.kind \in SubKinds
        /\ scopes' = ReturnFrames(Top, scopes)
        /\ currentEnv' = IF Top.pre = 0 THEN currentEnv ELSE Top.before
    BY <1>1 DEF SubReturns, SubKinds
  <2>2. Closed
    BY <2>1, SubCloses
  <2> QED BY <2>1, <2>2 DEF Shaped
<1>2. CASE StringEnds
  <2>1. Top.kind \notin SubKinds /\ currentEnv' = currentEnv
    BY <1>2 DEF StringEnds, SubKinds
  <2>2. Closed
    BY <1>2, StringCloses DEF StringEnds
  <2> QED BY <2>1, <2>2 DEF Shaped
<1>3. CASE DoFileEnds
  <2>1. Top.kind \notin SubKinds /\ currentEnv' = currentEnv
    BY <1>3 DEF DoFileEnds, SubKinds
  <2>2. Closed
    BY <1>3, FileCloses DEF DoFileEnds
  <2> QED BY <2>1, <2>2 DEF Shaped
<1>4. CASE LoadEnds \/ BlockEnds \/ EvalEnds
  <2>1. /\ open # <<>> /\ open' = Front(open) /\ scopes' = Front(scopes)
        /\ Top.kind \in {"block", "eval", "load"} /\ currentEnv' = currentEnv
    BY <1>4 DEF LoadEnds, BlockEnds, EvalEnds
  <2>2. Closed /\ Top.kind \notin SubKinds
    BY <2>1, BlockCloses DEF SubKinds
  <2> QED BY <2>1, <2>2 DEF Shaped
<1>5. CASE LoopEnds
  <2>1. /\ open # <<>> /\ open' = Front(open) /\ scopes' = Front(scopes)
        /\ Top.kind = "for" /\ Top.at = "head" /\ flow = "none" /\ Top.i > Top.n
        /\ currentEnv' = currentEnv
    BY <1>5 DEF LoopEnds, InLoop
  <2>2. Closed /\ Top.kind \notin SubKinds
    BY <2>1, BlockCloses DEF SubKinds
  <2> QED BY <2>1, <2>2 DEF Shaped
<1>6. CASE ItemFreed \/ BodyLeft \/ ContinueLeft
  <2>1. open # <<>> /\ Top.kind = "for" /\ open' = Front(open) /\ currentEnv' = currentEnv
    BY <1>6 DEF ItemFreed, BodyLeft, ContinueLeft, InLoop, LoopLeft
  <2>2. \/ Top.at \in {"head", "continue"} /\ scopes' = RestoreIn(Front(scopes))
        \/ Top.at = "body" /\ scopes' = RestoreIn(Front(Front(scopes)))
    BY <1>6 DEF ItemFreed, BodyLeft, ContinueLeft, InLoop, LoopLeft
  <2>3. Abandons
    BY <1>6, <2>1 DEF ItemFreed, BodyLeft, ContinueLeft, Abandons
  <2>4. Closed /\ Top.kind \notin SubKinds
    BY <2>1, <2>2, <2>3, LoopCloses DEF SubKinds
  <2> QED BY <2>1, <2>4 DEF Shaped
<1>7. CASE SubGoesOn \/ CodeGoesOn \/ GotoLands
  <2>1. scopes' = scopes /\ open' = open /\ currentEnv' = currentEnv
    BY <1>7 DEF SubGoesOn, CodeGoesOn, GotoLands
  <2>2. Kept
    BY <2>1, SameKept
  <2> QED BY <2>1, <2>2 DEF Shaped
<1>8. CASE NextItem
  <2>1. LoopMoved /\ currentEnv' = currentEnv
    BY <1>8, ItemMoves DEF NextItem
  <2> QED BY <2>1 DEF Shaped
<1>9. CASE BodyEnds
  <2>1. currentEnv' = currentEnv
    BY <1>9 DEF BodyEnds, Advance
  <2>2. LoopMoved
    BY <1>9, BodyMoves
  <2> QED BY <2>1, <2>2 DEF Shaped
<1>10. CASE ContinueEnds
  <2>1. currentEnv' = currentEnv
    BY <1>10 DEF ContinueEnds, Advance
  <2>2. LoopMoved
    BY <1>10, ContinueMoves
  <2> QED BY <2>1, <2>2 DEF Shaped
<1> QED
  BY <1>1, <1>2, <1>3, <1>4, <1>5, <1>6, <1>7, <1>8, <1>9, <1>10 DEF Leave

\* Every step.
LEMMA StepShaped ==
    ASSUME TypeOK, BackInv, Grown, [Next]_vars
    PROVE  Shaped
<1>1. CASE Open
  <2>1. \E c : Opened(c) /\ EnvOpened(c)
    BY <1>1, OpenOpens
  <2> QED BY <2>1 DEF Shaped
<1>2. CASE Leave
  BY <1>2, LeaveShaped
<1>3. CASE My
  <2>1. Kept /\ currentEnv' = currentEnv
    BY <1>3, MyKept DEF My
  <2> QED BY <2>1 DEF Shaped
<1>4. CASE DefineNamed
  <2>1. Kept /\ currentEnv' = currentEnv
    BY <1>4, NamedKept DEF DefineNamed
  <2> QED BY <2>1 DEF Shaped
<1>5. CASE \/ Assign \/ Shrink \/ MakeAnon \/ (\E f \in Flows \ {"none", "die"} : Jump(f))
           \/ Over \/ UNCHANGED vars
  <2>1. scopes' = scopes /\ open' = open /\ currentEnv' = currentEnv
    BY <1>5 DEF Assign, Shrink, MakeAnon, Jump, Over, vars
  <2>2. Kept
    BY <2>1, SameKept
  <2> QED BY <2>1, <2>2 DEF Shaped
<1> QED BY <1>1, <1>2, <1>3, <1>4, <1>5 DEF Next, Statement

\* So every step keeps BackInv.
LEMMA StepStacked ==
    ASSUME TypeOK, BackInv, Grown, [Next]_vars
    PROVE  Stacked
<1>1. Shaped
  BY StepShaped
<1>2. CASE \E c : Opened(c)
  BY <1>2, OpenStacked
<1>3. CASE Closed
  BY <1>3, CloseStacked
<1>4. CASE LoopMoved
  BY <1>4, LoopStacked
<1>5. CASE Kept
  BY <1>5, KeptStacked
<1> QED BY <1>1, <1>2, <1>3, <1>4, <1>5 DEF Shaped

-----------------------------------------------------------------------------
(* The other types.                                                        *)

\* The frames an anonymous sub captures.
LEMMA CaptureOf ==
    ASSUME NEW S, scopes \in Seq(S), scopes # <<>>,
           currentEnv # NoEnv => stores[currentEnv] \in Seq(S) /\ stores[currentEnv] # <<>>
    PROVE  Capture \in Seq(S) /\ Capture # <<>>
<1>1. CASE currentEnv = NoEnv
  BY <1>1 DEF Capture
<1>2. CASE currentEnv # NoEnv
  <2> DEFINE s == stores[currentEnv]
             n == Len(s)
             l == Len(scopes)
             t == SubSeq(scopes, n + 1, l)
             u == s \o t
  <2>1. s \in Seq(S) /\ n \in Nat /\ n > 0
    BY <1>2, LastOfSeq
  <2>2. Capture = u
    BY <1>2 DEF Capture
  <2> HIDE DEF s
  <2>3. l \in Nat /\ \A i \in n + 1 .. l : scopes[i] \in S
    BY <2>1, ElementOfSeq, LenProperties
  <2> HIDE DEF n, l
  <2>4. t \in Seq(S)
    <3>1. n + 1 \in Int /\ l \in Int
      BY <2>1, <2>3
    <3> QED BY <2>3, <3>1, SubSeqProperties
  <2> HIDE DEF t
  <2>5. u \in Seq(S) /\ Len(u) = Len(s) + Len(t)
    BY <2>1, <2>4, ConcatProperties
  <2>6. Len(t) \in Nat /\ Len(s) > 0 /\ Len(s) \in Nat
    BY <2>1, <2>4, LenProperties DEF n
  <2> HIDE DEF u
  <2>7. u # <<>>
    BY <2>5, <2>6, EmptySeq
  <2> QED BY <2>2, <2>5, <2>7
<1> QED BY <1>1, <1>2

\* The frames that an anonymous sub captures are frames, and at least one.
LEMMA CaptureFrames ==
    ASSUME TypeOK
    PROVE  Capture \in Seq(Frames) /\ Capture # <<>>
<1>1. scopes \in Seq(Frames) /\ scopes # <<>>
  BY ScopesFacts
<1>2. currentEnv # NoEnv => stores[currentEnv] \in Seq(Frames) /\ stores[currentEnv] # <<>>
  BY EnvFacts DEF TypeOK
<1> QED BY <1>1, <1>2, CaptureOf

\* Variables, cells and environments only increase, and a sub's environment is one of
\* the stores.
LEMMA GrownStep ==
    ASSUME TypeOK, BackInv, [Next]_vars
    PROVE  Grown /\ env' \in [Codes -> Envs']
<1>0. /\ born \in Nat /\ celled \in Nat /\ env \in [Codes -> Envs]
  BY DEF TypeOK
<1>1. ASSUME stores' = stores, env' = env, born' \in Nat, celled' \in Nat, born <= born',
             celled <= celled'
      PROVE  Grown /\ env' \in [Codes -> Envs']
  <2>1. Grown
    BY <1>1, StoresKept
  <2>2. Envs \subseteq Envs'
    BY <2>1, LargerTypes
  <2> QED BY <1>0, <1>1, <2>1, <2>2
<1>2. ASSUME stores' = stores, env' = env, born' = born, celled' = celled
      PROVE  Grown /\ env' \in [Codes -> Envs']
  BY <1>0, <1>1, <1>2
<1>3. ASSUME NEW c, Grown, Len(stores') \in Envs', env' = [env EXCEPT ![c] = Len(stores')]
      PROVE  env' \in [Codes -> Envs']
  <2>1. Envs \subseteq Envs'
    BY <1>3, LargerTypes
  <2> QED BY <1>0, <1>3, <2>1
<1>4. CASE My \/ NextItem
  <2>1. /\ stores' = stores /\ env' = env /\ born' \in {born, born + 1}
        /\ celled' \in {celled, celled + 1}
    BY <1>4 DEF My, NextItem, captured
  <2>2. /\ born' \in Nat /\ celled' \in Nat /\ born <= born' /\ celled <= celled'
    BY <1>0, <2>1
  <2> QED BY <1>1, <2>1, <2>2
<1>5. CASE \E list \in Lists, cont \in BOOLEAN : For(list, cont)
  <2>1. /\ stores' = stores /\ env' = env /\ born' \in {born, born + 1}
        /\ celled' \in {celled, celled + 1}
    BY <1>5 DEF For, captured
  <2>2. /\ born' \in Nat /\ celled' \in Nat /\ born <= born' /\ celled <= celled'
    BY <1>0, <2>1
  <2> QED BY <1>1, <2>1, <2>2
<1>6. CASE MakeAnon
  <2> DEFINE st == Stored(Capture)
  <2>1. /\ stores' = Append(stores, st) /\ born' = born /\ celled' = celled
        /\ env' = [env EXCEPT ![Cardinality(Anons) + 1] = Len(stores')]
    BY <1>6 DEF MakeAnon
  <2>2. Frames' = Frames
    BY <2>1 DEF Frames, Slots
  <2>3. st \in Seq(Frames') /\ st # <<>>
    <3> DEFINE sc == Capture
               F == Frames
    <3>1. sc \in Seq(F) /\ sc # <<>>
      BY CaptureFrames
    <3>2. 0 \in -2 .. MaxDepth /\ st = Relabelled(sc, 0)
      BY LexicalsAssumption DEF Stored, Relabelled
    <3> HIDE DEF sc, st, F
    <3>3. F = [owner : -2 .. MaxDepth, x : Slots]
      BY DEF Frames, F
    <3>4. st \in Seq(F) /\ Len(st) = Len(sc)
      BY <3>1, <3>2, <3>3, RelabelledFrames
    <3>5. st # <<>>
      BY <3>1, <3>4, EmptySeq
    <3> QED BY <2>2, <3>4, <3>5 DEF F
  <2> HIDE DEF st
  <2>4. Grown /\ Len(stores') \in Envs'
    BY <1>0, <2>1, <2>3, StoreAdded
  <2> QED BY <1>3, <2>1, <2>4
<1>7. CASE DefineNamed
  <2> DEFINE st == Stored(Promoted)
  <2>1. /\ stores' = Append(stores, st) /\ born' = born
        /\ celled' = celled + Cardinality(Promote)
        /\ env' = [env EXCEPT ![Named] = Len(stores')]
    BY <1>7 DEF DefineNamed
  <2>2. /\ Promoted \in Seq(Frames') /\ Len(Promoted) = Len(scopes)
        /\ celled' \in Nat /\ celled <= celled'
    BY <2>1, PromotedFrames
  <2>3. st \in Seq(Frames') /\ st # <<>>
    <3> DEFINE sc == Promoted
               F == Frames'
    <3>1. sc \in Seq(F) /\ Len(sc) >= 1
      BY <2>2, ScopesFacts
    <3>2. 0 \in -2 .. MaxDepth /\ st = Relabelled(sc, 0)
      BY LexicalsAssumption DEF Stored, Relabelled
    <3> HIDE DEF sc, st, F
    <3>3. F = [owner : -2 .. MaxDepth, x : Slots']
      BY DEF Frames, F
    <3>4. st \in Seq(F) /\ Len(st) = Len(sc)
      BY <3>1, <3>2, <3>3, RelabelledFrames
    <3>5. st # <<>>
      BY <3>1, <3>4, EmptySeq
    <3> QED BY <3>4, <3>5 DEF F
  <2> HIDE DEF st
  <2>4. Grown /\ Len(stores') \in Envs'
    BY <2>1, <2>2, <2>3, StoreAdded
  <2> QED BY <1>3, <2>1, <2>4
<1>8. CASE SubReturns
  <2>1. /\ open # <<>> /\ Top.kind \in SubKinds /\ env' = env /\ born' = born
        /\ celled' = celled
        /\ stores' = IF Top.pre = 0 THEN stores
                     ELSE [stores EXCEPT ![Top.env] = Stored(SubSeq(scopes, 1, Top.pre))]
    BY <1>8 DEF SubReturns, SubKinds, ghosts
  <2>2. CASE Top.pre = 0
    BY <1>2, <2>1, <2>2
  <2>3. CASE Top.pre # 0
    <3> DEFINE q == Top.pre
               sc == SubSeq(scopes, 1, q)
               st == Stored(sc)
               F == Frames
    <3>1. /\ Top \in Constructs /\ Inside(Top, Marks(scopes)) /\ q \in Nat /\ Top.env \in Envs
          /\ Len(Top.back) \in Nat
      BY <2>1, TopFacts, ConstructFacts
    <3>2. scopes \in Seq(F) /\ Len(scopes) \in Nat /\ Len(Marks(scopes)) = Len(scopes)
      BY ScopesFacts
    <3>3. q <= Len(scopes)
      BY <2>1, <3>1, <3>2 DEF Inside
    <3>4. stores' = [stores EXCEPT ![Top.env] = st] /\ q > 0
      BY <2>1, <2>3, <3>1
    <3> HIDE DEF q
    <3>5. sc \in Seq(F) /\ Len(sc) = q
      BY <3>1, <3>2, <3>3, FirstOfSeq
    <3>6. 0 \in -2 .. MaxDepth /\ st = Relabelled(sc, 0)
      BY LexicalsAssumption DEF Stored, Relabelled
    <3> HIDE DEF sc, st, F
    <3>7. F = [owner : -2 .. MaxDepth, x : Slots]
      BY DEF Frames, F
    <3>8. st \in Seq(F) /\ Len(st) = Len(sc)
      BY <3>5, <3>6, <3>7, RelabelledFrames
    <3>9. st # <<>>
      BY <3>1, <3>4, <3>5, <3>8, EmptySeq
    <3>10. Grown
      BY <2>1, <3>1, <3>4, <3>8, <3>9, StoreWritten DEF F
    <3>11. Envs \subseteq Envs'
      BY <3>10, LargerTypes
    <3> QED BY <1>0, <2>1, <3>10, <3>11
  <2> QED BY <2>2, <2>3
<1>9. CASE (\E kind \in {"block", "eval"} : OpenBlock(kind)) \/ Call \/ EvalString \/ DoFile \/ Load
  <2>1. stores' = stores /\ env' = env /\ born' = born /\ celled' = celled
    BY <1>9 DEF OpenBlock, Call, CallSub, EvalString, DoFile, Load, captured, ghosts
  <2> QED BY <1>2, <2>1
<1>10. CASE Assign \/ Shrink \/ (\E f \in Flows \ {"none", "die"} : Jump(f)) \/ Over \/ UNCHANGED vars
  <2>1. stores' = stores /\ env' = env /\ born' = born /\ celled' = celled
    BY <1>10 DEF Assign, Shrink, Jump, Over, vars, captured, ghosts
  <2> QED BY <1>2, <2>1
<1>11. CASE \/ SubGoesOn \/ StringEnds \/ DoFileEnds \/ LoadEnds \/ CodeGoesOn \/ BlockEnds
            \/ EvalEnds \/ GotoLands \/ LoopEnds
  <2>1. stores' = stores /\ env' = env /\ born' = born /\ celled' = celled
    BY <1>11 DEF SubGoesOn, StringEnds, DoFileEnds, LoadEnds, CodeGoesOn, BlockEnds, EvalEnds,
                 GotoLands, LoopEnds, captured, ghosts
  <2> QED BY <1>2, <2>1
<1>12. CASE ItemFreed \/ BodyEnds \/ BodyLeft \/ ContinueEnds \/ ContinueLeft
  <2>1. stores' = stores /\ env' = env /\ born' = born /\ celled' = celled
    BY <1>12 DEF ItemFreed, BodyEnds, BodyLeft, ContinueEnds, ContinueLeft, LoopLeft, Advance,
                 captured, ghosts
  <2> QED BY <1>2, <2>1
<1> QED BY <1>4, <1>5, <1>6, <1>7, <1>8, <1>9, <1>10, <1>11, <1>12
        DEF Next, Open, Statement, Leave

\* The loops' state: the write-back stays in the array's bound.
LEMMA LoopTypes ==
    ASSUME TypeOK, BackInv, Grown, [Next]_vars
    PROVE  shared' \in Slots' /\ array' \in 0 .. MaxItems
<1>0. /\ born \in Nat /\ celled \in Nat /\ shared \in Slots /\ array \in 0 .. MaxItems
      /\ MaxItems \in Nat
  BY LexicalsAssumption DEF TypeOK
<1>1. Slots \subseteq Slots' /\ born' \in Nat /\ celled' \in Nat
  BY LargerFrames DEF Grown
<1>2. Unbound \in Slots'
  BY <1>1 DEF Unbound, Slots
<1>3. CASE \E list \in Lists, cont \in BOOLEAN : For(list, cont)
  <2>1. PICK list \in Lists, cont \in BOOLEAN : For(list, cont)
    BY <1>3
  <2> DEFINE owns == list = "magic" /\ shared = Unbound
  <2>2. /\ array' = array
        /\ shared' = IF owns THEN [var |-> born + 1, cell |-> celled + 1] ELSE shared
        /\ born' = IF owns THEN born + 1 ELSE born
        /\ celled' = IF owns THEN celled + 1 ELSE celled
    BY <2>1 DEF For
  <2>3. CASE owns
    <3>1. /\ shared' = [var |-> born + 1, cell |-> celled + 1]
          /\ born' = born + 1 /\ celled' = celled + 1
      BY <2>2, <2>3
    <3>2. shared' \in Slots'
      BY <1>0, <1>1, <3>1 DEF Slots
    <3> QED BY <1>0, <2>2, <3>2
  <2>4. CASE ~ owns
    BY <1>0, <1>1, <2>2, <2>4
  <2> QED BY <2>3, <2>4
<1>4. CASE LoopEnds
  BY <1>0, <1>1, <1>2, <1>4 DEF LoopEnds
<1>5. CASE BodyEnds \/ BodyLeft
  <2>1. array' = WriteBack /\ shared' = shared /\ open # <<>>
    <3>1. CASE BodyLeft
      BY <3>1 DEF BodyLeft, InLoop, LoopLeft
    <3>2. CASE BodyEnds
      BY <3>2 DEF BodyEnds, InLoop, Advance
    <3> QED BY <1>5, <3>1, <3>2
  <2>2. WriteBack \in 0 .. MaxItems
    <3>1. CASE Top.list = "mixed" /\ Top.i < Top.n
      <4>1. Top.i \in Nat /\ Top.n \in 0 .. MaxItems + 1
        BY <2>1, TopFacts, ConstructFacts
      <4> DEFINE i == Top.i
                 m == Max({array, i})
      <4>2. i \in 0 .. MaxItems
        BY <1>0, <3>1, <4>1
      <4> HIDE DEF i
      <4>3. m \in {array, i}
        <5>1. \E x \in {array, i} : \A y \in {array, i} : x >= y
          BY <1>0, <4>2
        <5> QED BY <5>1 DEF Max
      <4>4. WriteBack = m
        BY <3>1 DEF WriteBack, i
      <4> HIDE DEF m
      <4> QED BY <1>0, <4>2, <4>3, <4>4
    <3>2. CASE ~ (Top.list = "mixed" /\ Top.i < Top.n)
      BY <1>0, <3>2 DEF WriteBack
    <3> QED BY <3>1, <3>2
  <2> QED BY <1>0, <1>1, <2>1, <2>2
<1>6. CASE Shrink
  BY <1>0, <1>1, <1>6, SMTT(30) DEF Shrink
<1>7. CASE (\E kind \in {"block", "eval"} : OpenBlock(kind)) \/ Call \/ EvalString \/ DoFile \/ Load
  BY <1>0, <1>1, <1>7 DEF OpenBlock, Call, CallSub, EvalString, DoFile, Load, loops
<1>8. CASE \/ My \/ Assign \/ MakeAnon \/ DefineNamed
           \/ (\E f \in Flows \ {"none", "die"} : Jump(f)) \/ Over \/ UNCHANGED vars
  BY <1>0, <1>1, <1>8 DEF My, Assign, MakeAnon, DefineNamed, Jump, Over, vars, loops
<1>9. CASE \/ SubReturns \/ SubGoesOn \/ StringEnds \/ DoFileEnds \/ LoadEnds \/ CodeGoesOn
           \/ BlockEnds \/ EvalEnds \/ GotoLands \/ NextItem
  BY <1>0, <1>1, <1>9 DEF SubReturns, SubGoesOn, StringEnds, DoFileEnds, LoadEnds, CodeGoesOn,
                          BlockEnds, EvalEnds, GotoLands, NextItem, loops
<1>10. CASE ItemFreed \/ ContinueEnds \/ ContinueLeft
  BY <1>0, <1>1, <1>10 DEF ItemFreed, ContinueEnds, ContinueLeft, LoopLeft, Advance
<1> QED BY <1>3, <1>4, <1>5, <1>6, <1>7, <1>8, <1>9, <1>10 DEF Next, Open, Statement, Leave

\* The required file's scope and the environment of the running sub.
LEMMA FileTypes ==
    ASSUME TypeOK, BackInv, Grown, [Next]_vars
    PROVE  fileScope' \in Frames' /\ currentEnv' \in Envs'
<1>0. /\ fileScope \in Frames /\ currentEnv \in Envs /\ env \in [Codes -> Envs]
      /\ born \in Nat /\ celled \in Nat /\ MaxDepth \in Nat
  BY LexicalsAssumption DEF TypeOK
<1>1. Frames \subseteq Frames' /\ Envs \subseteq Envs'
  BY LargerFrames, LargerTypes DEF Grown
<1>2. CASE Call
  <2>1. PICK c \in Anons \cup {Named, Filed} : CallSub(c)
    BY <1>2 DEF Call
  <2>2. c \in Codes
    BY <2>1, LexicalsAssumption, SMTT(30) DEF Anons, Codes, Named, Filed
  <2>3. currentEnv' \in {currentEnv, env[c]} /\ fileScope' \in {Out, fileScope}
    BY <2>1 DEF CallSub
  <2>4. Out \in Frames
    <3>1. Unbound \in Slots /\ -2 \in -2 .. MaxDepth
      BY <1>0 DEF Unbound, Slots
    <3> QED BY <3>1 DEF Out, Frame, Frames
  <2>5. env[c] \in Envs
    BY <1>0, <2>2
  <2> QED BY <1>0, <1>1, <2>3, <2>4, <2>5
<1>3. CASE SubReturns
  <2>1. /\ open # <<>> /\ Top.kind \in SubKinds
        /\ currentEnv' = (IF Top.pre = 0 THEN currentEnv ELSE Top.before)
        /\ fileScope' = IF Top.file THEN [scopes[Len(scopes) - 1] EXCEPT !.owner = 0]
                        ELSE fileScope
    BY <1>3 DEF SubReturns, SubKinds
  <2>2. /\ Top \in Constructs /\ Inside(Top, Marks(scopes)) /\ Top.before \in Envs
        /\ Top.pre \in Nat /\ Len(Top.back) \in Nat /\ Len(Top.back) >= 1
    BY <2>1, TopFacts, ConstructFacts
  <2>3. /\ Len(scopes) \in Nat /\ Len(Marks(scopes)) = Len(scopes)
        /\ \A i \in 1 .. Len(scopes) : scopes[i] \in Frames
    BY ScopesFacts
  <2>4. CASE Top.file
    <3>1. Len(scopes) >= 2
      BY <2>1, <2>2, <2>3, <2>4 DEF Inside
    <3> DEFINE f == scopes[Len(scopes) - 1]
    <3>2. f \in Frames
      BY <2>3, <3>1
    <3>3. fileScope' = [f EXCEPT !.owner = 0]
      BY <2>1, <2>4
    <3> HIDE DEF f
    <3>4. fileScope' \in Frames
      BY <1>0, <3>2, <3>3 DEF Frames
    <3> QED BY <1>0, <1>1, <2>1, <2>2, <3>4
  <2>5. CASE ~ Top.file
    BY <1>0, <1>1, <2>1, <2>2, <2>5
  <2> QED BY <2>4, <2>5
<1>4. CASE LoadEnds
  <2>1. fileScope' = [Last(scopes) EXCEPT !.owner = 0] /\ currentEnv' = currentEnv
    BY <1>4 DEF LoadEnds
  <2>2. Last(scopes) \in Frames
    BY ScopesFacts
  <2>3. fileScope' \in Frames
    BY <1>0, <2>1, <2>2 DEF Frames
  <2> QED BY <1>0, <1>1, <2>1, <2>3
<1>5. CASE (\E kind \in {"block", "eval"} : OpenBlock(kind)) \/ EvalString \/ DoFile \/ Load
           \/ (\E list \in Lists, cont \in BOOLEAN : For(list, cont))
  BY <1>0, <1>1, <1>5 DEF OpenBlock, EvalString, DoFile, Load, For
<1>6. CASE \/ My \/ Assign \/ Shrink \/ MakeAnon \/ DefineNamed
           \/ (\E f \in Flows \ {"none", "die"} : Jump(f)) \/ Over \/ UNCHANGED vars
  BY <1>0, <1>1, <1>6 DEF My, Assign, Shrink, MakeAnon, DefineNamed, Jump, Over, vars
<1>7. CASE \/ SubGoesOn \/ StringEnds \/ DoFileEnds \/ CodeGoesOn
           \/ BlockEnds \/ EvalEnds \/ GotoLands \/ LoopEnds \/ NextItem
  BY <1>0, <1>1, <1>7 DEF SubGoesOn, StringEnds, DoFileEnds, CodeGoesOn,
                          BlockEnds, EvalEnds, GotoLands, LoopEnds, NextItem
<1>8. CASE ItemFreed \/ BodyEnds \/ BodyLeft \/ ContinueEnds \/ ContinueLeft
  BY <1>0, <1>1, <1>8 DEF ItemFreed, BodyEnds, BodyLeft, ContinueEnds, ContinueLeft, LoopLeft,
                          Advance
<1> QED BY <1>2, <1>3, <1>4, <1>5, <1>6, <1>7, <1>8 DEF Next, Open, Statement, Leave

\* What a statement returns, the marks and the fuel.
LEMMA FlowTypes ==
    ASSUME TypeOK, [Next]_vars
    PROVE  flow' \in Flows /\ parked' \in BOOLEAN /\ readonly' \in BOOLEAN /\ fuel' \in 0 .. MaxFuel
<1>0. /\ flow \in Flows /\ parked \in BOOLEAN /\ readonly \in BOOLEAN /\ fuel \in 0 .. MaxFuel
      /\ MaxFuel \in Nat
  BY LexicalsAssumption DEF TypeOK
<1>1. fuel > 0 => fuel - 1 \in 0 .. MaxFuel
  BY <1>0
<1> HIDE DEF Flows
<1>2. {"none", "die", "exit", "goto", "next", "last"} \subseteq Flows
  BY SMTT(30) DEF Flows
<1>3. CASE (\E kind \in {"block", "eval"} : OpenBlock(kind)) \/ Call \/ EvalString \/ DoFile \/ Load
           \/ (\E list \in Lists, cont \in BOOLEAN : For(list, cont))
  BY <1>0, <1>1, <1>3 DEF OpenBlock, Call, CallSub, EvalString, DoFile, Load, For, Opens,
                          Running, Spend, loops
<1>4. CASE My \/ Shrink \/ MakeAnon \/ DefineNamed \/ (\E f \in Flows \ {"none", "die"} : Jump(f))
  BY <1>0, <1>1, <1>4 DEF My, Shrink, MakeAnon, DefineNamed, Jump, Running, Spend, loops
<1>5. CASE Assign \/ Over \/ UNCHANGED vars
  BY <1>0, <1>2, <1>5 DEF Assign, Over, vars, loops
<1>6. CASE \/ SubReturns \/ SubGoesOn \/ StringEnds \/ DoFileEnds \/ LoadEnds \/ CodeGoesOn
           \/ BlockEnds
  BY <1>0, <1>2, <1>6 DEF SubReturns, SubGoesOn, StringEnds, DoFileEnds, LoadEnds, CodeGoesOn,
                          BlockEnds, loops
<1>7. CASE EvalEnds \/ GotoLands \/ LoopEnds \/ NextItem
  BY <1>0, <1>2, <1>7 DEF EvalEnds, GotoLands, LoopEnds, NextItem, loops
<1>8. CASE BodyEnds \/ ContinueEnds \/ ContinueLeft \/ ItemFreed
  BY <1>0, <1>2, <1>8 DEF BodyEnds, ContinueEnds, ContinueLeft, ItemFreed, LoopLeft, Advance
<1>9. CASE BodyLeft
  BY <1>0, <1>2, <1>9 DEF BodyLeft, LoopLeft
<1> QED BY <1>3, <1>4, <1>5, <1>6, <1>7, <1>8, <1>9 DEF Next, Open, Statement, Leave

-----------------------------------------------------------------------------
(* The invariant.                                                          *)

FrameInv == TypeOK /\ BackInv

\* At the start nothing is open.
LEMMA FrameInit == Init => FrameInv
<1> SUFFICES ASSUME Init PROVE FrameInv
  OBVIOUS
<1>1. MaxAnon \in Nat /\ MaxItems \in Nat /\ MaxDepth \in Nat /\ MaxFuel \in Nat
  BY LexicalsAssumption
<1>2. scopes = <<Frame(0)>> /\ open = <<>> /\ stores = <<>> /\ born = 0 /\ celled = 0
  BY DEF Init
<1>3. Unbound \in Slots
  BY <1>2 DEF Unbound, Slots
<1>4. Frame(0) \in Frames /\ NoFrame \in Frames
  BY <1>1, <1>3 DEF NoFrame, Frame, Frames
<1>5. scopes \in Seq(Frames) /\ scopes # <<>>
  <2> DEFINE f == Frame(0)
  <2> HIDE DEF f
  <2>1. f \in Frames /\ scopes = <<f>>
    BY <1>2, <1>4 DEF f
  <2> QED BY <2>1
<1>6. open \in Seq(Constructs) /\ Depth = 0
  BY <1>2, EmptySeq DEF Depth
<1>7. stores \in Seq(Seq(Frames) \ {<<>>})
  BY <1>2, EmptySeq
<1>8. env \in [Codes -> Envs] /\ currentEnv \in Envs
  BY DEF Init, Envs
<1>9. BackInv
  BY <1>2, <1>6 DEF BackInv, Chain, Depth
<1>10. /\ flow \in Flows /\ parked \in BOOLEAN /\ fileScope \in Frames /\ readonly \in BOOLEAN
       /\ shared \in Slots /\ array \in 0 .. MaxItems /\ fuel \in 0 .. MaxFuel
       /\ born \in Nat /\ celled \in Nat
  <2>1. flow = "none" /\ parked = FALSE /\ readonly = FALSE /\ array = MaxItems /\ fuel = MaxFuel
    BY DEF Init
  <2>2. fileScope = NoFrame /\ shared = Unbound
    BY DEF Init
  <2>3. array \in 0 .. MaxItems /\ fuel \in 0 .. MaxFuel
    BY <1>1, <2>1
  <2>4. flow \in Flows /\ parked \in BOOLEAN /\ readonly \in BOOLEAN
    BY <2>1 DEF Flows
  <2> QED BY <1>2, <1>3, <1>4, <2>2, <2>3, <2>4
<1>11. TypeOK
  BY <1>1, <1>5, <1>6, <1>7, <1>8, <1>10 DEF TypeOK
<1> QED BY <1>9, <1>11 DEF FrameInv

\* The invariant is kept by every step, and what a construct's end leaves follows from it.
LEMMA FrameStep == FrameInv /\ [Next]_vars => FrameInv' /\ Stacked
<1> SUFFICES ASSUME FrameInv, [Next]_vars PROVE FrameInv' /\ Stacked
  OBVIOUS
<1>1. TypeOK /\ BackInv
  BY DEF FrameInv
<1>2. Grown /\ env' \in [Codes -> Envs']
  BY <1>1, GrownStep
<1>3. Stacked
  BY <1>1, <1>2, StepStacked
<1>4. shared' \in Slots' /\ array' \in 0 .. MaxItems
  BY <1>1, <1>2, LoopTypes
<1>5. fileScope' \in Frames' /\ currentEnv' \in Envs'
  BY <1>1, <1>2, FileTypes
<1>6. flow' \in Flows /\ parked' \in BOOLEAN /\ readonly' \in BOOLEAN /\ fuel' \in 0 .. MaxFuel
  BY <1>1, FlowTypes
<1>7. TypeOK'
  <2>1. /\ scopes' \in Seq(Frames') /\ scopes' # <<>>
        /\ open' \in Seq(Constructs') /\ Depth' <= MaxDepth
    BY <1>3 DEF Stacked, Depth
  <2>2. stores' \in Seq(Seq(Frames') \ {<<>>}) /\ born' \in Nat /\ celled' \in Nat
    BY <1>2 DEF Grown
  <2> QED BY <1>2, <1>4, <1>5, <1>6, <2>1, <2>2 DEF TypeOK
<1>8. BackInv'
  BY <1>3 DEF Stacked
<1> QED BY <1>3, <1>7, <1>8 DEF FrameInv

\* FrameInv is invariant.
LEMMA FrameInvariant == Spec => []FrameInv
<1>1. FrameInv /\ [Next]_vars => FrameInv'
  BY FrameStep
<1> QED BY <1>1, FrameInit, PTL DEF Spec

\* Every slot is of a variable declared before, which shares a cell made before or none;
\* every environment a sub or a construct names exists and holds frames.
THEOREM TypeCorrect == Spec => []TypeOK
<1>1. FrameInv => TypeOK
  BY DEF FrameInv
<1> QED BY <1>1, FrameInvariant, PTL

\* Blocks, calls, evals, files and loops leave the frames of the code around them.
THEOREM FramesAreBack == Spec => FramesBack
<1>1. FrameInv /\ [Next]_vars => (Len(open') < Depth => Marks(scopes') = Around)
  BY FrameStep DEF Stacked
<1>2. FrameInv /\ [Next]_vars => [Len(open') < Depth => Marks(scopes') = Around]_vars
  BY <1>1
<1> QED BY <1>2, FrameInvariant, PTL DEF Spec, FramesBack

-----------------------------------------------------------------------------
(* Every step keeps the environments.                                      *)

\* currentEnv is the innermost environment, and its variables are those of the lowest
\* frames as long as nothing above takes frames away.
EnvInv == Nested(open, currentEnv) /\ Prefix(open, Marks(scopes), stores)

\* What the stores are.
LEMMA StoreLens ==
    ASSUME TypeOK
    PROVE  \A e \in DOMAIN stores : stores[e] \in Seq(Frames) /\ Len(stores[e]) \in Nat
<1> TAKE e \in DOMAIN stores
<1>1. e \in Envs /\ stores \in Seq(Seq(Frames) \ {<<>>})
  BY DEF TypeOK, Envs
<1>2. stores[e] \in Seq(Frames) \ {<<>>}
  BY <1>1
<1> QED BY <1>2, LenProperties

\* Stores that stay or of which there is one more keep their variables,
LEMMA SameStores ==
    ASSUME NEW st
    PROVE  SameVars(st, st)
BY DEF SameVars

\* (a new one is the last)
LEMMA MoreStores ==
    ASSUME NEW S, NEW st \in Seq(S), NEW v
    PROVE  SameVars(st, Append(st, v))
<1> DEFINE u == Append(st, v)
           n == Len(st)
           T == S \cup {v}
<1>0. st \in Seq(T) /\ v \in T
  <2>1. S \subseteq T
    OBVIOUS
  <2> HIDE DEF T
  <2>2. st \in Seq(T)
    BY <2>1, SeqMonotonic
  <2> QED BY <2>2 DEF T
<1> HIDE DEF T
<1>1. /\ n \in Nat /\ DOMAIN st = 1 .. n /\ u \in Seq(T) /\ Len(u) = n + 1
      /\ \A i \in 1 .. n : u[i] = st[i]
  BY <1>0, AppendToSeq, LenProperties
<1> HIDE DEF u
<1>2. DOMAIN u = 1 .. n + 1
  <2>1. DOMAIN u = 1 .. Len(u)
    BY <1>1, LenProperties
  <2> QED BY <1>1, <2>1
<1> HIDE DEF n
<1>3. \A e \in DOMAIN st : e \in DOMAIN u /\ u[e] = st[e]
  BY <1>1, <1>2
<1>4. SameVars(st, u)
  BY <1>3 DEF SameVars
<1> QED BY <1>4 DEF u

\* and so does the one that a sub's end writes back: its lowest frames are the
\* environment still.
LEMMA WrittenStore ==
    ASSUME TypeOK, BackInv, EnvInv, open # <<>>, Top.kind \in SubKinds, Top.pre # 0,
           stores' = [stores EXCEPT ![Top.env] = Stored(SubSeq(scopes, 1, Top.pre))]
    PROVE  SameVars(stores, stores')
<1> DEFINE q == Top.pre
           e == Top.env
           m == Marks(scopes)
           sc == SubSeq(scopes, 1, q)
           st == Stored(sc)
<1>1. /\ Depth \in Nat /\ Depth >= 1 /\ Top = open[Depth] /\ Top \in Constructs /\ q \in Nat
      /\ Depth = Len(open)
  BY TopFacts, ConstructFacts DEF Depth
<1>2. /\ e \in DOMAIN stores /\ q = Len(stores[e]) /\ Covers(m, stores[e])
  <2>1. Depth \in 1 .. Len(open) /\ open[Depth].pre > 0 /\ Depth \in Depth .. Len(open)
    BY <1>1
  <2>2. \A l \in Depth + 1 .. Depth : ~ Cuts(open[l])
    BY <1>1
  <2>3. Level(open, m, Depth) = m
    BY <1>1 DEF Level
  <2>4. Prefix(open, m, stores)
    BY DEF EnvInv
  <2> HIDE DEF m
  <2>5. /\ open[Depth].env \in DOMAIN stores
        /\ open[Depth].pre = Len(stores[open[Depth].env])
        /\ Covers(Level(open, m, Depth), stores[open[Depth].env])
    BY <2>1, <2>2, <2>4 DEF Prefix
  <2> QED BY <1>1, <2>3, <2>5
<1>3. /\ scopes \in Seq(Frames) /\ Len(scopes) \in Nat /\ Len(m) = Len(scopes)
      /\ \A i \in 1 .. Len(scopes) : m[i] = MarkOf(scopes[i])
  BY ScopesFacts
<1>4. q < Len(scopes) /\ \A i \in 1 .. q : m[i].var = stores[e][i].x.var
  BY <1>2, <1>3 DEF Covers
<1> HIDE DEF q, m, e
<1>5. sc \in Seq(Frames) /\ Len(sc) = q /\ \A i \in 1 .. q : sc[i] = scopes[i]
  BY <1>1, <1>3, <1>4, FirstOfSeq
<1> HIDE DEF sc
<1>6. Len(st) = q /\ \A i \in 1 .. q : st[i].x = sc[i].x
  <2> DEFINE F == Frames
  <2>1. F = [owner : -2 .. MaxDepth, x : Slots] /\ st = Relabelled(sc, 0)
        /\ 0 \in -2 .. MaxDepth /\ sc \in Seq(F)
    BY <1>5, LexicalsAssumption DEF Frames, Stored, Relabelled
  <2> HIDE DEF F, st
  <2>2. st \in Seq(F) /\ Len(st) = Len(sc)
    BY <2>1, RelabelledFrames
  <2>3. ASSUME NEW i \in 1 .. q PROVE st[i].x = sc[i].x
    <3>1. sc[i] \in [owner : -2 .. MaxDepth, x : Slots] /\ i \in DOMAIN sc
      BY <1>5, <2>1, ElementOfSeq, LenProperties
    <3> DEFINE f == sc[i]
    <3>2. "x" \in DOMAIN f /\ f = [k \in DOMAIN f |-> f[k]]
      BY <3>1
    <3>3. Relabelled(sc, 0)[i].x = f.x
      BY <3>1, <3>2, RelabelledSlots
    <3> QED BY <2>1, <3>3
  <2> QED BY <1>5, <2>2, <2>3 DEF st
<1> HIDE DEF st
<1>7. \A i \in 1 .. q : st[i].x.var = stores[e][i].x.var
  <2> TAKE i \in 1 .. q
  <2>1. i \in 1 .. Len(scopes)
    BY <1>1, <1>3, <1>4 DEF q
  <2>2. m[i].var = scopes[i].x.var
    <3>1. m[i] = MarkOf(scopes[i])
      BY <1>3, <2>1
    <3> QED BY <3>1 DEF MarkOf
  <2>3. st[i].x = scopes[i].x
    BY <1>5, <1>6
  <2>4. m[i].var = stores[e][i].x.var
    BY <1>4
  <2> QED BY <2>2, <2>3, <2>4
<1>8. stores' = [stores EXCEPT ![e] = st]
  BY DEF e, st, sc, q
<1>9. ASSUME NEW d \in DOMAIN stores
      PROVE  /\ d \in DOMAIN stores' /\ Len(stores'[d]) = Len(stores[d])
             /\ \A i \in 1 .. Len(stores[d]) : stores'[d][i].x.var = stores[d][i].x.var
  <2>1. CASE d = e
    BY <1>2, <1>6, <1>7, <1>8, <2>1
  <2>2. CASE d # e
    BY <1>8, <2>2
  <2> QED BY <2>1, <2>2
<1> QED BY <1>9 DEF SameVars

\* What the stores become: only a new sub adds one and only a sub's end writes one.
LEMMA StoreChanges ==
    ASSUME [Next]_vars, stores' # stores
    PROVE  MakeAnon \/ DefineNamed \/ SubReturns
<1>1. ~ UNCHANGED vars /\ ~ Over
  BY DEF Over, vars
<1>2. ~ Open
  <2>1. ~ ((\E kind \in {"block", "eval"} : OpenBlock(kind)) \/ EvalString \/ DoFile \/ Load)
    BY DEF OpenBlock, EvalString, DoFile, Load, captured
  <2>2. ~ Call /\ ~ (\E list \in Lists, cont \in BOOLEAN : For(list, cont))
    BY DEF Call, CallSub, For, captured
  <2> QED BY <2>1, <2>2 DEF Open
<1>3. ~ (My \/ Assign \/ Shrink \/ (\E f \in Flows \ {"none", "die"} : Jump(f)))
  BY DEF My, Assign, Shrink, Jump, captured
<1>4. ~ (\/ SubGoesOn \/ StringEnds \/ DoFileEnds \/ LoadEnds \/ CodeGoesOn \/ BlockEnds
         \/ EvalEnds \/ GotoLands \/ LoopEnds)
  BY DEF SubGoesOn, StringEnds, DoFileEnds, LoadEnds, CodeGoesOn, BlockEnds, EvalEnds,
         GotoLands, LoopEnds, captured
<1>5. ~ (ItemFreed \/ NextItem \/ BodyEnds \/ BodyLeft \/ ContinueEnds \/ ContinueLeft)
  BY DEF ItemFreed, NextItem, BodyEnds, BodyLeft, ContinueEnds, ContinueLeft, LoopLeft, Advance,
         captured
<1> QED BY <1>1, <1>2, <1>3, <1>4, <1>5 DEF Next, Statement, Leave

\* So no step changes the variables of an environment.
LEMMA StepStores ==
    ASSUME TypeOK, BackInv, EnvInv, [Next]_vars
    PROVE  SameVars(stores, stores')
<1>1. CASE stores' = stores
  BY <1>1, SameStores
<1>2. CASE MakeAnon \/ DefineNamed
  <2>1. PICK v : stores' = Append(stores, v)
    BY <1>2 DEF MakeAnon, DefineNamed
  <2>2. stores \in Seq(Seq(Frames) \ {<<>>})
    BY DEF TypeOK
  <2>3. SameVars(stores, Append(stores, v))
    BY <2>2, MoreStores
  <2> QED BY <2>1, <2>3
<1>3. CASE SubReturns /\ stores' # stores
  <2>1. /\ open # <<>> /\ Top.kind \in SubKinds /\ Top.pre # 0
        /\ stores' = [stores EXCEPT ![Top.env] = Stored(SubSeq(scopes, 1, Top.pre))]
    BY <1>3 DEF SubReturns, SubKinds
  <2> QED BY <2>1, WrittenStore
<1> QED BY <1>1, <1>2, <1>3, StoreChanges

\* A construct is opened,
LEMMA EnvOpens ==
    ASSUME TypeOK, BackInv, EnvInv, Grown, NEW c, Opened(c), EnvOpened(c)
    PROVE  EnvInv'
<1> DEFINE C == Constructs'
           s == open
           o == Marks(scopes)
           p == Marks(scopes')
           st == stores
           t == Append(s, c)
<1>1. s \in Seq(C) /\ c \in C /\ open' = t /\ stores' = st /\ Sound(c) /\ c.back = o
      /\ Inside(c, p)
  <2>1. open \in Seq(Constructs) /\ Constructs \subseteq C
    BY LargerTypes DEF TypeOK
  <2>2. s \in Seq(C)
    BY <2>1, SeqMonotonic
  <2> QED BY <2>2 DEF Opened, EnvOpened
<1>2. c.kind \in Kinds /\ c.pre \in Nat
  BY <1>1 DEF Constructs
<1>3. Len(o) \in Nat /\ Len(p) \in Nat /\ \A e \in DOMAIN st : Len(st[e]) \in Nat
  <2>1. Len(o) \in Nat /\ \A e \in DOMAIN st : Len(st[e]) \in Nat
    BY ScopesFacts, StoreLens
  <2>2. scopes' \in Seq(Frames')
    BY DEF Opened
  <2>3. Len(p) \in Nat
    BY <2>2, MarksAt
  <2> QED BY <2>1, <2>3
<1>4. Nested(s, currentEnv) /\ Prefix(s, o, st)
  BY DEF EnvInv
<1>5. currentEnv' = IF c.pre = 0 THEN currentEnv ELSE c.env
  BY DEF EnvOpened
<1>6. c.pre > 0 => /\ c.env # NoEnv /\ c.before = currentEnv /\ c.env \in DOMAIN st
                   /\ c.pre = Len(st[c.env]) /\ Covers(p, st[c.env])
  BY DEF EnvOpened
<1> HIDE DEF C, o, p, st, s
<1>7. Nested(t, currentEnv')
  BY <1>1, <1>2, <1>4, <1>5, <1>6, NestedOpens
<1>8. Prefix(t, p, st)
  BY <1>1, <1>2, <1>3, <1>4, <1>6, PrefixOpens
<1> QED BY <1>1, <1>7, <1>8 DEF EnvInv, p, s

\* closed,
LEMMA EnvCloses ==
    ASSUME TypeOK, BackInv, EnvInv, Closed, SameVars(stores, stores'),
           currentEnv' = IF Top.kind \in SubKinds /\ Top.pre # 0 THEN Top.before ELSE currentEnv
    PROVE  EnvInv'
<1> DEFINE C == Constructs
           s == open
           o == Marks(scopes)
           p == Marks(scopes')
           st == stores
           t == Front(s)
<1>1. s \in Seq(C) /\ s # <<>> /\ open' = t /\ Last(s) = Top
  BY DEF TypeOK, Closed, Top
<1>2. SameBelow(Last(s).back, p) /\ Len(Last(s).back) \in Nat
  <2>1. open # <<>> /\ Marks(scopes') = Around
    BY DEF Closed
  <2>2. SameBelow(Top.back, Marks(scopes')) /\ Top \in Constructs
    BY <2>1, AroundBelow, TopFacts
  <2> QED BY <1>1, <2>2, ConstructFacts
<1>3. (\A c \in C : c.pre \in Nat) /\ \A e \in DOMAIN st : Len(st[e]) \in Nat
  BY ConstructFacts, StoreLens
<1>4. Nested(s, currentEnv) /\ Prefix(s, o, st)
  BY DEF EnvInv
<1>5. currentEnv' = IF Last(s).pre = 0 THEN currentEnv ELSE Last(s).before
  <2>1. Len(s) \in 1 .. Len(s) /\ Last(s) = s[Len(s)]
    BY <1>1, LastOfSeq
  <2>2. Sound(Last(s)) /\ Last(s).pre \in Nat
    BY <1>1, <1>3, <1>4, <2>1, LastOfSeq DEF Nested
  <2>3. Last(s).pre # 0 => Last(s).kind \in SubKinds
    BY <2>2 DEF Sound
  <2> QED BY <1>1, <2>3
<1> HIDE DEF C, o, p, st, s
<1>6. Nested(t, currentEnv')
  BY <1>1, <1>3, <1>4, <1>5, NestedCloses
<1>7. Prefix(t, p, st)
  BY <1>1, <1>2, <1>3, <1>4, PrefixCloses
<1>8. Prefix(t, p, stores')
  <2>1. SameVars(st, stores')
    BY DEF st
  <2> HIDE DEF t
  <2> QED BY <1>7, <2>1, PrefixStores
<1> QED BY <1>1, <1>6, <1>8 DEF EnvInv, p

\* or stays,
LEMMA EnvStays ==
    ASSUME TypeOK, BackInv, EnvInv, Kept, SameVars(stores, stores'), currentEnv' = currentEnv
    PROVE  EnvInv'
<1> DEFINE o == Marks(scopes)
           p == Marks(scopes')
<1>1. open \in Seq(Constructs) /\ open' = open /\ SameBelow(o, p) /\ Len(o) \in Nat
  BY ScopesFacts DEF TypeOK, Kept
<1>2. \A e \in DOMAIN stores : Len(stores[e]) \in Nat
  BY StoreLens
<1>3. Nested(open, currentEnv) /\ Prefix(open, o, stores)
  BY DEF EnvInv
<1> HIDE DEF o, p
<1>4. Prefix(open, p, stores)
  BY <1>1, <1>2, <1>3, PrefixTop
<1>5. Prefix(open, p, stores')
  BY <1>4, PrefixStores
<1> QED BY <1>1, <1>3, <1>5 DEF EnvInv, p

\* and a loop that goes on is one that ends and another that begins at the same place.
LEMMA EnvMoves ==
    ASSUME TypeOK, BackInv, EnvInv, LoopMoved, SameVars(stores, stores'),
           currentEnv' = currentEnv
    PROVE  EnvInv'
<1> DEFINE C == Constructs
           s == open
           o == Marks(scopes)
           p == Marks(scopes')
           b == Top.back
           st == stores
           u == Front(s)
<1>1. PICK c \in Constructs :
         /\ c.back = Top.back /\ c.kind = "for" /\ c.pre = Top.pre /\ c.stash = Top.stash
         /\ open' = [open EXCEPT ![Depth] = c] /\ Inside(c, Marks(scopes'))
  BY MovedLoop
<1>2. s \in Seq(C) /\ s # <<>> /\ Last(s) = Top /\ Top.kind = "for" /\ c \in C
      /\ Depth = Len(s)
  BY <1>1 DEF TypeOK, LoopMoved, Top, Depth
<1>3. (\A x \in C : x.pre \in Nat) /\ (\A e \in DOMAIN st : Len(st[e]) \in Nat)
      /\ Len(b) \in Nat /\ c.kind \in Kinds /\ c.pre \in Nat
  BY <1>1, <1>2, TopFacts, ConstructFacts, StoreLens
<1>4. Nested(s, currentEnv) /\ Prefix(s, o, st)
  BY DEF EnvInv
<1>5. Top.pre = 0 /\ Sound(c)
  <2>1. Len(s) \in 1 .. Len(s) /\ Last(s) = s[Len(s)]
    BY <1>2, LastOfSeq
  <2>2. Sound(Top) /\ Top.pre \in Nat
    BY <1>1, <1>2, <1>3, <1>4, <2>1 DEF Nested
  <2>3. Top.pre = 0
    BY <1>2, <2>2 DEF Sound, SubKinds
  <2> QED BY <1>1, <2>3 DEF Sound, SubKinds
<1>6. Len(p) \in Nat
  <2>1. scopes' \in Seq(Frames')
    BY DEF LoopMoved
  <2> QED BY <2>1, MarksAt
<1>7. u \in Seq(C) /\ open' = Append(u, c)
  <2> DEFINE n == Len(s)
             v == [s EXCEPT ![n] = c]
             w == Append(u, c)
  <2>1. /\ u \in Seq(C) /\ Len(u) = n - 1 /\ (\A i \in 1 .. n - 1 : u[i] = s[i])
        /\ n \in Nat /\ n >= 1
    BY <1>2, FrontOfSeq, LastOfSeq
  <2>2. v \in Seq(C) /\ Len(v) = n /\ \A i \in 1 .. n : v[i] = IF i = n THEN c ELSE s[i]
    BY <1>2, <2>1, ExceptSeq
  <2> HIDE DEF u, s, C
  <2>3. w \in Seq(C) /\ Len(w) = Len(u) + 1 /\ w[Len(u) + 1] = c
        /\ \A i \in 1 .. Len(u) : w[i] = u[i]
    BY <1>2, <2>1, AppendToSeq
  <2> HIDE DEF v, w, n
  <2>4. Len(w) = n /\ \A i \in 1 .. n : w[i] = v[i]
    <3>1. Len(w) = n /\ w[n] = c /\ \A i \in 1 .. n - 1 : w[i] = s[i]
      BY <2>1, <2>3
    <3> QED BY <2>1, <2>2, <3>1
  <2>5. v = w
    <3>1. v = [i \in 1 .. n |-> v[i]] /\ w = [i \in 1 .. n |-> w[i]]
      BY <2>2, <2>3, <2>4
    <3> QED BY <2>4, <3>1
  <2>6. open' = v
    BY <1>1, <1>2 DEF v, n, s
  <2> QED BY <2>1, <2>5, <2>6 DEF w
<1>8. SameBelow(b, b)
  BY DEF SameBelow, Agree
<1>9. b = Last(s).back /\ c.back = b /\ Inside(c, p)
  BY <1>1, <1>2
<1>10. Last(s).pre = 0 /\ c.pre = 0
  BY <1>1, <1>2, <1>5
<1> HIDE DEF C, o, p, b, st, s, u
<1>11. Nested(u, currentEnv)
  <2>1. Nested(Front(s), IF Last(s).pre = 0 THEN currentEnv ELSE Last(s).before)
    BY <1>2, <1>3, <1>4, NestedCloses
  <2> QED BY <1>10, <2>1 DEF u
<1>12. Prefix(u, b, st)
  <2>1. SameBelow(Last(s).back, b) /\ Len(Last(s).back) \in Nat
    BY <1>3, <1>8, <1>9
  <2> QED BY <1>2, <1>3, <1>4, <2>1, PrefixCloses DEF u
<1> DEFINE t == Append(u, c)
<1>13. Nested(t, currentEnv)
  <2>1. c.pre > 0 => c.env # NoEnv /\ c.before = currentEnv
    BY <1>10
  <2>2. Nested(t, IF c.pre = 0 THEN currentEnv ELSE c.env)
    BY <1>2, <1>3, <1>5, <1>7, <1>11, <2>1, NestedOpens
  <2> QED BY <1>10, <2>2
<1>14. Prefix(t, p, st)
  <2>1. c.pre > 0 => /\ c.env \in DOMAIN st /\ c.pre = Len(st[c.env])
                     /\ Covers(p, st[c.env])
    BY <1>10
  <2> QED BY <1>2, <1>3, <1>5, <1>6, <1>7, <1>9, <1>12, <2>1, PrefixOpens
<1>15. Prefix(t, p, stores')
  <2>1. SameVars(st, stores')
    BY DEF st
  <2> HIDE DEF t
  <2> QED BY <1>14, <2>1, PrefixStores
<1> QED BY <1>7, <1>13, <1>15 DEF EnvInv, p

\* Every step.
LEMMA EnvStep ==
    ASSUME FrameInv, EnvInv, [Next]_vars
    PROVE  EnvInv'
<1>1. TypeOK /\ BackInv
  BY DEF FrameInv
<1>2. Grown /\ SameVars(stores, stores')
  BY <1>1, GrownStep, StepStores
<1>3. Shaped
  BY <1>1, <1>2, StepShaped
<1>4. CASE \E c : Opened(c) /\ EnvOpened(c)
  BY <1>1, <1>2, <1>4, EnvOpens
<1>5. CASE /\ Closed
           /\ currentEnv' = IF Top.kind \in SubKinds /\ Top.pre # 0 THEN Top.before
                            ELSE currentEnv
  BY <1>1, <1>2, <1>5, EnvCloses
<1>6. CASE LoopMoved /\ currentEnv' = currentEnv
  BY <1>1, <1>2, <1>6, EnvMoves
<1>7. CASE Kept /\ currentEnv' = currentEnv
  BY <1>1, <1>2, <1>7, EnvStays
<1> QED BY <1>3, <1>4, <1>5, <1>6, <1>7 DEF Shaped

\* EnvInv is invariant.
LEMMA EnvInvariant == Spec => []EnvInv
<1>1. Init => EnvInv
  <2> SUFFICES ASSUME Init PROVE EnvInv
    OBVIOUS
  <2>1. open = <<>> /\ currentEnv = NoEnv /\ Len(open) = 0
    BY DEF Init
  <2> QED BY <2>1 DEF EnvInv, Nested, Inner, Prefix
<1>2. FrameInv /\ EnvInv /\ [Next]_vars => EnvInv'
  BY EnvStep
<1> QED BY <1>1, <1>2, FrameInvariant, PTL DEF Spec

-----------------------------------------------------------------------------
(* Captures.                                                               *)

\* Frames with the same variables show the same one.
LEMMA SameVisible ==
    ASSUME TypeOK, NEW sc \in Seq(Frames), NEW t \in Seq(Frames), Len(t) = Len(sc),
           \A i \in 1 .. Len(sc) : t[i].x.var = sc[i].x.var
    PROVE  Visible(t).var = Visible(sc).var
<1> DEFINE n == Len(sc)
<1>1. /\ n \in Nat /\ DOMAIN sc = 1 .. n /\ DOMAIN t = 1 .. n
      /\ \A i \in 1 .. n : sc[i] \in Frames /\ t[i] \in Frames
  BY LenProperties, ElementOfSeq
<1>2. \A f \in Frames : f.x # Unbound <=> f.x.var # -1
  BY DEF Frames, Slots, Unbound
<1>3. \A i \in 1 .. n : t[i].x # Unbound <=> sc[i].x # Unbound
  BY <1>1, <1>2
<1>4. Bound(t) = Bound(sc)
  BY <1>1, <1>3 DEF Bound
<1>5. CASE Bound(sc) = {}
  BY <1>4, <1>5 DEF Visible
<1>6. CASE Bound(sc) # {}
  <2> DEFINE i == Max(Bound(sc))
  <2>1. i \in Bound(sc)
    BY <1>6, VisibleSlot
  <2>2. i \in 1 .. n
    BY <1>1, <2>1 DEF Bound
  <2>3. Visible(t) = t[i].x /\ Visible(sc) = sc[i].x
    BY <1>4, <1>6 DEF Visible
  <2> HIDE DEF i
  <2> QED BY <2>2, <2>3
<1> QED BY <1>5, <1>6

\* Inside a closure whose frames nothing has taken away, its environment is at the
\* bottom of the frames.
LEMMA ClosureCovers ==
    ASSUME TypeOK, EnvInv, currentEnv # NoEnv, ~ Miscounted
    PROVE  Covers(Marks(scopes), stores[currentEnv])
<1> DEFINE n == Len(open)
           m == Marks(scopes)
<1>1. n \in Nat /\ DOMAIN open = 1 .. n /\ \A k \in 1 .. n : open[k] \in Constructs
  BY LenProperties, ElementOfSeq DEF TypeOK
<1>2. Nested(open, currentEnv) /\ Prefix(open, m, stores)
  BY DEF EnvInv
<1>3. PICK i \in 1 .. n : /\ open[i].pre > 0 /\ currentEnv = open[i].env
                          /\ \A l \in i + 1 .. n : open[l].pre = 0
  BY <1>2 DEF Nested, Inner
<1>4. \A l \in i + 1 .. n : ~ Cuts(open[l])
  <2> TAKE l \in i + 1 .. n
  <2>1. i \in DOMAIN open /\ l \in DOMAIN open /\ i < l
    BY <1>1
  <2>2. ~ (open[l].kind = "dofile" \/ (open[l].kind = "string" /\ open[l].stash # <<>>))
    BY <1>3, <2>1 DEF Miscounted
  <2>3. ~ (open[l].pre > 0)
    BY <1>3
  <2> QED BY <2>2, <2>3 DEF Cuts
<1>5. n \in i .. n /\ Level(open, m, n) = m
  BY <1>1 DEF Level
<1> HIDE DEF m, n
<1>6. Covers(Level(open, m, n), stores[open[i].env])
  BY <1>2, <1>3, <1>4, <1>5 DEF Prefix, n
<1> QED BY <1>3, <1>5, <1>6 DEF m

\* So what the closure's Rc and the frames above as many make up has the variables of
\* the frames.
LEMMA CaptureVars ==
    ASSUME TypeOK, EnvInv, ~ Miscounted
    PROVE  /\ Len(Capture) = Len(scopes)
           /\ \A i \in 1 .. Len(scopes) : Capture[i].x.var = scopes[i].x.var
<1>1. CASE currentEnv = NoEnv
  BY <1>1 DEF Capture
<1>2. CASE currentEnv # NoEnv
  <2> DEFINE v == stores[currentEnv]
             k == Len(v)
             n == Len(scopes)
             m == Marks(scopes)
             w == SubSeq(scopes, k + 1, n)
             u == v \o w
  <2>1. v \in Seq(Frames) /\ k \in Nat
    BY <1>2, EnvFacts DEF TypeOK
  <2>2. /\ scopes \in Seq(Frames) /\ n \in Nat /\ Len(m) = n
        /\ \A i \in 1 .. n : m[i] = MarkOf(scopes[i])
    BY ScopesFacts
  <2>3. Covers(m, v)
    BY <1>2, ClosureCovers
  <2>4. Capture = u
    BY <1>2 DEF Capture
  <2> HIDE DEF v, m
  <2>5. k < n /\ k <= n /\ \A i \in 1 .. k : m[i].var = v[i].x.var
    BY <2>1, <2>2, <2>3 DEF Covers
  <2>6. /\ w \in Seq(Frames) /\ Len(w) = n - k
        /\ \A i \in 1 .. n - k : w[i] = scopes[k + i]
    BY <2>1, <2>2, <2>5, RestOfSeq
  <2> HIDE DEF w
  <2>7. /\ Len(u) = Len(v) + Len(w)
        /\ \A i \in 1 .. Len(v) + Len(w) : u[i] = IF i <= Len(v) THEN v[i] ELSE w[i - Len(v)]
    BY <2>1, <2>6, ConcatProperties
  <2> HIDE DEF u, n, k
  <2>8. Len(v) = k
    BY DEF k
  <2>9. Len(u) = n
    BY <2>1, <2>2, <2>5, <2>6, <2>7, <2>8
  <2>10. ASSUME NEW i \in 1 .. n PROVE u[i].x.var = scopes[i].x.var
    <3>1. CASE i <= k
      <4>1. u[i] = v[i] /\ i \in 1 .. k
        BY <2>1, <2>2, <2>5, <2>6, <2>7, <2>8, <3>1
      <4>2. m[i] = MarkOf(scopes[i])
        BY <2>2
      <4>3. m[i].var = scopes[i].x.var
        BY <4>2 DEF MarkOf
      <4> QED BY <2>5, <4>1, <4>3
    <3>2. CASE ~ (i <= k)
      <4> DEFINE j == i - k
      <4>1. j \in 1 .. n - k /\ k + j = i
        BY <2>1, <2>2, <2>5, <3>2
      <4>2. u[i] = w[j]
        BY <2>1, <2>2, <2>5, <2>6, <2>7, <2>8, <3>2
      <4> HIDE DEF j
      <4> QED BY <2>6, <4>1, <4>2
    <3> QED BY <3>1, <3>2
  <2> QED BY <2>4, <2>9, <2>10 DEF n
<1> QED BY <1>1, <1>2

\* Only AnonSub makes another anonymous sub.
LEMMA AnonMade ==
    ASSUME TypeOK, [Next]_vars, Anons' # Anons
    PROVE  MakeAnon
<1>1. env' # env
  BY DEF Anons
<1>2. ~ UNCHANGED vars /\ ~ Over
  BY <1>1 DEF Over, vars
<1>3. ~ Open
  <2>1. ~ ((\E kind \in {"block", "eval"} : OpenBlock(kind)) \/ EvalString \/ DoFile \/ Load)
    BY <1>1 DEF OpenBlock, EvalString, DoFile, Load, captured
  <2>2. ~ Call /\ ~ (\E list \in Lists, cont \in BOOLEAN : For(list, cont))
    BY <1>1 DEF Call, CallSub, For, captured
  <2> QED BY <2>1, <2>2 DEF Open
<1>4. ~ (My \/ Assign \/ Shrink \/ (\E f \in Flows \ {"none", "die"} : Jump(f)))
  BY <1>1 DEF My, Assign, Shrink, Jump, captured
<1>5. ~ (\/ SubReturns \/ SubGoesOn \/ StringEnds \/ DoFileEnds \/ LoadEnds \/ CodeGoesOn
         \/ BlockEnds \/ EvalEnds \/ GotoLands \/ LoopEnds)
  BY <1>1 DEF SubReturns, SubGoesOn, StringEnds, DoFileEnds, LoadEnds, CodeGoesOn, BlockEnds,
              EvalEnds, GotoLands, LoopEnds, captured
<1>6. ~ (ItemFreed \/ NextItem \/ BodyEnds \/ BodyLeft \/ ContinueEnds \/ ContinueLeft)
  BY <1>1 DEF ItemFreed, NextItem, BodyEnds, BodyLeft, ContinueEnds, ContinueLeft, LoopLeft,
              Advance, captured
<1>7. ~ DefineNamed
  <2> SUFFICES ASSUME DefineNamed PROVE FALSE
    OBVIOUS
  <2>1. env' = [env EXCEPT ![Named] = Len(stores')] /\ env \in [Codes -> Envs]
    BY DEF DefineNamed, TypeOK
  <2>2. \A c \in Codes : c > 0 => env'[c] = env[c]
    BY <2>1 DEF Named
  <2> QED BY <2>2 DEF Anons
<1> QED BY <1>2, <1>3, <1>4, <1>5, <1>6, <1>7 DEF Next, Statement, Leave

\* An anonymous sub finds the `$x` that the code creating it sees.
THEOREM CapturesWhatIsVisible == Spec => CapturesVisible
<1> DEFINE A == Cardinality(Anons') > Cardinality(Anons) /\ ~Miscounted =>
                   Visible(Last(stores')).var = Visible(scopes).var
<1>1. ASSUME FrameInv, EnvInv, [Next]_vars PROVE A
  <2> SUFFICES ASSUME Cardinality(Anons') > Cardinality(Anons), ~Miscounted
               PROVE  Visible(Last(stores')).var = Visible(scopes).var
    OBVIOUS
  <2> DEFINE sc == Capture
             st == Stored(sc)
             n == Len(scopes)
  <2>1. TypeOK
    BY <1>1 DEF FrameInv
  <2>2. MakeAnon
    <3>1. Cardinality(Anons) \in Nat
      <4>1. IsFiniteSet(Codes)
        <5>1. MaxAnon \in Nat
          BY LexicalsAssumption
        <5> QED BY <5>1, FS_Interval DEF Codes
      <4>2. Anons \subseteq Codes
        BY DEF Anons
      <4>3. IsFiniteSet(Anons)
        BY <4>1, <4>2, FS_Subset
      <4> QED BY <4>3, FS_CardinalityType
    <3>2. Anons' # Anons
      <4> SUFFICES ASSUME Anons' = Anons PROVE FALSE
        OBVIOUS
      <4>1. Cardinality(Anons') = Cardinality(Anons)
        OBVIOUS
      <4> QED BY <3>1, <4>1
    <3> QED BY <1>1, <2>1, <3>2, AnonMade
  <2>3. stores' = Append(stores, st)
    BY <2>2 DEF MakeAnon
  <2>4. /\ sc \in Seq(Frames) /\ scopes \in Seq(Frames) /\ Len(sc) = n
        /\ (\A i \in 1 .. n : sc[i].x.var = scopes[i].x.var) /\ st = Relabelled(sc, 0)
    <3>1. scopes \in Seq(Frames) /\ sc \in Seq(Frames)
      BY <2>1, CaptureFrames DEF TypeOK
    <3>2. Len(sc) = n /\ (\A i \in 1 .. n : sc[i].x.var = scopes[i].x.var)
      BY <1>1, <2>1, CaptureVars
    <3> QED BY <3>1, <3>2 DEF Stored, Relabelled
  <2> HIDE DEF sc, st
  <2>5. st \in Seq(Frames) /\ Len(st) = Len(sc)
    <3> DEFINE F == Frames
    <3>1. F = [owner : -2 .. MaxDepth, x : Slots] /\ 0 \in -2 .. MaxDepth /\ sc \in Seq(F)
      BY <2>4, LexicalsAssumption DEF Frames
    <3> HIDE DEF F
    <3>2. Relabelled(sc, 0) \in Seq(F) /\ Len(Relabelled(sc, 0)) = Len(sc)
      BY <3>1, RelabelledFrames
    <3> QED BY <2>4, <3>2 DEF F
  <2>6. \A i \in 1 .. n : st[i].x.var = scopes[i].x.var
    <3> TAKE i \in 1 .. n
    <3>1. sc[i] \in Frames /\ i \in DOMAIN sc
      BY <2>4, ElementOfSeq, LenProperties
    <3>2. sc[i] \in [owner : -2 .. MaxDepth, x : Slots]
      BY <3>1 DEF Frames
    <3> DEFINE f == sc[i]
    <3>3. "x" \in DOMAIN f /\ f = [k \in DOMAIN f |-> f[k]]
      BY <3>2
    <3>4. Relabelled(sc, 0)[i].x = f.x
      BY <3>1, <3>3, RelabelledSlots
    <3> QED BY <2>4, <3>4
  <2>7. Visible(st).var = Visible(scopes).var
    BY <2>1, <2>4, <2>5, <2>6, SameVisible
  <2>8. Last(stores') = st
    <3> DEFINE S == Seq(Frames)
    <3>1. stores \in Seq(S)
      <4>1. stores \in Seq(S \ {<<>>}) /\ S \ {<<>>} \subseteq S
        BY <2>1 DEF TypeOK
      <4> HIDE DEF S
      <4> QED BY <4>1, SeqMonotonic
    <3>2. st \in S
      BY <2>5
    <3> HIDE DEF S
    <3>3. Last(Append(stores, st)) = st
      BY <3>1, <3>2, AppendToSeq
    <3> QED BY <2>3, <3>3
  <2> QED BY <2>7, <2>8
<1>2. FrameInv /\ EnvInv /\ [Next]_vars => [A]_vars
  BY <1>1
<1> QED BY <1>2, FrameInvariant, EnvInvariant, PTL DEF Spec, CapturesVisible

-----------------------------------------------------------------------------
(***************************************************************************)
(* Storage: one slot, or slots with one cell.  A variable without a cell   *)
(* has one place, so what must be shown of a step is where the slot of     *)
(* each place after it was before it, and that two places do not come from *)
(* one unless the slot has a cell.  The invariant adds two things: shared  *)
(* is a place like the others, and slots of environments have cells.       *)
(***************************************************************************)

\* Where slots are: w is the frames, the file's scope, shared, the environments and the
\* constructs.
World(sc, fs, sh, st, op) == [sc |-> sc, fs |-> fs, sh |-> sh, st |-> st, op |-> op]
Now == World(scopes, fileScope, shared, stores, open)

Live(i) == <<"live", 0, i>>
InFile == <<"file", 0, 0>>
InShared == <<"shared", 0, 0>>
InStore(e, i) == <<"stored", e, i>>
Aside(k, i) == <<"aside", k, i>>
LiveSpots(w) == {Live(i) : i \in DOMAIN w.sc}
StoreSpots(w) == UNION {{InStore(e, i) : i \in DOMAIN w.st[e]} : e \in DOMAIN w.st}
AsideSpots(w) == UNION {{Aside(k, i) : i \in DOMAIN w.op[k].stash} : k \in DOMAIN w.op}
Spots(w) == LiveSpots(w) \cup {InFile, InShared} \cup StoreSpots(w) \cup AsideSpots(w)
SlotIn(w, p) ==
    CASE p[1] = "live" -> w.sc[p[3]].x
      [] p[1] = "file" -> w.fs.x
      [] p[1] = "shared" -> w.sh
      [] p[1] = "stored" -> w.st[p[2]][p[3]].x
      [] p[1] = "aside" -> w.op[p[2]].stash[p[3]].x

\* c are the variables copied.
HeldIn(x, c) == x.var > 0 /\ x.var \notin c
Fit(x, y, c) == HeldIn(x, c) /\ HeldIn(y, c) => (x.var = y.var <=> x.cell = y.cell /\ x.cell # 0)
OneIn(w, c) == \A p, q \in Spots(w) : p # q => Fit(SlotIn(w, p), SlotIn(w, q), c)
Celled(w, c) ==
    /\ HeldIn(w.sh, c) => w.sh.cell # 0
    /\ \A e \in DOMAIN w.st : \A i \in DOMAIN w.st[e] :
           HeldIn(w.st[e][i].x, c) => w.st[e][i].x.cell # 0
Stowed(w, c) == OneIn(w, c) /\ Celled(w, c)

\* What is at the places.
LEMMA SpotFacts ==
    ASSUME NEW w
    PROVE  /\ \A i \in DOMAIN w.sc : Live(i) \in Spots(w) /\ SlotIn(w, Live(i)) = w.sc[i].x
           /\ InFile \in Spots(w) /\ SlotIn(w, InFile) = w.fs.x
           /\ InShared \in Spots(w) /\ SlotIn(w, InShared) = w.sh
           /\ \A e \in DOMAIN w.st : \A i \in DOMAIN w.st[e] :
                  InStore(e, i) \in Spots(w) /\ SlotIn(w, InStore(e, i)) = w.st[e][i].x
           /\ \A k \in DOMAIN w.op : \A i \in DOMAIN w.op[k].stash :
                  /\ Aside(k, i) \in Spots(w)
                  /\ SlotIn(w, Aside(k, i)) = w.op[k].stash[i].x
<1>1. /\ \A i \in DOMAIN w.sc : Live(i) \in Spots(w)
      /\ InFile \in Spots(w) /\ InShared \in Spots(w)
      /\ \A e \in DOMAIN w.st : \A i \in DOMAIN w.st[e] : InStore(e, i) \in Spots(w)
      /\ \A k \in DOMAIN w.op : \A i \in DOMAIN w.op[k].stash : Aside(k, i) \in Spots(w)
  <2>1. \A i \in DOMAIN w.sc : Live(i) \in LiveSpots(w)
    BY DEF LiveSpots
  <2>2. ASSUME NEW e \in DOMAIN w.st, NEW i \in DOMAIN w.st[e] PROVE InStore(e, i) \in StoreSpots(w)
    <3> DEFINE D == {InStore(e, j) : j \in DOMAIN w.st[e]}
    <3>1. InStore(e, i) \in D
      OBVIOUS
    <3>2. D \in {{InStore(f, j) : j \in DOMAIN w.st[f]} : f \in DOMAIN w.st}
      OBVIOUS
    <3> HIDE DEF D
    <3> QED BY <3>1, <3>2 DEF StoreSpots
  <2>3. ASSUME NEW k \in DOMAIN w.op, NEW i \in DOMAIN w.op[k].stash PROVE Aside(k, i) \in AsideSpots(w)
    <3> DEFINE D == {Aside(k, j) : j \in DOMAIN w.op[k].stash}
    <3>1. Aside(k, i) \in D
      OBVIOUS
    <3>2. D \in {{Aside(l, j) : j \in DOMAIN w.op[l].stash} : l \in DOMAIN w.op}
      OBVIOUS
    <3> HIDE DEF D
    <3> QED BY <3>1, <3>2 DEF AsideSpots
  <2> QED BY <2>1, <2>2, <2>3 DEF Spots
<1>2. \A i : Live(i)[1] = "live" /\ Live(i)[3] = i
  BY DEF Live
<1>3. InFile[1] = "file" /\ InShared[1] = "shared"
  BY DEF InFile, InShared
<1>4. \A e, i : InStore(e, i)[1] = "stored" /\ InStore(e, i)[2] = e /\ InStore(e, i)[3] = i
  BY DEF InStore
<1>5. \A k, i : Aside(k, i)[1] = "aside" /\ Aside(k, i)[2] = k /\ Aside(k, i)[3] = i
  BY DEF Aside
<1>6. \A i : SlotIn(w, Live(i)) = w.sc[i].x
  BY <1>2 DEF SlotIn
<1>7. SlotIn(w, InFile) = w.fs.x /\ SlotIn(w, InShared) = w.sh
  BY <1>3 DEF SlotIn
<1>8. \A e, i : SlotIn(w, InStore(e, i)) = w.st[e][i].x
  BY <1>4 DEF SlotIn
<1>9. \A k, i : SlotIn(w, Aside(k, i)) = w.op[k].stash[i].x
  BY <1>5 DEF SlotIn
<1> QED BY <1>1, <1>6, <1>7, <1>8, <1>9

\* There are no others,
LEMMA SpotKinds ==
    ASSUME NEW w, NEW p \in Spots(w)
    PROVE  \/ \E i \in DOMAIN w.sc : p = Live(i)
           \/ p = InFile
           \/ p = InShared
           \/ \E e \in DOMAIN w.st : \E i \in DOMAIN w.st[e] : p = InStore(e, i)
           \/ \E k \in DOMAIN w.op : \E i \in DOMAIN w.op[k].stash : p = Aside(k, i)
<1>1. p \in LiveSpots(w) \/ p = InFile \/ p = InShared \/ p \in StoreSpots(w) \/ p \in AsideSpots(w)
  BY DEF Spots
<1>2. CASE p \in LiveSpots(w)
  BY <1>2 DEF LiveSpots
<1>3. CASE p \in StoreSpots(w)
  <2>1. PICK e \in DOMAIN w.st : p \in {InStore(e, i) : i \in DOMAIN w.st[e]}
    BY <1>3 DEF StoreSpots
  <2>2. \E i \in DOMAIN w.st[e] : p = InStore(e, i)
    BY <2>1
  <2> QED BY <2>2
<1>4. CASE p \in AsideSpots(w)
  <2>1. PICK k \in DOMAIN w.op : p \in {Aside(k, i) : i \in DOMAIN w.op[k].stash}
    BY <1>4 DEF AsideSpots
  <2>2. \E i \in DOMAIN w.op[k].stash : p = Aside(k, i)
    BY <2>1
  <2> QED BY <2>2
<1> QED BY <1>1, <1>2, <1>3, <1>4

\* and they all differ.
LEMMA SpotsDiffer ==
    /\ \A i, j : Live(i) = Live(j) => i = j
    /\ \A i : Live(i) # InFile /\ Live(i) # InShared
    /\ \A i, e, j : Live(i) # InStore(e, j)
    /\ \A i, e, j : Live(i) # Aside(e, j)
    /\ InFile # InShared
    /\ \A e, j : InFile # InStore(e, j) /\ InFile # Aside(e, j)
BY DEF Live, InFile, InShared, InStore, Aside

-----------------------------------------------------------------------------
(* Steps.                                                                  *)

\* x, now at p, was at a place of w, and at one that g takes to p if it has no cell; or p
\* is the new place n and x is new.
New(w, x) == \A q \in Spots(w) : /\ x.var # SlotIn(w, q).var
                                 /\ x.cell = 0 \/ x.cell # SlotIn(w, q).cell
From(w, g, n, x, p) ==
    \/ \E q \in Spots(w) : SlotIn(w, q) = x /\ (x.cell = 0 => g[q] = p)
    \/ p = n /\ New(w, x)

LiveFrom(w, g, n, sc, d) ==
    \A i \in DOMAIN sc : HeldIn(sc[i].x, d) => From(w, g, n, sc[i].x, Live(i))
FileFrom(w, g, n, fs, d) == HeldIn(fs.x, d) => From(w, g, n, fs.x, InFile)
SharedFrom(w, g, n, sh, d) == HeldIn(sh, d) => sh.cell # 0 /\ From(w, g, n, sh, InShared)
StoresFrom(w, g, n, st, d) ==
    \A e \in DOMAIN st : \A i \in DOMAIN st[e] : HeldIn(st[e][i].x, d) =>
        st[e][i].x.cell # 0 /\ From(w, g, n, st[e][i].x, InStore(e, i))
AsideFrom(w, g, n, op, d) ==
    \A k \in DOMAIN op : \A i \in DOMAIN op[k].stash : HeldIn(op[k].stash[i].x, d) =>
        From(w, g, n, op[k].stash[i].x, Aside(k, i))

\* All places of v.
LEMMA AllFrom ==
    ASSUME NEW w, NEW v, NEW g, NEW n, NEW d,
           LiveFrom(w, g, n, v.sc, d), FileFrom(w, g, n, v.fs, d), SharedFrom(w, g, n, v.sh, d),
           StoresFrom(w, g, n, v.st, d), AsideFrom(w, g, n, v.op, d)
    PROVE  /\ Celled(v, d)
           /\ \A p \in Spots(v) : HeldIn(SlotIn(v, p), d) => From(w, g, n, SlotIn(v, p), p)
<1>1. Celled(v, d)
  BY DEF Celled, SharedFrom, StoresFrom
<1>2. ASSUME NEW p \in Spots(v), HeldIn(SlotIn(v, p), d) PROVE From(w, g, n, SlotIn(v, p), p)
  <2>1. CASE \E i \in DOMAIN v.sc : p = Live(i)
    <3>1. PICK i \in DOMAIN v.sc : p = Live(i)
      BY <2>1
    <3>2. SlotIn(v, Live(i)) = v.sc[i].x
      BY SpotFacts
    <3> QED BY <1>2, <3>1, <3>2 DEF LiveFrom
  <2>2. CASE p = InFile
    <3>1. SlotIn(v, InFile) = v.fs.x
      BY SpotFacts
    <3> QED BY <1>2, <2>2, <3>1 DEF FileFrom
  <2>3. CASE p = InShared
    <3>1. SlotIn(v, InShared) = v.sh
      BY SpotFacts
    <3> QED BY <1>2, <2>3, <3>1 DEF SharedFrom
  <2>4. CASE \E e \in DOMAIN v.st : \E i \in DOMAIN v.st[e] : p = InStore(e, i)
    <3>1. PICK e \in DOMAIN v.st : \E i \in DOMAIN v.st[e] : p = InStore(e, i)
      BY <2>4
    <3>2. PICK i \in DOMAIN v.st[e] : p = InStore(e, i)
      BY <3>1
    <3>3. SlotIn(v, InStore(e, i)) = v.st[e][i].x
      BY SpotFacts
    <3> QED BY <1>2, <3>2, <3>3 DEF StoresFrom
  <2>5. CASE \E k \in DOMAIN v.op : \E i \in DOMAIN v.op[k].stash : p = Aside(k, i)
    <3>1. PICK k \in DOMAIN v.op : \E i \in DOMAIN v.op[k].stash : p = Aside(k, i)
      BY <2>5
    <3>2. PICK i \in DOMAIN v.op[k].stash : p = Aside(k, i)
      BY <3>1
    <3>3. SlotIn(v, Aside(k, i)) = v.op[k].stash[i].x
      BY SpotFacts
    <3> QED BY <1>2, <3>2, <3>3 DEF AsideFrom
  <2> QED BY <2>1, <2>2, <2>3, <2>4, <2>5, SpotKinds
<1> QED BY <1>1, <1>2

\* Two slots that fit still fit when fewer are held.
LEMMA FitFewer ==
    ASSUME NEW x, NEW y, NEW c, NEW d, c \subseteq d, Fit(x, y, c)
    PROVE  Fit(x, y, d)
BY DEF Fit, HeldIn

\* So nothing is lost.
LEMMA Carried ==
    ASSUME NEW w, NEW v, NEW g, NEW n, NEW c, NEW d, Stowed(w, c), c \subseteq d,
           LiveFrom(w, g, n, v.sc, d), FileFrom(w, g, n, v.fs, d), SharedFrom(w, g, n, v.sh, d),
           StoresFrom(w, g, n, v.st, d), AsideFrom(w, g, n, v.op, d)
    PROVE  Stowed(v, d)
<1>1. /\ Celled(v, d)
      /\ \A p \in Spots(v) : HeldIn(SlotIn(v, p), d) => From(w, g, n, SlotIn(v, p), p)
  BY AllFrom
<1>2. ASSUME NEW p \in Spots(v), NEW q \in Spots(v), p # q,
             HeldIn(SlotIn(v, p), d), HeldIn(SlotIn(v, q), d)
      PROVE  Fit(SlotIn(v, p), SlotIn(v, q), d)
  <2> DEFINE x == SlotIn(v, p)
             y == SlotIn(v, q)
  <2>1. From(w, g, n, x, p) /\ From(w, g, n, y, q)
    BY <1>1, <1>2
  <2> HIDE DEF x, y
  <2>2. CASE p = n /\ New(w, x)
    <3>1. PICK r \in Spots(w) : SlotIn(w, r) = y
      BY <1>2, <2>1, <2>2 DEF From
    <3>2. x.var # y.var /\ (x.cell = 0 \/ x.cell # y.cell)
      BY <2>2, <3>1 DEF New
    <3> QED BY <3>2 DEF Fit, x, y
  <2>3. CASE q = n /\ New(w, y)
    <3>1. PICK r \in Spots(w) : SlotIn(w, r) = x
      BY <1>2, <2>1, <2>3 DEF From
    <3>2. x.var # y.var /\ (y.cell = 0 \/ x.cell # y.cell)
      BY <2>3, <3>1 DEF New
    <3> QED BY <3>2 DEF Fit, x, y
  <2>4. CASE ~ (p = n /\ New(w, x)) /\ ~ (q = n /\ New(w, y))
    <3>1. PICK r \in Spots(w) : SlotIn(w, r) = x /\ (x.cell = 0 => g[r] = p)
      BY <2>1, <2>4 DEF From
    <3>2. PICK s \in Spots(w) : SlotIn(w, s) = y /\ (y.cell = 0 => g[s] = q)
      BY <2>1, <2>4 DEF From
    <3>3. CASE r = s
      <4>1. x = y /\ x.cell # 0
        BY <1>2, <3>1, <3>2, <3>3
      <4> QED BY <4>1 DEF Fit, x, y
    <3>4. CASE r # s
      <4>1. Fit(x, y, c)
        BY <3>1, <3>2, <3>4 DEF Stowed, OneIn
      <4> QED BY <4>1, FitFewer DEF x, y
    <3> QED BY <3>3, <3>4
  <2> QED BY <2>2, <2>3, <2>4
<1>3. OneIn(v, d)
  <2>1. ASSUME NEW p \in Spots(v), NEW q \in Spots(v), p # q
        PROVE  Fit(SlotIn(v, p), SlotIn(v, q), d)
    <3>1. CASE HeldIn(SlotIn(v, p), d) /\ HeldIn(SlotIn(v, q), d)
      BY <1>2, <2>1, <3>1
    <3>2. CASE ~ (HeldIn(SlotIn(v, p), d) /\ HeldIn(SlotIn(v, q), d))
      BY <3>2 DEF Fit
    <3> QED BY <3>1, <3>2
  <2> QED BY <2>1 DEF OneIn
<1> QED BY <1>1, <1>3 DEF Stowed

-----------------------------------------------------------------------------
(* Steps that leave slots where they are.                                  *)

\* The slots that frames, or stashes, hold are those others had at the same places.
LiveAmong(t, s, d) ==
    \A i \in DOMAIN t : HeldIn(t[i].x, d) => i \in DOMAIN s /\ t[i].x = s[i].x
AsideAmong(t, s) ==
    \A k \in DOMAIN t : \A i \in DOMAIN t[k].stash :
        k \in DOMAIN s /\ i \in DOMAIN s[k].stash /\ t[k].stash[i].x = s[k].stash[i].x
StaysLive(g, sc) == \A i \in DOMAIN sc : g[Live(i)] = Live(i)
StaysAside(g, op) == \A k \in DOMAIN op : \A i \in DOMAIN op[k].stash : g[Aside(k, i)] = Aside(k, i)

\* Slots of frames stay where they are,
LEMMA LiveStays ==
    ASSUME NEW w, NEW g, NEW n, NEW sc, NEW d, LiveAmong(sc, w.sc, d), StaysLive(g, w.sc)
    PROVE  LiveFrom(w, g, n, sc, d)
<1> SUFFICES ASSUME NEW i \in DOMAIN sc, HeldIn(sc[i].x, d)
             PROVE  From(w, g, n, sc[i].x, Live(i))
  BY DEF LiveFrom
<1>1. i \in DOMAIN w.sc /\ sc[i].x = w.sc[i].x /\ g[Live(i)] = Live(i)
  BY DEF LiveAmong, StaysLive
<1>2. Live(i) \in Spots(w) /\ SlotIn(w, Live(i)) = w.sc[i].x
  BY <1>1, SpotFacts
<1> QED BY <1>1, <1>2 DEF From

\* so do those put aside by constructs,
LEMMA AsideStays ==
    ASSUME NEW w, NEW g, NEW n, NEW op, NEW d, AsideAmong(op, w.op), StaysAside(g, op)
    PROVE  AsideFrom(w, g, n, op, d)
<1> SUFFICES ASSUME NEW k \in DOMAIN op, NEW i \in DOMAIN op[k].stash
             PROVE  From(w, g, n, op[k].stash[i].x, Aside(k, i))
  BY DEF AsideFrom
<1>1. /\ k \in DOMAIN w.op /\ i \in DOMAIN w.op[k].stash
      /\ op[k].stash[i].x = w.op[k].stash[i].x /\ g[Aside(k, i)] = Aside(k, i)
  BY DEF AsideAmong, StaysAside
<1>2. Aside(k, i) \in Spots(w) /\ SlotIn(w, Aside(k, i)) = w.op[k].stash[i].x
  BY <1>1, SpotFacts
<1> QED BY <1>1, <1>2 DEF From

\* and the one of the file.
LEMMA FileStays ==
    ASSUME NEW w, NEW g, NEW n, NEW fs, NEW d, fs.x = w.fs.x, g[InFile] = InFile
    PROVE  FileFrom(w, g, n, fs, d)
<1>1. InFile \in Spots(w) /\ SlotIn(w, InFile) = w.fs.x
  BY SpotFacts
<1> QED BY <1>1 DEF From, FileFrom

\* Slots with a cell need no place of their own.
LEMMA HeldFewer ==
    ASSUME NEW c, NEW d, c \subseteq d, NEW x, HeldIn(x, d) PROVE HeldIn(x, c)
BY DEF HeldIn

\* What is shared stays shared, or is dropped.
LEMMA SharedStays ==
    ASSUME NEW w, NEW g, NEW n, NEW c, NEW d, Stowed(w, c), c \subseteq d,
           NEW sh \in {w.sh, Unbound}
    PROVE  SharedFrom(w, g, n, sh, d)
<1>1. ~ HeldIn(Unbound, d)
  BY DEF HeldIn, Unbound
<1> SUFFICES ASSUME HeldIn(sh, d) PROVE sh.cell # 0 /\ From(w, g, n, sh, InShared)
  BY DEF SharedFrom
<1>2. sh = w.sh /\ HeldIn(w.sh, c)
  BY <1>1, HeldFewer
<1>3. w.sh.cell # 0
  BY <1>2 DEF Stowed, Celled
<1>4. InShared \in Spots(w) /\ SlotIn(w, InShared) = w.sh
  BY SpotFacts
<1> QED BY <1>2, <1>3, <1>4 DEF From

\* Environments stay: their slots have cells.
LEMMA StoresStay ==
    ASSUME NEW w, NEW g, NEW n, NEW c, NEW d, Stowed(w, c), c \subseteq d
    PROVE  StoresFrom(w, g, n, w.st, d)
<1> SUFFICES ASSUME NEW e \in DOMAIN w.st, NEW i \in DOMAIN w.st[e], HeldIn(w.st[e][i].x, d)
             PROVE  w.st[e][i].x.cell # 0 /\ From(w, g, n, w.st[e][i].x, InStore(e, i))
  BY DEF StoresFrom
<1>1. HeldIn(w.st[e][i].x, c)
  BY HeldFewer
<1>2. w.st[e][i].x.cell # 0
  BY <1>1 DEF Stowed, Celled
<1>3. InStore(e, i) \in Spots(w) /\ SlotIn(w, InStore(e, i)) = w.st[e][i].x
  BY SpotFacts
<1> QED BY <1>2, <1>3 DEF From

\* Every place stays itself.
Staying(w) == [q \in Spots(w) |-> q]
LEMMA StayingFacts ==
    ASSUME NEW w, NEW op, AsideAmong(op, w.op)
    PROVE  /\ StaysLive(Staying(w), w.sc) /\ StaysAside(Staying(w), op)
           /\ Staying(w)[InFile] = InFile
<1>1. \A q \in Spots(w) : Staying(w)[q] = q
  BY DEF Staying
<1>2. Staying(w)[InFile] = InFile
  BY <1>1, SpotFacts
<1>3. ASSUME NEW i \in DOMAIN w.sc PROVE Staying(w)[Live(i)] = Live(i)
  <2>1. Live(i) \in Spots(w)
    BY SpotFacts
  <2> QED BY <1>1, <2>1
<1>4. ASSUME NEW k \in DOMAIN op, NEW i \in DOMAIN op[k].stash
      PROVE  Staying(w)[Aside(k, i)] = Aside(k, i)
  <2>1. k \in DOMAIN w.op /\ i \in DOMAIN w.op[k].stash
    BY DEF AsideAmong
  <2>2. Aside(k, i) \in Spots(w)
    BY <2>1, SpotFacts
  <2> QED BY <1>1, <2>2
<1> QED BY <1>2, <1>3, <1>4 DEF StaysLive, StaysAside

\* StorageInv holds of a state, and of the next one if nothing moves.
StorageInv == Stowed(Now, copied)

\* What Now consists of, before and after a step.
LEMMA NowFields ==
    /\ Now.sc = scopes /\ Now.fs = fileScope /\ Now.sh = shared /\ Now.st = stores /\ Now.op = open
    /\ Now'.sc = scopes' /\ Now'.fs = fileScope' /\ Now'.sh = shared' /\ Now'.st = stores'
    /\ Now'.op = open'
BY DEF Now, World

\* A step that only drops slots keeps the invariant.
LEMMA SteadyStep ==
    ASSUME StorageInv, copied \subseteq copied', fileScope'.x = fileScope.x,
           shared' \in {shared, Unbound}, stores' = stores,
           LiveAmong(scopes', scopes, copied'), AsideAmong(open', open)
    PROVE  StorageInv'
<1> DEFINE w == Now
           v == Now'
           c == copied
           d == copied'
           g == Staying(w)
<1>1. /\ v.fs.x = w.fs.x /\ v.sh \in {w.sh, Unbound} /\ v.st = w.st /\ c \subseteq d
      /\ LiveAmong(v.sc, w.sc, d) /\ AsideAmong(v.op, w.op) /\ Stowed(w, c)
  BY NowFields DEF StorageInv
<1> HIDE DEF w, v, c, d
<1>2. StaysLive(g, w.sc) /\ StaysAside(g, v.op) /\ g[InFile] = InFile
  BY <1>1, StayingFacts
<1> HIDE DEF g
<1>3. LiveFrom(w, g, "", v.sc, d) /\ AsideFrom(w, g, "", v.op, d) /\ FileFrom(w, g, "", v.fs, d)
  BY <1>1, <1>2, LiveStays, AsideStays, FileStays
<1>4. SharedFrom(w, g, "", v.sh, d) /\ StoresFrom(w, g, "", v.st, d)
  <2>1. StoresFrom(w, g, "", w.st, d)
    BY <1>1, StoresStay
  <2> QED BY <1>1, <2>1, SharedStays
<1>5. Stowed(v, d)
  BY <1>1, <1>3, <1>4, Carried
<1> QED BY <1>5 DEF StorageInv, v, d

\* The frames that remain, or a new one on the top, or one restored.
LEMMA AmongItself == \A sc, d : LiveAmong(sc, sc, d)
BY DEF LiveAmong

\* Slots among slots among those of s are among those of s.
LEMMA AmongThose ==
    ASSUME NEW s, NEW t, NEW u, NEW d, LiveAmong(t, s, d), LiveAmong(u, t, d)
    PROVE  LiveAmong(u, s, d)
BY DEF LiveAmong

\* The innermost frame ends.
LEMMA AmongFront ==
    ASSUME NEW S, NEW s \in Seq(S), s # <<>>, NEW d
    PROVE  LiveAmong(Front(s), s, d)
<1> DEFINE t == Front(s)
           n == Len(s)
<1>1. /\ t \in Seq(S) /\ n \in Nat /\ Len(t) = n - 1 /\ \A i \in 1 .. n - 1 : t[i] = s[i]
  BY FrontOfSeq, LenProperties
<1>2. DOMAIN t = 1 .. n - 1 /\ DOMAIN s = 1 .. n
  BY <1>1, LenProperties
<1> HIDE DEF t, n
<1>3. \A i \in 1 .. n - 1 : i \in 1 .. n
  BY <1>1
<1>4. LiveAmong(t, s, d)
  BY <1>1, <1>2, <1>3 DEF LiveAmong
<1> QED BY <1>4 DEF t

\* A frame without a slot begins.
LEMMA AmongPushed ==
    ASSUME NEW S, NEW s \in Seq(S), NEW o, Frame(o) \in S, NEW d
    PROVE  LiveAmong(Append(s, Frame(o)), s, d)
<1> DEFINE f == Frame(o)
           t == Append(s, f)
           n == Len(s)
<1>1. f.x = Unbound /\ ~ HeldIn(Unbound, d) /\ f \in S
  BY DEF Frame, HeldIn, Unbound
<1> HIDE DEF f
<1>2. /\ t \in Seq(S) /\ n \in Nat /\ Len(t) = n + 1 /\ \A i \in 1 .. n : t[i] = s[i]
      /\ t[n + 1] = f
  BY <1>1, AppendToSeq, LenProperties
<1>3. DOMAIN t = 1 .. n + 1 /\ DOMAIN s = 1 .. n
  BY <1>2, LenProperties
<1> HIDE DEF t, n
<1>4. \A i \in 1 .. n + 1 : i = n + 1 \/ i \in 1 .. n
  BY <1>2
<1>5. LiveAmong(t, s, d)
  BY <1>1, <1>2, <1>3, <1>4 DEF LiveAmong
<1> QED BY <1>5 DEF t, f

\* A loop that is left puts back the outer variable, which is then copied.
LEMMA AmongRestored ==
    ASSUME NEW S, NEW s \in Seq(S), s # <<>>, NEW d, Top.saved.var \in d
    PROVE  LiveAmong(RestoreIn(s), s, d)
<1> DEFINE n == Len(s)
           x == [var |-> Top.saved.var, cell |-> 0]
           t == [s EXCEPT ![n].x = x]
<1>1. n \in Nat /\ DOMAIN s = 1 .. n /\ ~ HeldIn(x, d)
  BY LenProperties DEF HeldIn
<1>2. DOMAIN t = 1 .. n /\ (\A i \in 1 .. n : i # n => t[i] = s[i])
  BY <1>1
<1>3. n \in 1 .. n => t[n].x = x \/ t[n].x = s[n].x
  <2> HIDE DEF x
  <2>1. n \in 1 .. n => t[n] = [s[n] EXCEPT !.x = x]
    BY <1>1
  <2> DEFINE f == s[n]
  <2>2. [f EXCEPT !.x = x].x = x \/ [f EXCEPT !.x = x].x = f.x
    OBVIOUS
  <2> QED BY <2>1, <2>2
<1> HIDE DEF t, x
<1>4. LiveAmong(t, s, d)
  BY <1>1, <1>2, <1>3 DEF LiveAmong
<1> QED BY <1>4 DEF t, x, RestoreIn, n

\* The constructs that remain, with one more, or with a loop that has moved.
LEMMA AsideItself == \A op : AsideAmong(op, op)
BY DEF AsideAmong

\* The innermost construct ends.
LEMMA AsideFront ==
    ASSUME NEW C, NEW s \in Seq(C), s # <<>>
    PROVE  AsideAmong(Front(s), s)
<1> DEFINE t == Front(s)
           n == Len(s)
<1>1. /\ t \in Seq(C) /\ n \in Nat /\ Len(t) = n - 1 /\ \A i \in 1 .. n - 1 : t[i] = s[i]
  BY FrontOfSeq, LenProperties
<1>2. DOMAIN t = 1 .. n - 1 /\ DOMAIN s = 1 .. n
  BY <1>1, LenProperties
<1> HIDE DEF t, n
<1>3. \A i \in 1 .. n - 1 : i \in 1 .. n
  BY <1>1
<1>4. AsideAmong(t, s)
  BY <1>1, <1>2, <1>3 DEF AsideAmong
<1> QED BY <1>4 DEF t

\* A construct begins that puts nothing aside.
LEMMA AsidePushed ==
    ASSUME NEW C, NEW s \in Seq(C), NEW c \in C, c.stash = <<>>
    PROVE  AsideAmong(Append(s, c), s)
<1> DEFINE t == Append(s, c)
           n == Len(s)
<1>1. /\ t \in Seq(C) /\ n \in Nat /\ Len(t) = n + 1 /\ (\A i \in 1 .. n : t[i] = s[i])
      /\ t[n + 1] = c
  BY AppendToSeq, LenProperties
<1>2. DOMAIN t = 1 .. n + 1 /\ DOMAIN s = 1 .. n /\ DOMAIN c.stash = {}
  BY <1>1, LenProperties
<1> HIDE DEF t, n
<1>3. \A i \in 1 .. n + 1 : i = n + 1 \/ i \in 1 .. n
  BY <1>1
<1>4. AsideAmong(t, s)
  BY <1>1, <1>2, <1>3 DEF AsideAmong
<1> QED BY <1>4 DEF t

\* A construct changes, but not what it has put aside.
LEMMA AsideMoved ==
    ASSUME NEW C, NEW s \in Seq(C), NEW n, NEW c, c.stash = s[n].stash
    PROVE  AsideAmong([s EXCEPT ![n] = c], s)
<1> DEFINE t == [s EXCEPT ![n] = c]
<1>1. DOMAIN t = DOMAIN s /\ \A k \in DOMAIN t : t[k].stash = s[k].stash
  OBVIOUS
<1> HIDE DEF t
<1>2. AsideAmong(t, s)
  BY <1>1 DEF AsideAmong
<1> QED BY <1>2 DEF t

\* Blocks, evals, files to be loaded, and loops that alias nothing that is shared.
LEMMA BlockStowed ==
    ASSUME TypeOK, StorageInv, (\E kind \in {"block", "eval"} : OpenBlock(kind)) \/ Load
    PROVE  StorageInv'
<1>1. PICK kind \in {"block", "eval", "load"} :
         /\ Opens(kind) /\ open' = Append(open, Construct(kind))
         /\ scopes' = Append(scopes, Frame(Depth + 1))
         /\ stores' = stores /\ fileScope' = fileScope /\ shared' = shared /\ copied' = copied
  BY DEF OpenBlock, Load, captured, loops, ghosts
<1>2. Depth < MaxDepth /\ kind \in Kinds
  BY <1>1 DEF Opens
<1> DEFINE c == Construct(kind)
<1>3. c \in Constructs /\ c.stash = <<>>
  BY <1>2, NewConstruct
<1>4. open \in Seq(Constructs) /\ scopes \in Seq(Frames) /\ Frame(Depth + 1) \in Frames
  BY <1>2, NewFrame DEF TypeOK
<1> HIDE DEF c
<1>5. AsideAmong(open', open)
  BY <1>1, <1>3, <1>4, AsidePushed DEF c
<1>6. LiveAmong(scopes', scopes, copied')
  BY <1>1, <1>4, AmongPushed
<1> QED BY <1>1, <1>5, <1>6, SteadyStep

\* The ends of blocks, evals and loops.
LEMMA EndStowed ==
    ASSUME TypeOK, StorageInv,
           BlockEnds \/ EvalEnds \/ LoopEnds
    PROVE  StorageInv'
<1>1. /\ open # <<>> /\ open' = Front(open) /\ scopes' = Front(scopes)
      /\ stores' = stores /\ fileScope' = fileScope /\ shared' \in {shared, Unbound}
      /\ copied' = copied
  BY DEF BlockEnds, EvalEnds, LoopEnds, InLoop, captured, loops, ghosts
<1>2. open \in Seq(Constructs) /\ scopes \in Seq(Frames) /\ scopes # <<>>
  BY DEF TypeOK
<1>3. AsideAmong(open', open)
  BY <1>1, <1>2, AsideFront
<1>4. LiveAmong(scopes', scopes, copied')
  BY <1>1, <1>2, AmongFront
<1> QED BY <1>1, <1>3, <1>4, SteadyStep

\* What an abandoned loop restores is a copy.
LEMMA LeftStowed ==
    ASSUME TypeOK, BackInv, StorageInv, ItemFreed \/ BodyLeft \/ ContinueLeft
    PROVE  StorageInv'
<1>1. /\ open # <<>> /\ open' = Front(open) /\ Top.kind = "for"
      /\ stores' = stores /\ fileScope' = fileScope /\ shared' = shared
      /\ copied' = copied \cup {Top.saved.var}
      /\ \/ scopes' = RestoreIn(Front(scopes)) /\ Top.at # "body"
         \/ scopes' = RestoreIn(Front(Front(scopes))) /\ Top.at = "body"
  BY DEF ItemFreed, BodyLeft, ContinueLeft, LoopLeft, InLoop, captured
<1>2. open \in Seq(Constructs) /\ scopes \in Seq(Frames) /\ scopes # <<>>
  BY DEF TypeOK
<1>3. AsideAmong(open', open)
  BY <1>1, <1>2, AsideFront
<1>4. /\ Len(Top.back) >= 1 /\ Inside(Top, Marks(scopes)) /\ Len(Top.back) \in Nat
      /\ Len(Marks(scopes)) = Len(scopes)
  BY <1>1, TopFacts, ConstructFacts, ScopesFacts
<1>5. Len(scopes) = Len(Top.back) + (IF Top.at = "body" THEN 2 ELSE 1)
  BY <1>1, <1>4 DEF Inside
<1> DEFINE f == Front(scopes)
<1>6. /\ f \in Seq(Frames) /\ Len(f) = Len(scopes) - 1 /\ LiveAmong(f, scopes, copied')
      /\ f # <<>> /\ Len(f) \in Nat
  <2>1. f \in Seq(Frames) /\ Len(f) = Len(scopes) - 1
    BY <1>2, FrontOfSeq
  <2>2. LiveAmong(f, scopes, copied')
    BY <1>2, AmongFront
  <2> HIDE DEF f
  <2>3. f # <<>>
    <3> DEFINE l == Len(f)
               m == Len(Top.back)
               k == Len(scopes)
    <3>1. m \in Nat /\ m >= 1 /\ k \in {m + 1, m + 2} /\ l = k - 1
      BY <1>4, <1>5, <2>1
    <3> HIDE DEF l, m, k
    <3>2. l # 0
      BY <3>1
    <3> QED BY <2>1, <3>2, EmptySeq DEF l
  <2>4. Len(f) \in Nat
    BY <2>1, LenProperties
  <2> QED BY <2>1, <2>2, <2>3, <2>4
<1> HIDE DEF f
<1>7. Top.saved.var \in copied' /\ copied \subseteq copied'
  BY <1>1
<1>8. LiveAmong(scopes', scopes, copied')
  <2>1. CASE scopes' = RestoreIn(f)
    <3>1. LiveAmong(scopes', f, copied')
      BY <1>6, <1>7, <2>1, AmongRestored
    <3> QED BY <1>6, <3>1, AmongThose
  <2>2. CASE scopes' = RestoreIn(Front(f)) /\ Top.at = "body"
    <3>1. /\ Front(f) \in Seq(Frames) /\ Len(Front(f)) = Len(f) - 1
          /\ LiveAmong(Front(f), f, copied')
      BY <1>6, FrontOfSeq, AmongFront
    <3>2. Front(f) # <<>>
      BY <1>4, <1>5, <1>6, <2>2, <3>1, EmptySeq
    <3>3. LiveAmong(scopes', Front(f), copied')
      BY <1>7, <2>2, <3>1, <3>2, AmongRestored
    <3>4. LiveAmong(Front(f), scopes, copied')
      BY <1>6, <3>1, AmongThose
    <3> QED BY <3>3, <3>4, AmongThose
  <2> QED BY <1>1, <2>1, <2>2 DEF f
<1>9. fileScope'.x = fileScope.x /\ shared' \in {shared, Unbound}
  BY <1>1
<1> QED BY <1>1, <1>3, <1>7, <1>8, <1>9, SteadyStep

\* A loop goes on, and a statement that leaves the frames alone.
LEMMA MovedAside ==
    ASSUME TypeOK, BackInv, LoopMoved
    PROVE  AsideAmong(open', open)
<1>1. PICK c \in Constructs : c.stash = Top.stash /\ open' = [open EXCEPT ![Depth] = c]
  BY MovedLoop
<1>2. Top = open[Depth] /\ open \in Seq(Constructs)
  BY TopFacts DEF LoopMoved, TypeOK
<1> QED BY <1>1, <1>2, AsideMoved

\* The body of a loop ends, or its continue block: the loop goes on.
LEMMA GoesOnStowed ==
    ASSUME TypeOK, BackInv, StorageInv, Grown, BodyEnds \/ ContinueEnds
    PROVE  StorageInv'
<1>1. /\ stores' = stores /\ fileScope' = fileScope /\ shared' = shared /\ copied' = copied
      /\ scopes' \in {scopes, Front(scopes)}
  BY DEF BodyEnds, ContinueEnds, Advance, captured, ghosts
<1>2. open \in Seq(Constructs) /\ scopes \in Seq(Frames) /\ scopes # <<>>
  BY DEF TypeOK
<1>3. LoopMoved
  BY BodyMoves, ContinueMoves
<1>4. AsideAmong(open', open)
  BY <1>3, MovedAside
<1>5. LiveAmong(scopes', scopes, copied')
  BY <1>1, <1>2, AmongFront, AmongItself
<1> QED BY <1>1, <1>4, <1>5, SteadyStep

\* Statements and jumps that touch no frame.
LEMMA SameStowed ==
    ASSUME StorageInv,
           \/ Assign \/ Shrink \/ (\E f \in Flows \ {"none", "die"} : Jump(f)) \/ Over
           \/ SubGoesOn \/ CodeGoesOn \/ GotoLands \/ UNCHANGED vars
    PROVE  StorageInv'
<1>1. /\ stores' = stores /\ fileScope' = fileScope /\ shared' = shared /\ copied' = copied
      /\ scopes' = scopes /\ open' = open
  BY DEF Assign, Shrink, Jump, Over, SubGoesOn, CodeGoesOn, GotoLands, vars, captured, loops, ghosts
<1>2. LiveAmong(scopes', scopes, copied') /\ AsideAmong(open', open)
  BY <1>1, AmongItself, AsideItself
<1> QED BY <1>1, <1>2, SteadyStep

-----------------------------------------------------------------------------
(* New slots.                                                              *)

\* A step keeps the invariant if every slot after it is one from before, moved to its place
\* or with a cell to share, or is the new one.
LEMMA FromStep ==
    ASSUME StorageInv, copied \subseteq copied', NEW g, NEW n,
           LiveFrom(Now, g, n, scopes', copied'), FileFrom(Now, g, n, fileScope', copied'),
           SharedFrom(Now, g, n, shared', copied'), StoresFrom(Now, g, n, stores', copied'),
           AsideFrom(Now, g, n, open', copied')
    PROVE  StorageInv'
<1> DEFINE w == Now
           v == Now'
           c == copied
           d == copied'
<1>1. /\ LiveFrom(w, g, n, v.sc, d) /\ FileFrom(w, g, n, v.fs, d) /\ SharedFrom(w, g, n, v.sh, d)
      /\ StoresFrom(w, g, n, v.st, d) /\ AsideFrom(w, g, n, v.op, d)
      /\ Stowed(w, c) /\ c \subseteq d
  BY NowFields DEF StorageInv
<1> HIDE DEF w, v, c, d
<1>2. Stowed(v, d)
  BY <1>1, Carried
<1> QED BY <1>2 DEF StorageInv, v, d

\* All slots are of variables and cells so far,
LEMMA SpotTypes ==
    ASSUME TypeOK, NEW q \in Spots(Now)
    PROVE  SlotIn(Now, q) \in Slots
<1> DEFINE w == Now
           x == SlotIn(w, q)
<1>1. /\ w.sc = scopes /\ w.fs = fileScope /\ w.sh = shared /\ w.st = stores /\ w.op = open
  BY NowFields
<1>2. /\ scopes \in Seq(Frames) /\ fileScope \in Frames /\ shared \in Slots
      /\ stores \in Seq(Seq(Frames) \ {<<>>}) /\ open \in Seq(Constructs)
  BY DEF TypeOK
<1>3. \A f \in Frames : f.x \in Slots
  BY DEF Frames
<1> HIDE DEF w
<1>4. CASE \E i \in DOMAIN w.sc : q = Live(i)
  <2>1. PICK i \in DOMAIN w.sc : q = Live(i)
    BY <1>4
  <2>2. x = w.sc[i].x
    BY <2>1, SpotFacts
  <2>3. scopes[i] \in Frames
    BY <1>1, <1>2, <2>1, ElementOfSeq, LenProperties
  <2> QED BY <1>1, <1>3, <2>2, <2>3 DEF w
<1>5. CASE q = InFile
  <2>1. x = w.fs.x
    BY <1>5, SpotFacts
  <2> QED BY <1>1, <1>2, <1>3, <2>1 DEF w
<1>6. CASE q = InShared
  <2>1. x = w.sh
    BY <1>6, SpotFacts
  <2> QED BY <1>1, <1>2, <2>1 DEF w
<1>7. CASE \E e \in DOMAIN w.st : \E i \in DOMAIN w.st[e] : q = InStore(e, i)
  <2>1. PICK e \in DOMAIN w.st : \E i \in DOMAIN w.st[e] : q = InStore(e, i)
    BY <1>7
  <2>2. PICK i \in DOMAIN w.st[e] : q = InStore(e, i)
    BY <2>1
  <2>3. x = w.st[e][i].x
    BY <2>2, SpotFacts
  <2>4. stores[e] \in Seq(Frames)
    <3>1. e \in 1 .. Len(stores)
      BY <1>1, <1>2, <2>1, LenProperties
    <3>2. stores[e] \in Seq(Frames) \ {<<>>}
      BY <1>2, <3>1, ElementOfSeq
    <3> QED BY <3>2
  <2>5. stores[e][i] \in Frames
    <3> DEFINE u == stores[e]
    <3>1. u \in Seq(Frames) /\ i \in DOMAIN u
      BY <1>1, <2>2, <2>4
    <3> HIDE DEF u
    <3>2. u[i] \in Frames
      BY <3>1, ElementOfSeq, LenProperties
    <3> QED BY <3>2 DEF u
  <2> QED BY <1>1, <1>3, <2>3, <2>5 DEF w
<1>8. CASE \E k \in DOMAIN w.op : \E i \in DOMAIN w.op[k].stash : q = Aside(k, i)
  <2>1. PICK k \in DOMAIN w.op : \E i \in DOMAIN w.op[k].stash : q = Aside(k, i)
    BY <1>8
  <2>2. PICK i \in DOMAIN w.op[k].stash : q = Aside(k, i)
    BY <2>1
  <2>3. x = w.op[k].stash[i].x
    BY <2>2, SpotFacts
  <2>4. open[k].stash \in Seq(Frames)
    <3>1. k \in 1 .. Len(open)
      BY <1>1, <1>2, <2>1, LenProperties
    <3>2. open[k] \in Constructs
      BY <1>2, <3>1, ElementOfSeq
    <3> QED BY <3>2, ConstructFacts
  <2>5. open[k].stash[i] \in Frames
    <3> DEFINE u == open[k].stash
    <3>1. u \in Seq(Frames) /\ i \in DOMAIN u
      BY <1>1, <2>2, <2>4
    <3> HIDE DEF u
    <3>2. u[i] \in Frames
      BY <3>1, ElementOfSeq, LenProperties
    <3> QED BY <3>2 DEF u
  <2> QED BY <1>1, <1>3, <2>3, <2>5 DEF w
<1>9. q \in Spots(w)
  BY DEF w
<1>10. \/ \E i \in DOMAIN w.sc : q = Live(i)
       \/ q = InFile
       \/ q = InShared
       \/ \E e \in DOMAIN w.st : \E i \in DOMAIN w.st[e] : q = InStore(e, i)
       \/ \E k \in DOMAIN w.op : \E i \in DOMAIN w.op[k].stash : q = Aside(k, i)
  BY <1>9, SpotKinds
<1> QED BY <1>4, <1>5, <1>6, <1>7, <1>8, <1>10

\* so the next ones are new.
LEMMA NewSlot ==
    ASSUME TypeOK, NEW x, x.var = born + 1, x.cell = 0 \/ x.cell = celled + 1
    PROVE  New(Now, x)
<1> SUFFICES ASSUME NEW q \in Spots(Now)
             PROVE  /\ x.var # SlotIn(Now, q).var
                    /\ x.cell = 0 \/ x.cell # SlotIn(Now, q).cell
  BY DEF New
<1> DEFINE y == SlotIn(Now, q)
<1>1. y \in Slots
  BY SpotTypes
<1>2. born \in Nat /\ celled \in Nat
  BY DEF TypeOK
<1> HIDE DEF y
<1>3. y.var \in -1 .. born /\ y.cell \in 0 .. celled
  BY <1>1 DEF Slots
<1>4. x.var # y.var /\ (x.cell = 0 \/ x.cell # y.cell)
  BY <1>2, <1>3
<1> QED BY <1>4 DEF y

\* The innermost frame's slot is set,
LEMMA SetFrom ==
    ASSUME NEW w, NEW g, NEW n, NEW d, NEW S, w.sc \in Seq(S), w.sc # <<>>,
           StaysLive(g, w.sc), NEW x, HeldIn(x, d) => From(w, g, n, x, Live(Len(w.sc)))
    PROVE  LiveFrom(w, g, n, [w.sc EXCEPT ![Len(w.sc)].x = x], d)
<1> DEFINE s == w.sc
           m == Len(s)
           t == [s EXCEPT ![m].x = x]
<1>1. m \in Nat /\ m >= 1 /\ DOMAIN s = 1 .. m /\ m \in 1 .. m
  BY LastOfSeq, LenProperties
<1>2. DOMAIN t = 1 .. m /\ (\A i \in 1 .. m : i # m => t[i] = s[i])
  BY <1>1
<1>3. t[m].x = x \/ t[m].x = s[m].x
  <2>1. t[m] = [s[m] EXCEPT !.x = x]
    BY <1>1
  <2> DEFINE f == s[m]
  <2>2. [f EXCEPT !.x = x].x = x \/ [f EXCEPT !.x = x].x = f.x
    OBVIOUS
  <2> QED BY <2>1, <2>2
<1>4. ASSUME NEW i \in 1 .. m PROVE From(w, g, n, s[i].x, Live(i))
  <2>1. Live(i) \in Spots(w) /\ SlotIn(w, Live(i)) = s[i].x /\ g[Live(i)] = Live(i)
    BY <1>1, SpotFacts DEF StaysLive
  <2> QED BY <2>1 DEF From
<1>5. HeldIn(x, d) => From(w, g, n, x, Live(m))
  OBVIOUS
<1> HIDE DEF t, m, s
<1>6. ASSUME NEW i \in 1 .. m, HeldIn(t[i].x, d) PROVE From(w, g, n, t[i].x, Live(i))
  <2>1. CASE i # m
    BY <1>2, <1>4, <2>1
  <2>2. CASE i = m
    <3>1. CASE t[m].x = x
      BY <1>5, <1>6, <2>2, <3>1
    <3>2. CASE t[m].x = s[m].x
      BY <1>4, <2>2, <3>2
    <3> QED BY <1>3, <3>1, <3>2
  <2> QED BY <2>1, <2>2
<1>7. LiveFrom(w, g, n, t, d)
  BY <1>2, <1>6 DEF LiveFrom
<1> QED BY <1>7 DEF t, m, s

\* and there may be other frames above it.
LEMMA FromAmong ==
    ASSUME NEW w, NEW g, NEW n, NEW d, NEW t, NEW u, LiveFrom(w, g, n, t, d), LiveAmong(u, t, d)
    PROVE  LiveFrom(w, g, n, u, d)
BY DEF LiveFrom, LiveAmong

\* The rest stays.
LEMMA RestStays ==
    ASSUME StorageInv, copied \subseteq copied', NEW n, AsideAmong(open', open)
    PROVE  LET g == Staying(Now)
           IN /\ StaysLive(g, Now.sc)
              /\ fileScope' = fileScope => FileFrom(Now, g, n, fileScope', copied')
              /\ shared' = shared => SharedFrom(Now, g, n, shared', copied')
              /\ stores' = stores => StoresFrom(Now, g, n, stores', copied')
              /\ AsideFrom(Now, g, n, open', copied')
<1> DEFINE w == Now
           g == Staying(w)
           c == copied
           d == copied'
<1>1. /\ w.fs = fileScope /\ w.sh = shared /\ w.st = stores /\ w.op = open
      /\ Stowed(w, c) /\ c \subseteq d
  BY NowFields DEF StorageInv
<1> HIDE DEF w, c, d
<1>2. StaysLive(g, w.sc) /\ StaysAside(g, open') /\ g[InFile] = InFile
  BY <1>1, StayingFacts
<1> HIDE DEF g
<1>3. FileFrom(w, g, n, w.fs, d) /\ SharedFrom(w, g, n, w.sh, d) /\ StoresFrom(w, g, n, w.st, d)
  BY <1>1, <1>2, FileStays, SharedStays, StoresStay
<1>4. AsideFrom(w, g, n, open', d)
  BY <1>1, <1>2, AsideStays
<1> QED BY <1>1, <1>2, <1>3, <1>4 DEF w, g, d

\* `my $x` gives the innermost frame a variable of its own.
LEMMA MyStowed ==
    ASSUME TypeOK, StorageInv, My
    PROVE  StorageInv'
<1> DEFINE x == [var |-> born + 1, cell |-> 0]
           n == Live(Len(scopes))
           g == Staying(Now)
<1>1. /\ scopes' = [scopes EXCEPT ![Len(scopes)].x = x] /\ open' = open /\ stores' = stores
      /\ fileScope' = fileScope /\ shared' = shared /\ copied' = copied
  BY DEF My, captured, loops
<1>2. New(Now, x)
  BY NewSlot
<1> HIDE DEF x
<1>3. /\ StaysLive(g, Now.sc)
      /\ FileFrom(Now, g, n, fileScope', copied') /\ SharedFrom(Now, g, n, shared', copied')
      /\ StoresFrom(Now, g, n, stores', copied') /\ AsideFrom(Now, g, n, open', copied')
  BY <1>1, AsideItself, RestStays
<1>4. Now.sc = scopes /\ scopes \in Seq(Frames) /\ scopes # <<>>
  BY NowFields DEF TypeOK
<1>5. From(Now, g, n, x, n)
  BY <1>2 DEF From
<1> HIDE DEF g, n
<1>6. n = Live(Len(Now.sc))
  BY <1>4 DEF n
<1>7. LiveFrom(Now, g, n, [Now.sc EXCEPT ![Len(Now.sc)].x = x], copied')
  BY <1>3, <1>4, <1>5, <1>6, SetFrom
<1> QED BY <1>1, <1>3, <1>4, <1>7, FromStep

\* An item has a cell of its own, or the shared one.
LEMMA ItemStowed ==
    ASSUME TypeOK, BackInv, StorageInv, Grown, NextItem
    PROVE  StorageInv'
<1> DEFINE x == Item
           s == [scopes EXCEPT ![Len(scopes)].x = x]
           t == IF Top.again THEN scopes ELSE s
           f == Frame(Depth)
           n == Live(Len(scopes))
           g == Staying(Now)
           fresh == ~Top.again /\ Top.list # "magic"
<1>1. /\ scopes' = Append(t, f) /\ stores' = stores
      /\ fileScope' = fileScope /\ shared' = shared /\ copied' = copied
      /\ born' = (IF fresh THEN born + 1 ELSE born)
      /\ celled' = (IF fresh THEN celled + 1 ELSE celled)
  BY DEF NextItem, captured, loops
<1>2. AsideAmong(open', open) /\ open # <<>>
  BY ItemMoves, MovedAside DEF LoopMoved
<1>3. /\ StaysLive(g, Now.sc)
      /\ FileFrom(Now, g, n, fileScope', copied') /\ SharedFrom(Now, g, n, shared', copied')
      /\ StoresFrom(Now, g, n, stores', copied') /\ AsideFrom(Now, g, n, open', copied')
  BY <1>1, <1>2, RestStays
<1>4. /\ Now.sc = scopes /\ Now.sh = shared /\ scopes \in Seq(Frames) /\ scopes # <<>>
      /\ born \in Nat /\ celled \in Nat /\ shared \in Slots
  BY NowFields DEF TypeOK
<1>5. Frames \subseteq Frames' /\ Slots \subseteq Slots'
  BY LargerFrames DEF Grown
<1>6. f \in Frames'
  <2>1. Depth \in -2 .. MaxDepth /\ Unbound \in Slots
    <3>1. Depth <= MaxDepth /\ MaxDepth \in Nat /\ Depth \in Nat
      BY <1>2, LexicalsAssumption, TopFacts DEF TypeOK
    <3> QED BY <1>4, <3>1 DEF Unbound, Slots
  <2>2. f \in Frames
    BY <2>1 DEF Frame, Frames
  <2> QED BY <1>5, <2>2
<1> HIDE DEF g, n, f, fresh, x
<1>7. t \in Seq(Frames') /\ LiveFrom(Now, g, n, t, copied')
  <2>1. CASE Top.again
    <3>1. t = scopes
      BY <2>1
    <3> HIDE DEF t
    <3>2. scopes \in Seq(Frames')
      <4>1. Seq(Frames) \subseteq Seq(Frames')
        BY <1>5, SeqMonotonic
      <4> QED BY <1>4, <4>1
    <3>3. LiveAmong(t, Now.sc, copied')
      BY <1>4, <3>1, AmongItself
    <3> QED BY <1>3, <3>1, <3>2, <3>3, LiveStays
  <2>2. CASE ~ Top.again
    <3>1. t = s
      BY <2>2
    <3>2. x \in Slots' /\ (HeldIn(x, copied') => From(Now, g, n, x, n))
      <4>1. CASE Top.list = "magic"
        <5>1. x = shared
          BY <4>1 DEF Item, x
        <5>2. HeldIn(shared, copied) => shared.cell # 0
          BY <1>4 DEF StorageInv, Stowed, Celled
        <5>3. InShared \in Spots(Now) /\ SlotIn(Now, InShared) = shared
          BY <1>4, SpotFacts
        <5>4. HeldIn(x, copied') => From(Now, g, n, x, n)
          BY <1>1, <5>1, <5>2, <5>3 DEF From
        <5> QED BY <1>4, <1>5, <5>1, <5>4
      <4>2. CASE Top.list # "magic"
        <5>1. born' = born + 1 /\ celled' = celled + 1 /\ x = [var |-> born + 1, cell |-> celled + 1]
          BY <1>1, <2>2, <4>2 DEF Item, x, fresh
        <5>2. x.var = born + 1 /\ x.cell = celled + 1
          BY <5>1
        <5>3. New(Now, x)
          BY <5>2, NewSlot
        <5>4. x \in Slots'
          BY <1>4, <5>1 DEF Slots
        <5> QED BY <5>3, <5>4 DEF From
      <4> QED BY <4>1, <4>2
    <3> HIDE DEF t
    <3>3. s \in Seq(Frames')
      BY <1>5, <3>2, SetX
    <3>4. n = Live(Len(Now.sc))
      BY <1>4 DEF n
    <3>5. LiveFrom(Now, g, n, [Now.sc EXCEPT ![Len(Now.sc)].x = x], copied')
      BY <1>3, <1>4, <3>2, <3>4, SetFrom
    <3> QED BY <1>4, <3>1, <3>3, <3>5
  <2> QED BY <2>1, <2>2
<1> HIDE DEF t
<1>8. LiveAmong(Append(t, f), t, copied')
  BY <1>6, <1>7, AmongPushed DEF f
<1>9. LiveFrom(Now, g, n, scopes', copied')
  BY <1>1, <1>7, <1>8, FromAmong
<1> QED BY <1>1, <1>3, <1>9, FromStep

\* A loop over `pos $x` makes the shared slot.
LEMMA ForStowed ==
    ASSUME TypeOK, StorageInv, NEW list \in Lists, NEW cont \in BOOLEAN, For(list, cont)
    PROVE  StorageInv'
<1> DEFINE owns == list = "magic" /\ shared = Unbound
           d == Construct("for")
           items == Items(list)
           x == Visible(scopes)
           c == [d EXCEPT !.list = list, !.at = "head", !.i = 1, !.n = items,
                          !.saved = x, !.owned = owns, !.cont = cont]
           y == [var |-> born + 1, cell |-> celled + 1]
<1>1. /\ Depth < MaxDepth /\ "for" \in Kinds /\ open' = Append(open, c)
      /\ scopes' = Append(scopes, Frame(Depth + 1))
      /\ stores' = stores /\ fileScope' = fileScope /\ copied' = copied
      /\ shared' = IF owns THEN y ELSE shared
  BY DEF For, Opens, captured
<1>2. d \in Constructs /\ d.stash = <<>>
  BY <1>1, NewConstruct
<1>3. open \in Seq(Constructs) /\ scopes \in Seq(Frames) /\ Frame(Depth + 1) \in Frames
  BY <1>1, NewFrame DEF TypeOK
<1> HIDE DEF d, items, x, owns
<1>4. AsideAmong(open', open)
  <2>1. c.stash = <<>>
    BY <1>2 DEF Constructs
  <2> HIDE DEF c
  <2> DEFINE C == Constructs \cup {c}
  <2>2. open \in Seq(C) /\ c \in C
    <3>1. Seq(Constructs) \subseteq Seq(C)
      BY SeqMonotonic
    <3> QED BY <1>3, <3>1
  <2> HIDE DEF C
  <2> QED BY <1>1, <2>1, <2>2, AsidePushed
<1>5. LiveAmong(scopes', scopes, copied')
  BY <1>1, <1>3, AmongPushed
<1>6. CASE ~ owns
  <2>1. shared' \in {shared, Unbound} /\ fileScope'.x = fileScope.x /\ copied \subseteq copied'
    BY <1>1, <1>6
  <2> QED BY <1>1, <1>4, <1>5, <2>1, SteadyStep
<1>7. CASE owns
  <2> DEFINE g == Staying(Now)
             n == InShared
  <2>1. /\ StaysLive(g, Now.sc) /\ FileFrom(Now, g, n, fileScope', copied')
        /\ StoresFrom(Now, g, n, stores', copied') /\ AsideFrom(Now, g, n, open', copied')
    BY <1>1, <1>4, RestStays
  <2> HIDE DEF g, n
  <2>2. LiveFrom(Now, g, n, scopes', copied')
    <3>1. Now.sc = scopes
      BY NowFields
    <3> QED BY <1>5, <2>1, <3>1, LiveStays
  <2>3. SharedFrom(Now, g, n, shared', copied')
    <3>1. shared' = y /\ y.var = born + 1 /\ y.cell = celled + 1 /\ celled \in Nat
      BY <1>1, <1>7 DEF TypeOK
    <3>2. New(Now, y)
      BY <3>1, NewSlot
    <3> HIDE DEF y
    <3>3. y.cell # 0
      BY <3>1
    <3>4. From(Now, g, n, y, InShared)
      BY <3>2 DEF From, n
    <3> QED BY <3>1, <3>3, <3>4 DEF SharedFrom
  <2> QED BY <1>1, <2>1, <2>2, <2>3, FromStep
<1> QED BY <1>6, <1>7

-----------------------------------------------------------------------------
(* Frames put aside and brought back.                                      *)

\* Live(i) goes to h[i], the file's slot to f, and Aside(m, i) to a[i]; the others stay.
Moving(w, h, f, m, a) ==
    [q \in Spots(w) |-> IF q \in LiveSpots(w) THEN h[q[3]]
                        ELSE IF q = InFile THEN f
                        ELSE IF q[1] = "aside" /\ q[2] = m THEN a[q[3]]
                        ELSE q]

\* Where Moving takes the slots from.
LEMMA MovingFacts ==
    ASSUME NEW w, NEW h, NEW f, NEW m, NEW a
    PROVE  LET g == Moving(w, h, f, m, a)
           IN /\ \A i \in DOMAIN w.sc : g[Live(i)] = h[i]
              /\ g[InFile] = f
              /\ \A k \in DOMAIN w.op : \A i \in DOMAIN w.op[k].stash :
                     g[Aside(k, i)] = IF k = m THEN a[i] ELSE Aside(k, i)
<1> DEFINE g == Moving(w, h, f, m, a)
<1>1. ASSUME NEW q \in Spots(w)
      PROVE  g[q] = IF q \in LiveSpots(w) THEN h[q[3]]
                    ELSE IF q = InFile THEN f
                    ELSE IF q[1] = "aside" /\ q[2] = m THEN a[q[3]] ELSE q
  BY DEF Moving
<1> HIDE DEF g
<1>2. ASSUME NEW i \in DOMAIN w.sc PROVE g[Live(i)] = h[i]
  <2>1. Live(i) \in LiveSpots(w) /\ Live(i) \in Spots(w) /\ Live(i)[3] = i
    BY SpotFacts DEF LiveSpots, Live
  <2> QED BY <1>1, <2>1
<1>3. g[InFile] = f
  <2>1. InFile \in Spots(w) /\ InFile \notin LiveSpots(w)
    BY SpotFacts, SpotsDiffer DEF LiveSpots
  <2> QED BY <1>1, <2>1
<1>4. ASSUME NEW k \in DOMAIN w.op, NEW i \in DOMAIN w.op[k].stash
      PROVE  g[Aside(k, i)] = IF k = m THEN a[i] ELSE Aside(k, i)
  <2> DEFINE q == Aside(k, i)
  <2>1. q \notin LiveSpots(w) /\ q # InFile
    BY SpotsDiffer DEF LiveSpots
  <2>2. q \in Spots(w)
    BY SpotFacts
  <2>3. q[1] = "aside" /\ q[2] = k /\ q[3] = i
    BY DEF Aside
  <2> HIDE DEF q
  <2>4. g[q] = IF k = m THEN a[i] ELSE q
    BY <1>1, <2>1, <2>2, <2>3
  <2> QED BY <2>4 DEF q
<1> QED BY <1>2, <1>3, <1>4 DEF g

\* A slot from the frames, from the file, or from what was aside.
LEMMA FromLive ==
    ASSUME NEW w, NEW g, NEW n, NEW i \in DOMAIN w.sc
    PROVE  From(w, g, n, w.sc[i].x, g[Live(i)])
<1>1. Live(i) \in Spots(w) /\ SlotIn(w, Live(i)) = w.sc[i].x
  BY SpotFacts
<1> QED BY <1>1 DEF From

\* The file's slot comes from a place that Moving names,
LEMMA FromFile ==
    ASSUME NEW w, NEW g, NEW n
    PROVE  From(w, g, n, w.fs.x, g[InFile])
<1>1. InFile \in Spots(w) /\ SlotIn(w, InFile) = w.fs.x
  BY SpotFacts
<1> QED BY <1>1 DEF From

\* so does a slot put aside,
LEMMA FromAside ==
    ASSUME NEW w, NEW g, NEW n, NEW k \in DOMAIN w.op, NEW i \in DOMAIN w.op[k].stash
    PROVE  From(w, g, n, w.op[k].stash[i].x, g[Aside(k, i)])
<1>1. Aside(k, i) \in Spots(w) /\ SlotIn(w, Aside(k, i)) = w.op[k].stash[i].x
  BY SpotFacts
<1> QED BY <1>1 DEF From

\* and the slot of an environment, which has a cell, from any.
LEMMA FromStore ==
    ASSUME NEW w, NEW g, NEW n, NEW e \in DOMAIN w.st, NEW i \in DOMAIN w.st[e],
           w.st[e][i].x.cell # 0, NEW p
    PROVE  From(w, g, n, w.st[e][i].x, p)
<1>1. InStore(e, i) \in Spots(w) /\ SlotIn(w, InStore(e, i)) = w.st[e][i].x
  BY SpotFacts
<1> QED BY <1>1 DEF From

\* One more construct, or the innermost one gone.
LEMMA AsideMore ==
    ASSUME NEW w, NEW g, NEW n, NEW d, NEW C, w.op \in Seq(C), NEW c \in C,
           StaysAside(g, w.op),
           \A i \in DOMAIN c.stash : HeldIn(c.stash[i].x, d) =>
               From(w, g, n, c.stash[i].x, Aside(Len(w.op) + 1, i))
    PROVE  AsideFrom(w, g, n, Append(w.op, c), d)
<1> DEFINE s == w.op
           t == Append(s, c)
           l == Len(s)
<1>1. /\ t \in Seq(C) /\ l \in Nat /\ Len(t) = l + 1 /\ (\A k \in 1 .. l : t[k] = s[k])
      /\ t[l + 1] = c
  BY AppendToSeq, LenProperties
<1>2. DOMAIN t = 1 .. l + 1 /\ DOMAIN s = 1 .. l
  BY <1>1, LenProperties
<1>3. ASSUME NEW k \in DOMAIN s, NEW i \in DOMAIN s[k].stash
      PROVE  From(w, g, n, s[k].stash[i].x, Aside(k, i))
  <2>1. From(w, g, n, w.op[k].stash[i].x, g[Aside(k, i)])
    BY FromAside
  <2>2. g[Aside(k, i)] = Aside(k, i)
    BY DEF StaysAside
  <2> QED BY <2>1, <2>2
<1>4. \A i \in DOMAIN c.stash : HeldIn(c.stash[i].x, d) =>
          From(w, g, n, c.stash[i].x, Aside(l + 1, i))
  OBVIOUS
<1> HIDE DEF s, t, l
<1>5. ASSUME NEW k \in DOMAIN t, NEW i \in DOMAIN t[k].stash, HeldIn(t[k].stash[i].x, d)
      PROVE  From(w, g, n, t[k].stash[i].x, Aside(k, i))
  <2>1. k = l + 1 \/ k \in DOMAIN s
    BY <1>1, <1>2
  <2>2. CASE k = l + 1
    <3>1. t[k] = c
      BY <1>1, <2>2
    <3> QED BY <1>4, <1>5, <2>2, <3>1
  <2>3. CASE k \in DOMAIN s
    <3>1. t[k] = s[k]
      BY <1>1, <1>2, <2>3
    <3> QED BY <1>3, <1>5, <2>3, <3>1
  <2> QED BY <2>1, <2>2, <2>3
<1>6. AsideFrom(w, g, n, t, d)
  BY <1>5 DEF AsideFrom
<1> QED BY <1>6 DEF t, s

\* The innermost construct ends.
LEMMA AsideFewer ==
    ASSUME NEW w, NEW g, NEW n, NEW d, NEW C, w.op \in Seq(C), w.op # <<>>,
           StaysAside(g, Front(w.op))
    PROVE  AsideFrom(w, g, n, Front(w.op), d)
<1>1. AsideAmong(Front(w.op), w.op)
  BY AsideFront
<1> QED BY <1>1, AsideStays

\* What Moving leaves alone.
LEMMA MovingStays ==
    ASSUME NEW w, NEW h, NEW f, NEW m, NEW a, NEW C, w.op \in Seq(C)
    PROVE  LET g == Moving(w, h, f, m, a)
           IN /\ m \notin DOMAIN w.op => StaysAside(g, w.op)
              /\ w.op # <<>> /\ m = Len(w.op) => StaysAside(g, Front(w.op))
<1> DEFINE g == Moving(w, h, f, m, a)
<1>1. \A k \in DOMAIN w.op : \A i \in DOMAIN w.op[k].stash :
          g[Aside(k, i)] = IF k = m THEN a[i] ELSE Aside(k, i)
  BY MovingFacts
<1> HIDE DEF g
<1>2. ASSUME m \notin DOMAIN w.op PROVE StaysAside(g, w.op)
  BY <1>1, <1>2 DEF StaysAside
<1>3. ASSUME w.op # <<>>, m = Len(w.op) PROVE StaysAside(g, Front(w.op))
  <2> DEFINE s == w.op
             t == Front(s)
  <2>1. t \in Seq(C) /\ m \in Nat /\ Len(t) = m - 1 /\ \A k \in 1 .. m - 1 : t[k] = s[k]
    BY <1>3, FrontOfSeq, LenProperties
  <2>2. DOMAIN t = 1 .. m - 1 /\ DOMAIN s = 1 .. m
    BY <1>3, <2>1, LenProperties
  <2>3. \A k \in DOMAIN s : \A i \in DOMAIN s[k].stash :
            g[Aside(k, i)] = IF k = m THEN a[i] ELSE Aside(k, i)
    BY <1>1
  <2> HIDE DEF s, t
  <2>4. \A k \in DOMAIN t : k \in DOMAIN s /\ k # m /\ t[k] = s[k]
    BY <2>1, <2>2
  <2>5. StaysAside(g, t)
    BY <2>3, <2>4 DEF StaysAside
  <2> QED BY <2>5 DEF t, s
<1> QED BY <1>2, <1>3 DEF g

\* do FILE puts all the frames aside,
LEMMA DoFileStowed ==
    ASSUME TypeOK, StorageInv, DoFile
    PROVE  StorageInv'
<1> DEFINE d == Construct("dofile")
           c == [d EXCEPT !.stash = scopes]
           f == Frame(Depth + 1)
           h == [i \in DOMAIN scopes |-> Aside(Depth + 1, i)]
           g == Moving(Now, h, InFile, 0, <<>>)
<1>1. /\ Depth < MaxDepth /\ "dofile" \in Kinds /\ open' = Append(open, c) /\ scopes' = <<f>>
      /\ stores' = stores /\ fileScope' = fileScope /\ shared' = shared /\ copied' = copied
  BY DEF DoFile, Opens, captured, loops, ghosts
<1>2. d \in Constructs
  BY <1>1, NewConstruct
<1>3. scopes \in Seq(Frames) /\ open \in Seq(Constructs)
  BY DEF TypeOK
<1>4. c \in Constructs /\ c.stash = scopes
  <2> HIDE DEF d
  <2> QED BY <1>2, <1>3 DEF Constructs
<1> HIDE DEF c
<1>5. Now.sc = scopes /\ Now.op = open /\ Now.fs = fileScope /\ Now.sh = shared /\ Now.st = stores
  BY NowFields
<1>6. 0 \notin DOMAIN open
  BY <1>3, LenProperties
<1>7. /\ StaysAside(g, open) /\ g[InFile] = InFile
      /\ \A i \in DOMAIN scopes : g[Live(i)] = Aside(Depth + 1, i)
  <2>1. StaysAside(g, open)
    BY <1>3, <1>5, <1>6, MovingStays
  <2>2. g[InFile] = InFile /\ \A i \in DOMAIN Now.sc : g[Live(i)] = h[i]
    BY MovingFacts
  <2> HIDE DEF g
  <2> QED BY <1>5, <2>1, <2>2
<1> HIDE DEF g
<1>8. AsideFrom(Now, g, "", open', copied')
  <2>1. ASSUME NEW i \in DOMAIN c.stash
        PROVE  From(Now, g, "", c.stash[i].x, Aside(Len(Now.op) + 1, i))
    <3>1. From(Now, g, "", Now.sc[i].x, g[Live(i)])
      BY <1>4, <1>5, FromLive
    <3>2. g[Live(i)] = Aside(Len(Now.op) + 1, i)
      BY <1>4, <1>5, <1>7 DEF Depth
    <3> QED BY <1>4, <1>5, <3>1, <3>2
  <2>2. AsideFrom(Now, g, "", Append(Now.op, c), copied')
    BY <1>3, <1>4, <1>5, <1>7, <2>1, AsideMore
  <2> QED BY <1>1, <1>5, <2>2
<1>9. LiveFrom(Now, g, "", scopes', copied')
  <2>1. f.x = Unbound /\ ~ HeldIn(Unbound, copied')
    BY DEF Frame, HeldIn, Unbound
  <2> HIDE DEF f
  <2>2. \A i \in DOMAIN scopes' : scopes'[i] = f
    BY <1>1
  <2> QED BY <2>1, <2>2 DEF LiveFrom
<1>10. /\ FileFrom(Now, g, "", fileScope', copied') /\ SharedFrom(Now, g, "", shared', copied')
       /\ StoresFrom(Now, g, "", stores', copied')
  BY <1>1, <1>5, <1>7, FileStays, SharedStays, StoresStay DEF StorageInv
<1> QED BY <1>1, <1>8, <1>9, <1>10, FromStep

\* and its end brings them back.
LEMMA DoFileEndStowed ==
    ASSUME TypeOK, BackInv, StorageInv, DoFileEnds
    PROVE  StorageInv'
<1> DEFINE w == Top.stash
           h == [i \in DOMAIN scopes |-> InShared]
           a == [i \in DOMAIN w |-> Live(i)]
           g == Moving(Now, h, InFile, Depth, a)
<1>1. /\ open # <<>> /\ open' = Front(open) /\ scopes' = w
      /\ stores' = stores /\ fileScope' = fileScope /\ shared' = shared /\ copied' = copied
  BY DEF DoFileEnds, captured, loops, ghosts
<1>2. Top = open[Depth] /\ Depth \in Nat /\ Depth >= 1
  BY <1>1, TopFacts
<1>3. open \in Seq(Constructs) /\ Depth = Len(open)
  BY DEF TypeOK, Depth
<1>4. Now.sc = scopes /\ Now.op = open /\ Now.fs = fileScope /\ Now.sh = shared /\ Now.st = stores
  BY NowFields
<1>5. Depth \in DOMAIN open
  BY <1>2, <1>3, LenProperties
<1>6. StaysAside(g, Front(open)) /\ g[InFile] = InFile
  <2>1. Now.op \in Seq(Constructs) /\ Now.op # <<>> /\ Depth = Len(Now.op)
    BY <1>1, <1>3, <1>4
  <2>2. Now.op # <<>> /\ Depth = Len(Now.op) => StaysAside(g, Front(Now.op))
    BY <2>1, MovingStays
  <2>3. g[InFile] = InFile
    BY MovingFacts
  <2> QED BY <1>4, <2>1, <2>2, <2>3
<1>7. \A i \in DOMAIN w : g[Aside(Depth, i)] = Live(i)
  <2>1. \A i \in DOMAIN Now.op[Depth].stash :
            g[Aside(Depth, i)] = IF Depth = Depth THEN a[i] ELSE Aside(Depth, i)
    BY <1>4, <1>5, MovingFacts
  <2> HIDE DEF g
  <2> QED BY <1>2, <1>4, <2>1
<1> HIDE DEF g
<1>8. LiveFrom(Now, g, "", scopes', copied')
  <2>1. ASSUME NEW i \in DOMAIN w PROVE From(Now, g, "", w[i].x, Live(i))
    <3>1. From(Now, g, "", Now.op[Depth].stash[i].x, g[Aside(Depth, i)])
      BY <1>2, <1>4, <1>5, FromAside
    <3> QED BY <1>2, <1>4, <1>7, <3>1
  <2> QED BY <1>1, <2>1 DEF LiveFrom
<1>9. AsideFrom(Now, g, "", open', copied')
  BY <1>1, <1>3, <1>4, <1>6, AsideFewer
<1>10. /\ FileFrom(Now, g, "", fileScope', copied') /\ SharedFrom(Now, g, "", shared', copied')
       /\ StoresFrom(Now, g, "", stores', copied')
  BY <1>1, <1>4, <1>6, FileStays, SharedStays, StoresStay DEF StorageInv
<1> QED BY <1>1, <1>8, <1>9, <1>10, FromStep

\* eval STRING puts some of them aside,
LEMMA StringStowed ==
    ASSUME TypeOK, StorageInv, EvalString
    PROVE  StorageInv'
<1> DEFINE d == Construct("string")
           c == [d EXCEPT !.stash = Hidden]
           f == Frame(Depth + 1)
           rest == <<Head(scopes)>> \o SubSeq(scopes, LexicalEnd + 1, Len(scopes))
           r == IF Hidden = <<>> THEN scopes ELSE rest
           n == Len(scopes)
           l == Len(Hidden)
           o == Depth + 1
<1>1. /\ Depth < MaxDepth /\ "string" \in Kinds /\ open' = Append(open, c) /\ scopes' = r \o <<f>>
      /\ stores' = stores /\ fileScope' = fileScope /\ shared' = shared /\ copied' = copied
  BY DEF EvalString, Opens, captured, loops, ghosts
<1>2. d \in Constructs
  BY <1>1, NewConstruct
<1>3. scopes \in Seq(Frames) /\ open \in Seq(Constructs) /\ f \in Frames
  BY <1>1, NewFrame DEF TypeOK
<1>4. Now.sc = scopes /\ Now.op = open /\ Now.fs = fileScope /\ Now.sh = shared /\ Now.st = stores
  BY NowFields
<1>5. CASE Hidden = <<>>
  <2>1. scopes' = Append(scopes, f)
    <3> HIDE DEF f, rest
    <3> QED BY <1>1, <1>3, <1>5
  <2>2. c \in Constructs /\ c.stash = <<>>
    <3>1. <<>> \in Seq(Frames)
      BY EmptySeq
    <3> HIDE DEF d
    <3> QED BY <1>2, <1>5, <3>1 DEF Constructs
  <2> HIDE DEF c
  <2>3. AsideAmong(open', open)
    BY <1>1, <1>3, <2>2, AsidePushed
  <2>4. LiveAmong(scopes', scopes, copied')
    BY <1>3, <2>1, AmongPushed
  <2> QED BY <1>1, <2>3, <2>4, SteadyStep
<1>6. CASE Hidden # <<>>
  <2> DEFINE h == [i \in DOMAIN scopes |-> IF i = 1 THEN Live(1)
                                           ELSE IF i <= l + 1 THEN Aside(o, i - 1)
                                           ELSE Live(i - l)]
             g == Moving(Now, h, InFile, 0, <<>>)
  <2>1. /\ Hidden \in Seq(Frames) /\ n \in Nat /\ l \in Nat /\ l < n
        /\ (\A i \in 1 .. l : Hidden[i] = scopes[i + 1])
        /\ rest \in Seq(Frames) /\ Len(rest) = n - l /\ rest[1] = scopes[1]
        /\ (\A i \in 2 .. n - l : rest[i] = scopes[i + l])
    <3>1. LexicalEnd \in 2 .. Len(scopes)
      BY <1>6 DEF Hidden
    <3> QED BY <3>1, HiddenSlots
  <2>2. r = rest
    BY <1>6
  <2> HIDE DEF r, rest, f
  <2>3. scopes' = Append(rest, f)
    BY <1>1, <1>3, <2>1, <2>2
  <2>4. c \in Constructs /\ c.stash = Hidden
    <3> HIDE DEF d
    <3> QED BY <1>2, <2>1 DEF Constructs
  <2> HIDE DEF c
  <2>5. 0 \notin DOMAIN open /\ DOMAIN scopes = 1 .. n /\ DOMAIN Hidden = 1 .. l /\ DOMAIN rest = 1 .. n - l
    BY <1>3, <2>1, LenProperties
  <2>6. StaysAside(g, open)
    BY <1>3, <1>4, <2>5, MovingStays
  <2>7. g[InFile] = InFile /\ \A i \in 1 .. n : g[Live(i)] = h[i]
    <3>1. g[InFile] = InFile /\ \A i \in DOMAIN Now.sc : g[Live(i)] = h[i]
      BY MovingFacts
    <3> HIDE DEF g, h
    <3> QED BY <1>4, <2>5, <3>1
  <2> HIDE DEF g, n, l
  <2>8. ASSUME NEW i \in 1 .. n
        PROVE  g[Live(i)] = IF i = 1 THEN Live(1) ELSE IF i <= l + 1 THEN Aside(o, i - 1)
                            ELSE Live(i - l)
    BY <2>5, <2>7
  <2> HIDE DEF h
  <2>9. \A i \in 1 .. n : From(Now, g, "", scopes[i].x, g[Live(i)])
    BY <1>4, <2>5, FromLive
  <2>10. ASSUME NEW i \in 1 .. l PROVE From(Now, g, "", Hidden[i].x, Aside(o, i))
    <3> DEFINE j == i + 1
    <3>1. j \in 1 .. n /\ j # 1 /\ j <= l + 1 /\ j - 1 = i
      BY <2>1
    <3>2. Hidden[i] = scopes[j]
      BY <2>1 DEF l
    <3> HIDE DEF j
    <3>3. g[Live(j)] = Aside(o, i)
      BY <2>8, <3>1
    <3> QED BY <2>9, <3>1, <3>2, <3>3
  <2>11. ASSUME NEW i \in 1 .. n - l PROVE From(Now, g, "", rest[i].x, Live(i))
    <3>1. CASE i = 1
      <4>1. 1 \in 1 .. n
        BY <2>1
      <4>2. g[Live(1)] = Live(1)
        BY <2>8, <4>1
      <4> QED BY <2>1, <2>9, <3>1, <4>1, <4>2
    <3>2. CASE i # 1
      <4> DEFINE j == i + l
      <4>1. j \in 1 .. n /\ j # 1 /\ ~ (j <= l + 1) /\ j - l = i /\ i \in 2 .. n - l
        BY <2>1, <3>2
      <4>2. rest[i] = scopes[j]
        BY <2>1, <4>1 DEF n, l
      <4> HIDE DEF j
      <4>3. g[Live(j)] = Live(i)
        BY <2>8, <4>1
      <4> QED BY <2>9, <4>1, <4>2, <4>3
    <3> QED BY <3>1, <3>2
  <2>12. AsideFrom(Now, g, "", open', copied')
    <3>1. DOMAIN c.stash = 1 .. l /\ o = Len(Now.op) + 1
      BY <1>4, <2>4, <2>5 DEF l, o, Depth
    <3>2. \A i \in DOMAIN c.stash : From(Now, g, "", c.stash[i].x, Aside(Len(Now.op) + 1, i))
      BY <2>4, <2>10, <3>1
    <3>3. AsideFrom(Now, g, "", Append(Now.op, c), copied')
      BY <1>3, <1>4, <2>4, <2>6, <3>2, AsideMore
    <3> QED BY <1>1, <1>4, <3>3
  <2>13. LiveFrom(Now, g, "", scopes', copied')
    <3>1. LiveFrom(Now, g, "", rest, copied')
      BY <2>5, <2>11 DEF LiveFrom, n, l
    <3>2. LiveAmong(Append(rest, f), rest, copied')
      BY <1>3, <2>1, AmongPushed DEF f
    <3> QED BY <2>3, <3>1, <3>2, FromAmong
  <2>14. /\ FileFrom(Now, g, "", fileScope', copied') /\ SharedFrom(Now, g, "", shared', copied')
         /\ StoresFrom(Now, g, "", stores', copied')
    BY <1>1, <1>4, <2>7, FileStays, SharedStays, StoresStay DEF StorageInv
  <2> QED BY <1>1, <2>12, <2>13, <2>14, FromStep
<1> QED BY <1>5, <1>6

\* and its end brings them back.
LEMMA StringEndStowed ==
    ASSUME TypeOK, BackInv, StorageInv, StringEnds
    PROVE  StorageInv'
<1> DEFINE w == Top.stash
           l == Len(w)
           nb == Len(Top.back)
           r == <<Head(scopes)>> \o w \o SubSeq(Front(scopes), 2, Len(scopes) - 1)
           h == [i \in DOMAIN scopes |-> IF i = 1 THEN Live(1) ELSE Live(i + l)]
           a == [i \in DOMAIN w |-> Live(1 + i)]
           g == Moving(Now, h, InFile, Depth, a)
           n == Len(scopes)
<1>1. /\ open # <<>> /\ open' = Front(open) /\ Top.kind = "string" /\ scopes' = r
      /\ stores' = stores /\ fileScope' = fileScope /\ shared' = shared /\ copied' = copied
  BY DEF StringEnds, captured, loops, ghosts
<1>2. Top = open[Depth] /\ Depth \in Nat /\ Depth >= 1 /\ w \in Seq(Frames)
  BY <1>1, TopFacts, ConstructFacts
<1>3. open \in Seq(Constructs) /\ Depth = Len(open) /\ scopes \in Seq(Frames)
  BY DEF TypeOK, Depth
<1>4. Now.sc = scopes /\ Now.op = open /\ Now.fs = fileScope /\ Now.sh = shared /\ Now.st = stores
  BY NowFields
<1>5. /\ r \in Seq(Frames) /\ Len(r) = nb /\ nb \in Nat /\ l \in Nat /\ l < nb
      /\ n \in Nat /\ n = nb - l + 1 /\ r[1] = scopes[1]
      /\ (\A i \in 1 .. l : r[1 + i] = w[i])
      /\ (\A i \in 2 .. nb - l : r[i + l] = scopes[i])
  BY <1>1, StringFrames
<1> HIDE DEF r
<1>6. /\ Depth \in DOMAIN open /\ DOMAIN scopes = 1 .. n /\ DOMAIN w = 1 .. l /\ DOMAIN r = 1 .. nb
  <2>1. Depth \in DOMAIN open /\ DOMAIN scopes = 1 .. n
    BY <1>2, <1>3, LenProperties
  <2>2. DOMAIN w = 1 .. l
    BY <1>2, LenProperties
  <2> HIDE DEF w, n, l, nb
  <2>3. r \in Seq(Frames) /\ Len(r) = nb
    BY <1>5
  <2>4. DOMAIN r = 1 .. nb
    BY <2>3, LenProperties
  <2> QED BY <2>1, <2>2, <2>4
<1>7. StaysAside(g, Front(open))
  <2>1. Now.op \in Seq(Constructs) /\ Now.op # <<>> /\ Depth = Len(Now.op)
    BY <1>1, <1>3, <1>4
  <2>2. Now.op # <<>> /\ Depth = Len(Now.op) => StaysAside(g, Front(Now.op))
    BY <2>1, MovingStays
  <2> QED BY <1>4, <2>1, <2>2
<1>8. g[InFile] = InFile /\ \A i \in 1 .. n : g[Live(i)] = h[i]
  <2>1. g[InFile] = InFile /\ \A i \in DOMAIN Now.sc : g[Live(i)] = h[i]
    BY MovingFacts
  <2> HIDE DEF g, h
  <2> QED BY <1>4, <1>6, <2>1
<1>9. \A i \in 1 .. l : g[Aside(Depth, i)] = a[i]
  <2>1. \A i \in DOMAIN Now.op[Depth].stash :
            g[Aside(Depth, i)] = IF Depth = Depth THEN a[i] ELSE Aside(Depth, i)
    BY <1>4, <1>6, MovingFacts
  <2> HIDE DEF g, a
  <2> QED BY <1>2, <1>4, <1>6, <2>1
<1> HIDE DEF g
<1>10. \A i \in 1 .. n : From(Now, g, "", scopes[i].x, g[Live(i)])
  BY <1>4, <1>6, FromLive
<1>11. \A i \in 1 .. l : From(Now, g, "", w[i].x, g[Aside(Depth, i)])
  BY <1>2, <1>4, <1>6, FromAside
<1>12. ASSUME NEW i \in 1 .. l PROVE g[Aside(Depth, i)] = Live(1 + i)
  BY <1>6, <1>9
<1> HIDE DEF w, a
<1>13. ASSUME NEW i \in 1 .. n PROVE g[Live(i)] = IF i = 1 THEN Live(1) ELSE Live(i + l)
  BY <1>6, <1>8
<1> HIDE DEF h, n, l, nb
<1>14. ASSUME NEW j \in 1 .. nb PROVE From(Now, g, "", r[j].x, Live(j))
  <2>1. CASE j = 1
    <3>1. 1 \in 1 .. n
      BY <1>5
    <3>2. g[Live(1)] = Live(1)
      BY <1>13, <3>1
    <3> QED BY <1>5, <1>10, <2>1, <3>1, <3>2
  <2>2. CASE j # 1 /\ j <= l + 1
    <3> DEFINE i == j - 1
    <3>1. i \in 1 .. l /\ 1 + i = j
      BY <1>5, <2>2
    <3> HIDE DEF i
    <3>2. r[j] = w[i]
      BY <1>5, <3>1
    <3>3. g[Aside(Depth, i)] = Live(j)
      BY <1>12, <3>1
    <3> QED BY <1>11, <3>1, <3>2, <3>3
  <2>3. CASE j # 1 /\ ~ (j <= l + 1)
    <3> DEFINE i == j - l
    <3>1. i \in 2 .. nb - l /\ i + l = j /\ i \in 1 .. n /\ i # 1
      BY <1>5, <2>3
    <3> HIDE DEF i
    <3>2. r[j] = scopes[i]
      BY <1>5, <3>1
    <3>3. g[Live(i)] = Live(j)
      BY <1>13, <3>1
    <3> QED BY <1>10, <3>1, <3>2, <3>3
  <2> QED BY <2>1, <2>2, <2>3
<1>15. LiveFrom(Now, g, "", scopes', copied')
  BY <1>1, <1>6, <1>14 DEF LiveFrom
<1>16. AsideFrom(Now, g, "", open', copied')
  BY <1>1, <1>3, <1>4, <1>7, AsideFewer
<1>17. /\ FileFrom(Now, g, "", fileScope', copied') /\ SharedFrom(Now, g, "", shared', copied')
       /\ StoresFrom(Now, g, "", stores', copied')
  BY <1>1, <1>4, <1>8, FileStays, SharedStays, StoresStay DEF StorageInv
<1> QED BY <1>1, <1>15, <1>16, <1>17, FromStep

-----------------------------------------------------------------------------
(* The scope of the file.                                                  *)

\* The slots of a frame whose owner is another, and of frames that are stored.
LEMMA OwnedSlot ==
    ASSUME NEW f \in Frames, NEW o
    PROVE  [f EXCEPT !.owner = o].x = f.x
BY DEF Frames

\* Storing frames leaves their slots.
LEMMA StoredSlots ==
    ASSUME NEW sc \in Seq(Frames)
    PROVE  /\ DOMAIN Stored(sc) = DOMAIN sc
           /\ \A i \in DOMAIN sc : Stored(sc)[i].x = sc[i].x
<1>1. DOMAIN Stored(sc) = DOMAIN sc
  BY DEF Stored
<1>2. ASSUME NEW i \in DOMAIN sc PROVE Stored(sc)[i].x = sc[i].x
  <2>1. Stored(sc)[i] = [sc[i] EXCEPT !.owner = 0]
    BY DEF Stored
  <2>2. sc[i] \in Frames
    BY ElementOfSeq, LenProperties
  <2> QED BY <2>1, <2>2, OwnedSlot
<1> QED BY <1>1, <1>2

\* A file ends: its own frame becomes the file's scope.
LEMMA LoadEndStowed ==
    ASSUME TypeOK, BackInv, StorageInv, LoadEnds
    PROVE  StorageInv'
<1> DEFINE n == Len(scopes)
           h == [i \in DOMAIN scopes |-> IF i = n THEN InFile ELSE Live(i)]
           g == Moving(Now, h, InFile, 0, <<>>)
           f == Last(scopes)
<1>1. /\ open # <<>> /\ open' = Front(open) /\ scopes' = Front(scopes)
      /\ fileScope' = [f EXCEPT !.owner = 0]
      /\ stores' = stores /\ shared' = shared /\ copied' = copied
  BY DEF LoadEnds, captured, loops, ghosts
<1>2. open \in Seq(Constructs) /\ scopes \in Seq(Frames) /\ scopes # <<>>
  BY DEF TypeOK
<1>3. Now.sc = scopes /\ Now.op = open /\ Now.fs = fileScope /\ Now.sh = shared /\ Now.st = stores
  BY NowFields
<1>4. /\ n \in Nat /\ n >= 1 /\ DOMAIN scopes = 1 .. n /\ f = scopes[n] /\ f \in Frames /\ n \in 1 .. n
  BY <1>2, LastOfSeq, LenProperties
<1>5. /\ Front(scopes) \in Seq(Frames) /\ Len(Front(scopes)) = n - 1
      /\ \A i \in 1 .. n - 1 : Front(scopes)[i] = scopes[i]
  BY <1>2, FrontOfSeq
<1>6. DOMAIN Front(scopes) = 1 .. n - 1
  BY <1>5, LenProperties
<1>7. StaysAside(g, open)
  <2>1. 0 \notin DOMAIN open
    BY <1>2, LenProperties
  <2> QED BY <1>2, <1>3, <2>1, MovingStays
<1>8. \A i \in 1 .. n : g[Live(i)] = h[i]
  <2>1. \A i \in DOMAIN Now.sc : g[Live(i)] = h[i]
    BY MovingFacts
  <2> HIDE DEF g, h
  <2> QED BY <1>3, <1>4, <2>1
<1> HIDE DEF g
<1>9. \A i \in 1 .. n : From(Now, g, "", scopes[i].x, g[Live(i)])
  BY <1>3, <1>4, FromLive, ZenonT(60)
<1>10. ASSUME NEW i \in 1 .. n PROVE g[Live(i)] = IF i = n THEN InFile ELSE Live(i)
  BY <1>4, <1>8
<1> HIDE DEF h, f, n
<1>11. LiveFrom(Now, g, "", scopes', copied')
  <2>1. ASSUME NEW i \in 1 .. n - 1 PROVE From(Now, g, "", Front(scopes)[i].x, Live(i))
    <3>1. i \in 1 .. n /\ i # n
      BY <1>4
    <3> QED BY <1>5, <1>9, <1>10, <3>1
  <2> QED BY <1>1, <1>6, <2>1 DEF LiveFrom
<1>12. FileFrom(Now, g, "", fileScope', copied')
  <2>1. fileScope'.x = scopes[n].x
    BY <1>1, <1>4, OwnedSlot
  <2>2. g[Live(n)] = InFile
    BY <1>4, <1>10
  <2>3. From(Now, g, "", scopes[n].x, InFile)
    BY <1>4, <1>9, <2>2
  <2> QED BY <2>1, <2>3 DEF FileFrom
<1>13. AsideFrom(Now, g, "", open', copied')
  <2>1. AsideAmong(open', open)
    BY <1>1, <1>2, AsideFront
  <2>2. StaysAside(g, open')
    <3> DEFINE t == open'
               s == open
    <3>1. AsideAmong(t, s) /\ StaysAside(g, s)
      BY <1>7, <2>1
    <3> HIDE DEF t, s
    <3>2. StaysAside(g, t)
      BY <3>1 DEF AsideAmong, StaysAside
    <3> QED BY <3>2 DEF t
  <2> QED BY <1>3, <2>1, <2>2, AsideStays
<1>14. SharedFrom(Now, g, "", shared', copied') /\ StoresFrom(Now, g, "", stores', copied')
  BY <1>1, <1>3, SharedStays, StoresStay DEF StorageInv
<1> QED BY <1>1, <1>11, <1>12, <1>13, <1>14, FromStep

-----------------------------------------------------------------------------
(* Environments.                                                           *)

\* The frames that an environment covers have its variables, and so cells.
LEMMA EnvCelled ==
    ASSUME TypeOK, StorageInv, NEW e \in DOMAIN stores, Covers(Marks(scopes), stores[e]),
           NEW i \in DOMAIN stores[e], HeldIn(scopes[i].x, copied)
    PROVE  scopes[i].x.cell # 0 /\ i \in DOMAIN scopes
<1> DEFINE v == stores[e]
           m == Marks(scopes)
           x == scopes[i].x
           y == v[i].x
<1>1. v \in Seq(Frames) /\ Len(v) \in Nat
  BY StoreLens
<1>2. /\ Len(m) = Len(scopes) /\ Len(scopes) \in Nat /\ scopes \in Seq(Frames)
      /\ \A j \in 1 .. Len(scopes) : m[j] = MarkOf(scopes[j])
  BY ScopesFacts
<1>3. i \in 1 .. Len(v)
  BY <1>1, LenProperties
<1>4. Len(m) > Len(v) /\ m[i].var = y.var
  <2> HIDE DEF m, v
  <2>1. Covers(m, v)
    BY DEF m, v
  <2> QED BY <1>3, <2>1 DEF Covers
<1>5. i \in 1 .. Len(scopes) /\ i \in DOMAIN scopes
  <2>1. i \in 1 .. Len(scopes)
    BY <1>1, <1>2, <1>3, <1>4
  <2> QED BY <1>2, <2>1, LenProperties
<1>6. x.var = y.var
  <2>1. m[i] = MarkOf(scopes[i])
    BY <1>2, <1>5
  <2> QED BY <1>4, <2>1 DEF MarkOf
<1>7. HeldIn(y, copied) /\ HeldIn(x, copied)
  BY <1>6 DEF HeldIn
<1>8. Now.st = stores /\ Now.sc = scopes
  BY NowFields
<1>9. y.cell # 0
  BY <1>7, <1>8 DEF StorageInv, Stowed, Celled
<1>10. /\ Live(i) \in Spots(Now) /\ SlotIn(Now, Live(i)) = x
       /\ InStore(e, i) \in Spots(Now) /\ SlotIn(Now, InStore(e, i)) = y
       /\ Live(i) # InStore(e, i)
  BY <1>5, <1>8, SpotFacts, SpotsDiffer
<1> HIDE DEF x, y
<1>11. Fit(x, y, copied)
  BY <1>10 DEF StorageInv, Stowed, OneIn
<1>12. x.cell = y.cell
  BY <1>6, <1>7, <1>11 DEF Fit
<1> QED BY <1>5, <1>9, <1>12 DEF x

\* The innermost sub's environment covers the frames.
LEMMA TopCovers ==
    ASSUME TypeOK, BackInv, EnvInv, open # <<>>, Top.pre # 0
    PROVE  /\ Top.env \in DOMAIN stores /\ Top.pre = Len(stores[Top.env])
           /\ Covers(Marks(scopes), stores[Top.env])
<1> DEFINE m == Marks(scopes)
<1>1. /\ Depth \in Nat /\ Depth >= 1 /\ Top = open[Depth] /\ Top.pre \in Nat /\ Depth = Len(open)
  BY TopFacts, ConstructFacts DEF Depth
<1>2. Depth \in 1 .. Len(open) /\ open[Depth].pre > 0 /\ Depth \in Depth .. Len(open)
  BY <1>1
<1>3. \A l \in Depth + 1 .. Depth : ~ Cuts(open[l])
  BY <1>1
<1>4. Level(open, m, Depth) = m
  BY <1>1 DEF Level
<1>5. Prefix(open, m, stores)
  BY DEF EnvInv
<1> HIDE DEF m
<1>6. /\ open[Depth].env \in DOMAIN stores
      /\ open[Depth].pre = Len(stores[open[Depth].env])
      /\ Covers(Level(open, m, Depth), stores[open[Depth].env])
  BY <1>2, <1>3, <1>5 DEF Prefix
<1> QED BY <1>1, <1>4, <1>6 DEF m

\* What a sub writes back has cells: its slots are those of its environment.
LEMMA WrittenFrom ==
    ASSUME TypeOK, BackInv, EnvInv, StorageInv, open # <<>>, Top.pre # 0, NEW g, NEW n,
           stores' = [stores EXCEPT ![Top.env] = Stored(SubSeq(scopes, 1, Top.pre))],
           copied' = copied
    PROVE  StoresFrom(Now, g, n, stores', copied')
<1> DEFINE e == Top.env
           q == Top.pre
           sc == SubSeq(scopes, 1, q)
           t == Stored(sc)
<1>1. e \in DOMAIN stores /\ q = Len(stores[e]) /\ Covers(Marks(scopes), stores[e])
  BY TopCovers
<1>2. /\ scopes \in Seq(Frames) /\ Len(scopes) \in Nat /\ Len(Marks(scopes)) = Len(scopes)
      /\ stores[e] \in Seq(Frames) /\ q \in Nat
  BY <1>1, ScopesFacts, StoreLens
<1>3. q <= Len(scopes)
  BY <1>1, <1>2 DEF Covers
<1>4. DOMAIN stores[e] = 1 .. q
  BY <1>1, <1>2, LenProperties
<1>5. stores' = [stores EXCEPT ![e] = t]
  OBVIOUS
<1> HIDE DEF e, q
<1>6. sc \in Seq(Frames) /\ Len(sc) = q /\ \A i \in 1 .. q : sc[i] = scopes[i]
  BY <1>2, <1>3, FirstOfSeq
<1> HIDE DEF sc
<1>7. DOMAIN sc = 1 .. q
  BY <1>6, LenProperties
<1>8. DOMAIN t = 1 .. q /\ \A i \in 1 .. q : t[i].x = scopes[i].x
  BY <1>6, <1>7, StoredSlots
<1> HIDE DEF t
<1>9. Now.sc = scopes /\ Now.st = stores
  BY NowFields
<1>10. ASSUME NEW i \in 1 .. q, HeldIn(t[i].x, copied), NEW p
       PROVE  t[i].x.cell # 0 /\ From(Now, g, n, t[i].x, p)
  <2>1. scopes[i].x.cell # 0 /\ i \in DOMAIN scopes
    BY <1>1, <1>4, <1>8, <1>10, EnvCelled
  <2>2. Live(i) \in Spots(Now) /\ SlotIn(Now, Live(i)) = scopes[i].x
    BY <1>9, <2>1, SpotFacts
  <2> QED BY <1>8, <2>1, <2>2 DEF From
<1>11. StoresFrom(Now, g, n, stores, copied)
  BY <1>9, StoresStay DEF StorageInv
<1>12. ASSUME NEW k \in DOMAIN stores', NEW i \in DOMAIN stores'[k], HeldIn(stores'[k][i].x, copied)
       PROVE  stores'[k][i].x.cell # 0 /\ From(Now, g, n, stores'[k][i].x, InStore(k, i))
  <2>1. CASE k = e
    <3>1. stores'[k] = t
      BY <1>1, <1>5, <2>1
    <3> QED BY <1>8, <1>10, <1>12, <3>1
  <2>2. CASE k # e
    <3>1. k \in DOMAIN stores /\ stores'[k] = stores[k]
      BY <1>5, <2>2
    <3> QED BY <1>11, <1>12, <3>1 DEF StoresFrom
  <2> QED BY <2>1, <2>2
<1>13. StoresFrom(Now, g, n, stores', copied)
  BY <1>12 DEF StoresFrom
<1> QED BY <1>13

\* A sub's end brings back what it had hidden and puts the file's scope away.
LEMMA ReturnStowed ==
    ASSUME TypeOK, BackInv, EnvInv, StorageInv, SubReturns
    PROVE  StorageInv'
<1> DEFINE w == Top.stash
           q == Top.pre
           own == IF Top.file THEN 2 ELSE 1
           n == Len(scopes)
           r == ReturnFrames(Top, scopes)
           l == Len(r)
           h == [i \in DOMAIN scopes |-> IF Top.file /\ i = n - 1 THEN InFile ELSE Live(i - q)]
           a == [i \in DOMAIN w |-> Live(i)]
           g == Moving(Now, h, InFile, Depth, a)
           f == scopes[n - 1]
<1>1. /\ open # <<>> /\ open' = Front(open) /\ Top.kind \in SubKinds /\ scopes' = r
      /\ fileScope' = IF Top.file THEN [f EXCEPT !.owner = 0] ELSE fileScope
      /\ stores' = IF Top.pre = 0 THEN stores
                   ELSE [stores EXCEPT ![Top.env] = Stored(SubSeq(scopes, 1, Top.pre))]
      /\ shared' = shared /\ copied' = copied
  BY DEF SubReturns, SubKinds, loops, ghosts
<1>2. Top = open[Depth] /\ Depth \in Nat /\ Depth >= 1 /\ w \in Seq(Frames)
  BY <1>1, TopFacts, ConstructFacts
<1>3. open \in Seq(Constructs) /\ Depth = Len(open) /\ scopes \in Seq(Frames)
  BY DEF TypeOK, Depth
<1>4. Now.sc = scopes /\ Now.op = open /\ Now.fs = fileScope /\ Now.sh = shared /\ Now.st = stores
  BY NowFields
<1>5. /\ r \in Seq(Frames) /\ q \in Nat /\ l \in Nat
      /\ w = <<>> => n = q + l + own /\ \A i \in 1 .. l : r[i] = scopes[q + i]
      /\ w # <<>> => n = q + own /\ l = Len(w) /\ \A i \in 1 .. l : r[i] = w[i]
  BY <1>1, ReturnedFrames
<1>6. StoresFrom(Now, g, "", stores', copied')
  <2>1. CASE Top.pre = 0
    <3> HIDE DEF g
    <3> QED BY <1>1, <1>4, <2>1, StoresStay DEF StorageInv
  <2>2. CASE Top.pre # 0
    <3> HIDE DEF g
    <3> QED BY <1>1, <2>2, WrittenFrom
  <2> QED BY <2>1, <2>2
<1> HIDE DEF r
<1>7. /\ Depth \in DOMAIN open /\ DOMAIN scopes = 1 .. n /\ DOMAIN w = 1 .. Len(w) /\ DOMAIN r = 1 .. l
  <2>1. Depth \in DOMAIN open /\ DOMAIN scopes = 1 .. n
    BY <1>2, <1>3, LenProperties
  <2>2. DOMAIN w = 1 .. Len(w)
    BY <1>2, LenProperties
  <2>3. DOMAIN r = 1 .. l
    <3> HIDE DEF w, q, n, own
    <3> QED BY <1>5, LenProperties
  <2> QED BY <2>1, <2>2, <2>3
<1>8. StaysAside(g, Front(open))
  <2>1. Now.op \in Seq(Constructs) /\ Now.op # <<>> /\ Depth = Len(Now.op)
    BY <1>1, <1>3, <1>4
  <2>2. Now.op # <<>> /\ Depth = Len(Now.op) => StaysAside(g, Front(Now.op))
    BY <2>1, MovingStays
  <2> QED BY <1>4, <2>1, <2>2
<1>9. g[InFile] = InFile /\ \A i \in 1 .. n : g[Live(i)] = h[i]
  <2>1. g[InFile] = InFile /\ \A i \in DOMAIN Now.sc : g[Live(i)] = h[i]
    BY MovingFacts
  <2> HIDE DEF g, h
  <2> QED BY <1>4, <1>7, <2>1
<1>10. \A i \in 1 .. Len(w) : g[Aside(Depth, i)] = a[i]
  <2>1. \A i \in DOMAIN Now.op[Depth].stash :
            g[Aside(Depth, i)] = IF Depth = Depth THEN a[i] ELSE Aside(Depth, i)
    BY <1>4, <1>7, MovingFacts
  <2> HIDE DEF g, a
  <2> QED BY <1>2, <1>4, <1>7, <2>1
<1> HIDE DEF g
<1>11. \A i \in 1 .. n : From(Now, g, "", scopes[i].x, g[Live(i)])
  BY <1>4, <1>7, FromLive
<1>12. \A i \in 1 .. Len(w) : From(Now, g, "", w[i].x, g[Aside(Depth, i)])
  BY <1>2, <1>4, <1>7, FromAside
<1>13. ASSUME NEW i \in 1 .. Len(w) PROVE g[Aside(Depth, i)] = Live(i)
  BY <1>7, <1>10
<1> HIDE DEF a
<1>14. ASSUME NEW i \in 1 .. n
       PROVE  g[Live(i)] = IF Top.file /\ i = n - 1 THEN InFile ELSE Live(i - q)
  BY <1>7, <1>9
<1>15. own \in {1, 2} /\ (Top.file => own = 2)
  OBVIOUS
<1> HIDE DEF h, f, n, l, w, q, own
<1>16. n \in Nat
  BY <1>3, LenProperties DEF n
<1>17. LiveFrom(Now, g, "", scopes', copied')
  <2>1. ASSUME NEW i \in 1 .. l PROVE From(Now, g, "", r[i].x, Live(i))
    <3>1. CASE w = <<>>
      <4> DEFINE j == q + i
      <4>1. j \in 1 .. n /\ j - q = i /\ ~ (Top.file /\ j = n - 1) /\ r[i] = scopes[j]
        BY <1>5, <1>15, <1>16, <3>1
      <4> HIDE DEF j
      <4>2. g[Live(j)] = Live(i)
        BY <1>14, <4>1
      <4> QED BY <1>11, <4>1, <4>2
    <3>2. CASE w # <<>>
      <4>1. i \in 1 .. Len(w) /\ r[i] = w[i]
        BY <1>5, <3>2
      <4> QED BY <1>12, <1>13, <4>1
    <3> QED BY <3>1, <3>2
  <2> QED BY <1>1, <1>7, <2>1 DEF LiveFrom
<1>18. FileFrom(Now, g, "", fileScope', copied')
  <2>1. CASE Top.file
    <3> DEFINE j == n - 1
    <3>1. j \in 1 .. n
      BY <1>5, <1>15, <1>16, <2>1
    <3>2. f = scopes[j] /\ f \in Frames
      <4>1. scopes[j] \in Frames
        <5> HIDE DEF j
        <5> QED BY <1>3, <3>1, ElementOfSeq DEF n
      <4> QED BY <4>1 DEF f, n
    <3>3. fileScope'.x = f.x
      BY <1>1, <2>1, <3>2, OwnedSlot
    <3>4. g[Live(j)] = InFile
      BY <1>14, <2>1, <3>1
    <3> HIDE DEF j
    <3>5. From(Now, g, "", f.x, InFile)
      BY <1>11, <3>1, <3>2, <3>4
    <3> QED BY <3>3, <3>5 DEF FileFrom
  <2>2. CASE ~ Top.file
    <3>1. fileScope' = Now.fs
      BY <1>1, <1>4, <2>2
    <3> QED BY <1>9, <3>1, FileStays
  <2> QED BY <2>1, <2>2
<1>19. AsideFrom(Now, g, "", open', copied')
  BY <1>1, <1>3, <1>4, <1>8, AsideFewer
<1>20. SharedFrom(Now, g, "", shared', copied')
  BY <1>1, <1>4, SharedStays DEF StorageInv
<1> QED BY <1>1, <1>6, <1>17, <1>18, <1>19, <1>20, FromStep

-----------------------------------------------------------------------------
(* Calls.                                                                  *)

\* One more frame.
LEMMA LiveMore ==
    ASSUME NEW w, NEW g, NEW n, NEW d, NEW S, NEW s \in Seq(S), NEW f \in S,
           LiveFrom(w, g, n, s, d), HeldIn(f.x, d) => From(w, g, n, f.x, Live(Len(s) + 1))
    PROVE  LiveFrom(w, g, n, Append(s, f), d)
<1> DEFINE t == Append(s, f)
           l == Len(s)
<1>1. /\ t \in Seq(S) /\ l \in Nat /\ Len(t) = l + 1 /\ (\A i \in 1 .. l : t[i] = s[i])
      /\ t[l + 1] = f
  BY AppendToSeq, LenProperties
<1>2. DOMAIN t = 1 .. l + 1 /\ DOMAIN s = 1 .. l
  BY <1>1, LenProperties
<1>3. HeldIn(f.x, d) => From(w, g, n, f.x, Live(l + 1))
  OBVIOUS
<1> HIDE DEF t, l
<1>4. ASSUME NEW i \in DOMAIN t, HeldIn(t[i].x, d) PROVE From(w, g, n, t[i].x, Live(i))
  <2>1. CASE i = l + 1
    BY <1>1, <1>3, <1>4, <2>1
  <2>2. CASE i # l + 1
    <3>1. i \in DOMAIN s /\ t[i] = s[i]
      BY <1>1, <1>2, <2>2
    <3> QED BY <1>4, <3>1 DEF LiveFrom
  <2> QED BY <2>1, <2>2
<1>5. LiveFrom(w, g, n, t, d)
  BY <1>4 DEF LiveFrom
<1> QED BY <1>5 DEF t

\* A call: the environment's slots have cells, and the live frames are above it or aside.
LEMMA CallStowed ==
    ASSUME TypeOK, StorageInv, NEW c \in Codes, CallSub(c)
    PROVE  StorageInv'
<1> DEFINE pre == Pre(c)
           hides == Hides(c)
           seen == Seen(c)
           file == c = Filed /\ ~Loading /\ fileScope # Out
           fs == [fileScope EXCEPT !.owner = Depth + 1]
           framed == IF file THEN Append(seen, fs) ELSE seen
           f == Frame(Depth + 1)
           stash == IF hides THEN scopes ELSE <<>>
           d == Construct(Kind(c))
           start == Len(framed)
           k == [d EXCEPT !.pre = pre, !.env = env[c], !.before = currentEnv,
                          !.stash = stash, !.file = file, !.start = start]
           n == Len(scopes)
           l == Len(seen)
           o == Depth + 1
           v == stores[env[c]]
           h == [i \in DOMAIN scopes |-> IF hides THEN Aside(o, i) ELSE Live(pre + i)]
           g == Moving(Now, h, IF file THEN Live(l + 1) ELSE InFile, 0, <<>>)
<1>1. /\ Depth < MaxDepth /\ Kind(c) \in Kinds
      /\ scopes' = Append(framed, f) /\ open' = Append(open, k)
      /\ fileScope' = IF file THEN Out ELSE fileScope
      /\ stores' = stores /\ shared' = shared /\ copied' = copied
  BY DEF CallSub, Opens, Pre, Spliced, Hides, Seen, captured, loops, ghosts
<1>2. scopes \in Seq(Frames) /\ n \in Nat /\ open \in Seq(Constructs) /\ fileScope \in Frames
  BY ScopesFacts DEF TypeOK
<1>3. f \in Frames /\ fs \in Frames /\ fs.x = fileScope.x
  <2>1. f \in Frames /\ Depth \in Nat
    BY <1>1, NewFrame
  <2>2. Depth + 1 \in -2 .. MaxDepth
    BY <1>1, <2>1, LexicalsAssumption
  <2>3. fs \in Frames
    BY <1>2, <2>2 DEF Frames
  <2>4. fs.x = fileScope.x
    BY <1>2, OwnedSlot
  <2> QED BY <2>1, <2>3, <2>4
<1>4. /\ pre \in Nat /\ seen \in Seq(Frames)
      /\ hides => l = pre
      /\ ~ hides => l = pre + n /\ \A i \in 1 .. n : seen[pre + i] = scopes[i]
      /\ pre > 0 => /\ env[c] \in DOMAIN stores /\ pre = Len(v)
                    /\ \A i \in 1 .. pre : seen[i].x = v[i].x
  BY <1>1, SeenSlots
<1>5. d \in Constructs /\ d.stash = <<>>
  BY <1>1, NewConstruct
<1> HIDE DEF d, seen, pre, hides, file, start
<1>6. k.stash = stash
  <2> HIDE DEF stash
  <2> QED BY <1>5 DEF Constructs
<1>7. framed = IF file THEN Append(seen, fs) ELSE seen
  OBVIOUS
<1> HIDE DEF k, framed, fs, f
<1>8. Now.sc = scopes /\ Now.op = open /\ Now.fs = fileScope /\ Now.sh = shared /\ Now.st = stores
  BY NowFields
<1>9. DOMAIN scopes = 1 .. n /\ DOMAIN seen = 1 .. l /\ l \in Nat
  BY <1>2, <1>4, LenProperties
<1>10. StaysAside(g, open)
  <2>1. 0 \notin DOMAIN open
    BY <1>2, LenProperties
  <2> QED BY <1>2, <1>8, <2>1, MovingStays
<1>11. /\ g[InFile] = IF file THEN Live(l + 1) ELSE InFile
       /\ \A i \in 1 .. n : g[Live(i)] = h[i]
  <2>1. g[InFile] = (IF file THEN Live(l + 1) ELSE InFile) /\ \A i \in DOMAIN Now.sc : g[Live(i)] = h[i]
    BY MovingFacts
  <2> HIDE DEF g, h
  <2> QED BY <1>8, <1>9, <2>1
<1> HIDE DEF g
<1>12. \A i \in 1 .. n : From(Now, g, "", scopes[i].x, g[Live(i)])
  BY <1>8, <1>9, FromLive
<1>13. ASSUME NEW i \in 1 .. n PROVE g[Live(i)] = IF hides THEN Aside(o, i) ELSE Live(pre + i)
  BY <1>9, <1>11
<1>14. o = Len(Now.op) + 1
  BY <1>8 DEF Depth
<1>15. stash = IF hides THEN scopes ELSE <<>>
  OBVIOUS
<1>16. pre > 0 => DOMAIN v = 1 .. pre
  <2> SUFFICES ASSUME pre > 0 PROVE DOMAIN v = 1 .. pre
    OBVIOUS
  <2>1. v \in Seq(Frames) /\ Len(v) = pre
    BY <1>4, StoreLens
  <2> HIDE DEF v
  <2> QED BY <2>1, LenProperties
<1> HIDE DEF h, n, l, o, stash
<1>17. AsideFrom(Now, g, "", open', copied')
  <2>1. ASSUME NEW i \in DOMAIN stash PROVE From(Now, g, "", stash[i].x, Aside(o, i))
    <3>1. CASE hides
      <4>1. i \in 1 .. n /\ stash[i] = scopes[i]
        BY <1>9, <1>15, <3>1
      <4> QED BY <1>12, <1>13, <3>1, <4>1
    <3>2. CASE ~ hides
      <4>1. stash = <<>> /\ DOMAIN <<>> = {}
        BY <1>15, <3>2
      <4> QED BY <4>1
    <3> QED BY <3>1, <3>2
  <2> DEFINE C == Constructs \cup {k}
  <2>2. open \in Seq(C) /\ k \in C
    <3>1. Seq(Constructs) \subseteq Seq(C)
      BY SeqMonotonic
    <3> QED BY <1>2, <3>1
  <2> HIDE DEF C
  <2>3. \A i \in DOMAIN k.stash : From(Now, g, "", k.stash[i].x, Aside(Len(Now.op) + 1, i))
    BY <1>6, <1>14, <2>1
  <2>4. AsideFrom(Now, g, "", Append(Now.op, k), copied')
    BY <1>8, <1>10, <2>2, <2>3, AsideMore
  <2> QED BY <1>1, <1>8, <2>4
<1>18. ASSUME NEW i \in 1 .. l, HeldIn(seen[i].x, copied)
       PROVE  From(Now, g, "", seen[i].x, Live(i))
  <2>1. CASE i <= pre
    <3>1. pre > 0 /\ i \in 1 .. pre
      BY <1>4, <1>9, <2>1
    <3>2. env[c] \in DOMAIN Now.st /\ i \in DOMAIN v /\ seen[i].x = v[i].x
      <4> HIDE DEF v
      <4>1. env[c] \in DOMAIN Now.st
        BY <1>4, <1>8, <3>1
      <4>2. i \in DOMAIN v
        BY <1>16, <3>1
      <4>3. seen[i].x = v[i].x
        BY <1>4, <3>1
      <4> QED BY <4>1, <4>2, <4>3
    <3>3. v = Now.st[env[c]]
      BY <1>8
    <3> HIDE DEF v
    <3>4. v[i].x.cell # 0
      BY <1>18, <3>2, <3>3 DEF StorageInv, Stowed, Celled
    <3> QED BY <3>2, <3>3, <3>4, FromStore
  <2>2. CASE ~ (i <= pre)
    <3> DEFINE j == i - pre
    <3>1. ~ hides /\ j \in 1 .. n /\ pre + j = i
      <4>1. pre \in Nat /\ n \in Nat /\ l \in Nat /\ i \in 1 .. l /\ ~ (i <= pre)
        BY <1>2, <1>4, <1>9, <2>2
      <4>2. (hides => l = pre) /\ (~ hides => l = pre + n)
        BY <1>4
      <4> QED BY <4>1, <4>2
    <3>2. seen[i] = scopes[j]
      BY <1>4, <3>1
    <3> HIDE DEF j
    <3>3. g[Live(j)] = Live(i)
      BY <1>13, <3>1
    <3> QED BY <1>12, <3>1, <3>2, <3>3
  <2> QED BY <2>1, <2>2
<1>19. LiveFrom(Now, g, "", seen, copied)
  BY <1>9, <1>18 DEF LiveFrom
<1>20. framed \in Seq(Frames) /\ LiveFrom(Now, g, "", framed, copied)
  <2>1. CASE file
    <3>1. framed = Append(seen, fs)
      BY <1>7, <2>1
    <3>2. From(Now, g, "", fs.x, Live(Len(seen) + 1))
      <4>1. From(Now, g, "", Now.fs.x, g[InFile])
        BY FromFile
      <4>2. g[InFile] = Live(Len(seen) + 1)
        BY <1>11, <2>1 DEF l
      <4> QED BY <1>3, <1>8, <4>1, <4>2
    <3>3. LiveFrom(Now, g, "", Append(seen, fs), copied)
      BY <1>3, <1>4, <1>19, <3>2, LiveMore
    <3>4. Append(seen, fs) \in Seq(Frames)
      BY <1>3, <1>4, AppendToSeq
    <3> QED BY <3>1, <3>3, <3>4
  <2>2. CASE ~ file
    BY <1>4, <1>7, <1>19, <2>2
  <2> QED BY <2>1, <2>2
<1>21. LiveFrom(Now, g, "", scopes', copied')
  <2>1. LiveAmong(Append(framed, f), framed, copied)
    BY <1>3, <1>20, AmongPushed DEF f
  <2> QED BY <1>1, <1>20, <2>1, FromAmong
<1>22. FileFrom(Now, g, "", fileScope', copied')
  <2>1. CASE file
    <3>1. fileScope' = Out
      BY <1>1, <2>1
    <3>2. ~ HeldIn(Out.x, copied')
      BY DEF Out, Frame, HeldIn, Unbound
    <3> QED BY <3>1, <3>2 DEF FileFrom
  <2>2. CASE ~ file
    <3>1. fileScope' = Now.fs /\ g[InFile] = InFile
      BY <1>1, <1>8, <1>11, <2>2
    <3> QED BY <3>1, FileStays
  <2> QED BY <2>1, <2>2
<1>23. SharedFrom(Now, g, "", shared', copied') /\ StoresFrom(Now, g, "", stores', copied')
  BY <1>1, <1>8, SharedStays, StoresStay DEF StorageInv
<1> QED BY <1>1, <1>17, <1>21, <1>22, <1>23, FromStep

-----------------------------------------------------------------------------
(* Captures.                                                               *)

\* One more environment.
LEMMA StoreMore ==
    ASSUME NEW w, NEW g, NEW n, NEW d, NEW S, w.st \in Seq(S), NEW t,
           StoresFrom(w, g, n, w.st, d),
           \A i \in DOMAIN t : HeldIn(t[i].x, d) =>
               t[i].x.cell # 0 /\ \A p : From(w, g, n, t[i].x, p)
    PROVE  StoresFrom(w, g, n, Append(w.st, t), d)
<1> DEFINE U == S \cup {t}
           s == w.st
           r == Append(s, t)
           l == Len(s)
<1>1. s \in Seq(U) /\ t \in U
  <2>1. Seq(S) \subseteq Seq(U)
    BY SeqMonotonic
  <2> QED BY <2>1
<1> HIDE DEF U
<1>2. /\ r \in Seq(U) /\ l \in Nat /\ Len(r) = l + 1 /\ (\A k \in 1 .. l : r[k] = s[k])
      /\ r[l + 1] = t
  BY <1>1, AppendToSeq, LenProperties
<1>3. DOMAIN r = 1 .. l + 1 /\ DOMAIN s = 1 .. l
  BY <1>1, <1>2, LenProperties
<1>4. StoresFrom(w, g, n, s, d)
  OBVIOUS
<1> HIDE DEF r, l, s
<1>5. ASSUME NEW k \in DOMAIN r, NEW i \in DOMAIN r[k], HeldIn(r[k][i].x, d)
      PROVE  r[k][i].x.cell # 0 /\ From(w, g, n, r[k][i].x, InStore(k, i))
  <2>1. CASE k = l + 1
    <3>1. r[k] = t
      BY <1>2, <2>1
    <3> QED BY <1>5, <3>1
  <2>2. CASE k # l + 1
    <3>1. k \in DOMAIN s /\ r[k] = s[k]
      BY <1>2, <1>3, <2>2
    <3> QED BY <1>4, <1>5, <3>1 DEF StoresFrom
  <2> QED BY <2>1, <2>2
<1>6. StoresFrom(w, g, n, r, d)
  BY <1>5 DEF StoresFrom
<1> QED BY <1>6 DEF r, s

\* What an anonymous sub captures are slots from the frames and its closure's environment,
\* and those without a cell are copied.
LEMMA AnonStowed ==
    ASSUME TypeOK, StorageInv, MakeAnon
    PROVE  StorageInv'
<1> DEFINE S == {f \in Frames : \E q \in Spots(Now) : SlotIn(Now, q) = f.x}
           u == Capture
           t == Stored(u)
           l == Len(stores)
           g == Staying(Now)
<1>1. /\ stores' = Append(stores, t)
      /\ copied' = copied \cup {sc.x.var : sc \in {fr \in ToSet(u) :
                                                   fr.x # Unbound /\ fr.x.cell = 0}}
      /\ scopes' = scopes /\ open' = open /\ fileScope' = fileScope /\ shared' = shared
  BY DEF MakeAnon, loops
<1>2. Now.sc = scopes /\ Now.st = stores
  BY NowFields
<1>3. /\ scopes \in Seq(Frames) /\ scopes # <<>> /\ stores \in Seq(Seq(Frames) \ {<<>>})
  BY DEF TypeOK
<1>4. scopes \in Seq(S)
  <2>1. ASSUME NEW i \in 1 .. Len(scopes) PROVE scopes[i] \in S
    <3>1. scopes[i] \in Frames /\ i \in DOMAIN scopes
      BY <1>3, ElementOfSeq, LenProperties
    <3>2. Live(i) \in Spots(Now) /\ SlotIn(Now, Live(i)) = scopes[i].x
      BY <1>2, <3>1, SpotFacts
    <3> QED BY <3>1, <3>2
  <2> HIDE DEF S
  <2>2. Len(scopes) \in Nat /\ scopes \in [1 .. Len(scopes) -> S]
    BY <1>3, <2>1, LenProperties
  <2> QED BY <2>2
<1>5. currentEnv # NoEnv => stores[currentEnv] \in Seq(S) /\ stores[currentEnv] # <<>>
  <2> SUFFICES ASSUME currentEnv # NoEnv
               PROVE  stores[currentEnv] \in Seq(S) /\ stores[currentEnv] # <<>>
    OBVIOUS
  <2> DEFINE e == currentEnv
             v == stores[e]
  <2>1. e \in DOMAIN stores /\ v \in Seq(Frames) /\ v # <<>>
    BY EnvFacts DEF TypeOK
  <2>2. ASSUME NEW i \in 1 .. Len(v) PROVE v[i] \in S
    <3>1. v[i] \in Frames /\ i \in DOMAIN v
      <4> HIDE DEF v
      <4> QED BY <2>1, ElementOfSeq, LenProperties
    <3>2. InStore(e, i) \in Spots(Now) /\ SlotIn(Now, InStore(e, i)) = v[i].x
      BY <1>2, <2>1, <3>1, SpotFacts
    <3> QED BY <3>1, <3>2
  <2> HIDE DEF S, v
  <2>3. Len(v) \in Nat /\ v \in [1 .. Len(v) -> S]
    BY <2>1, <2>2, LenProperties
  <2>4. v \in Seq(S)
    BY <2>3
  <2> QED BY <2>1, <2>4 DEF v
<1>6. u \in Seq(S) /\ u \in Seq(Frames)
  <2> HIDE DEF S
  <2> QED BY <1>3, <1>4, <1>5, CaptureOf, CaptureFrames
<1> HIDE DEF u
<1>7. DOMAIN t = DOMAIN u /\ \A i \in DOMAIN u : t[i].x = u[i].x
  BY <1>6, StoredSlots
<1>8. ASSUME NEW i \in DOMAIN u
      PROVE  /\ u[i].x # Unbound /\ u[i].x.cell = 0 => u[i].x.var \in copied'
             /\ \E q \in Spots(Now) : SlotIn(Now, q) = u[i].x
  <2>1. u[i] \in ToSet(u)
    BY DEF ToSet
  <2>2. u[i].x # Unbound /\ u[i].x.cell = 0 => u[i].x.var \in copied'
    <3> DEFINE f == u[i]
               R == ToSet(u)
    <3> HIDE DEF f, R
    <3>1. f \in R /\ copied' = copied \cup {sc.x.var : sc \in {fr \in R :
                                                         fr.x # Unbound /\ fr.x.cell = 0}}
      BY <1>1, <2>1 DEF f, R
    <3>2. f.x # Unbound /\ f.x.cell = 0 => f.x.var \in copied'
      BY <3>1
    <3> QED BY <3>2 DEF f
  <2>3. u[i] \in S
    <3> HIDE DEF S
    <3> QED BY <1>6, ElementOfSeq, LenProperties
  <2> QED BY <2>2, <2>3
<1> HIDE DEF t, S, g
<1>9. ASSUME NEW i \in DOMAIN t, HeldIn(t[i].x, copied'), NEW p
      PROVE  t[i].x.cell # 0 /\ From(Now, g, "", t[i].x, p)
  <2>1. t[i].x # Unbound /\ t[i].x.var \notin copied'
    BY <1>9 DEF HeldIn, Unbound
  <2>2. /\ t[i].x.cell # 0 /\ \E q \in Spots(Now) : SlotIn(Now, q) = t[i].x
    BY <1>7, <1>8, <2>1
  <2> QED BY <2>2 DEF From
<1>10. copied \subseteq copied'
  BY <1>1
<1>11. StoresFrom(Now, g, "", stores, copied')
  BY <1>2, <1>10, StoresStay DEF StorageInv
<1>12. StoresFrom(Now, g, "", stores', copied')
  <2>1. StoresFrom(Now, g, "", Append(Now.st, t), copied')
    BY <1>2, <1>3, <1>9, <1>11, StoreMore
  <2> QED BY <1>1, <1>2, <2>1
<1>13. /\ StaysLive(g, Now.sc)
       /\ FileFrom(Now, g, "", fileScope', copied') /\ SharedFrom(Now, g, "", shared', copied')
       /\ AsideFrom(Now, g, "", open', copied')
  BY <1>1, <1>10, AsideItself, RestStays DEF g
<1>14. LiveFrom(Now, g, "", scopes', copied')
  <2>1. LiveAmong(scopes', Now.sc, copied')
    BY <1>1, <1>2, AmongItself
  <2> QED BY <1>13, <2>1, LiveStays
<1> QED BY <1>10, <1>12, <1>13, <1>14, FromStep

\* Slots at the places P get the new cells r.
Fresh(w, P, r, p) ==
    /\ SlotIn(w, p).cell = 0 /\ r[p] # 0
    /\ \A q \in Spots(w) : SlotIn(w, q).cell # r[p]
    /\ \A q \in P : q # p => r[q] # r[p]
Renewed(w, v, P, r, p) ==
    IF p \in P THEN SlotIn(v, p).var = SlotIn(w, p).var /\ SlotIn(v, p).cell = r[p]
    ELSE SlotIn(v, p) = SlotIn(w, p)

\* Slots that are given cells of their own still fit.
LEMMA RenewedFit ==
    ASSUME NEW w, NEW v, NEW c, NEW P, NEW r, OneIn(w, c), Spots(v) = Spots(w),
           P \subseteq Spots(w), \A p \in P : Fresh(w, P, r, p),
           \A p \in Spots(w) : Renewed(w, v, P, r, p)
    PROVE  OneIn(v, c)
<1> SUFFICES ASSUME NEW p \in Spots(w), NEW q \in Spots(w), p # q
             PROVE  Fit(SlotIn(v, p), SlotIn(v, q), c)
  BY DEF OneIn
<1> DEFINE x == SlotIn(w, p)
           y == SlotIn(w, q)
           s == SlotIn(v, p)
           t == SlotIn(v, q)
<1>1. Fit(x, y, c)
  BY DEF OneIn
<1>2. /\ p \in P => s.var = x.var /\ s.cell = r[p]
      /\ p \notin P => s = x
      /\ q \in P => t.var = y.var /\ t.cell = r[q]
      /\ q \notin P => t = y
  BY DEF Renewed
<1>3. /\ p \in P => /\ x.cell = 0 /\ r[p] # 0 /\ y.cell # r[p]
                    /\ q \in P => r[q] # r[p]
      /\ q \in P => y.cell = 0 /\ r[q] # 0 /\ x.cell # r[q]
  <2>1. ASSUME p \in P
        PROVE  x.cell = 0 /\ r[p] # 0 /\ y.cell # r[p] /\ (q \in P => r[q] # r[p])
    <3>1. Fresh(w, P, r, p)
      BY <2>1
    <3> QED BY <3>1 DEF Fresh
  <2>2. ASSUME q \in P PROVE y.cell = 0 /\ r[q] # 0 /\ x.cell # r[q]
    <3>1. Fresh(w, P, r, q)
      BY <2>2
    <3> QED BY <3>1 DEF Fresh
  <2> QED BY <2>1, <2>2
<1> HIDE DEF x, y, s, t
<1>4. s.var = x.var /\ t.var = y.var
  BY <1>2
<1>5. CASE HeldIn(s, c) /\ HeldIn(t, c)
  <2>1. HeldIn(x, c) /\ HeldIn(y, c)
    BY <1>4, <1>5 DEF HeldIn
  <2>2. x.var = y.var <=> x.cell = y.cell /\ x.cell # 0
    BY <1>1, <2>1 DEF Fit
  <2>3. s.var = t.var <=> s.cell = t.cell /\ s.cell # 0
    <3>1. CASE p \notin P /\ q \notin P
      BY <1>2, <2>2, <3>1
    <3>2. CASE p \in P /\ q \in P
      BY <1>2, <1>3, <2>2, <3>2
    <3>3. CASE p \in P /\ q \notin P
      BY <1>2, <1>3, <2>2, <3>3
    <3>4. CASE p \notin P /\ q \in P
      BY <1>2, <1>3, <2>2, <3>4
    <3> QED BY <3>1, <3>2, <3>3, <3>4
  <2> QED BY <2>3 DEF Fit, s, t
<1>6. CASE ~ (HeldIn(s, c) /\ HeldIn(t, c))
  BY <1>6 DEF Fit, s, t
<1> QED BY <1>5, <1>6

\* The cells made for `sub g` differ: they are counted along the frames.
Rank(i) == Cardinality({j \in Promote : j <= i})

\* Every promoted slot has a rank, and no two the same.
LEMMA RankFacts ==
    ASSUME TypeOK
    PROVE  /\ \A i \in Promote : Rank(i) \in Nat /\ Rank(i) > 0
           /\ \A i, k \in Promote : i # k => Rank(i) # Rank(k)
<1> DEFINE Upto(i) == {j \in Promote : j <= i}
           n == Len(scopes)
<1>1. n \in Nat /\ DOMAIN scopes = 1 .. n
  BY LenProperties DEF TypeOK
<1>2. Promote \subseteq 1 .. n
  BY <1>1 DEF Promote, Bound
<1>3. \A i \in Promote : i \in Int
  BY <1>2
<1>4. IsFiniteSet(Promote)
  <2>1. IsFiniteSet(1 .. n)
    BY <1>1, FS_Interval
  <2> QED BY <1>2, <2>1, FS_Subset
<1> HIDE DEF n
<1>5. ASSUME NEW i \in Promote
      PROVE  IsFiniteSet(Upto(i)) /\ Rank(i) = Cardinality(Upto(i)) /\ Rank(i) \in Nat /\ Rank(i) > 0
  <2>1. Upto(i) \subseteq Promote /\ i \in Upto(i)
    BY <1>3
  <2>2. Rank(i) = Cardinality(Upto(i))
    BY DEF Rank
  <2> HIDE DEF Upto
  <2>3. IsFiniteSet(Upto(i))
    BY <1>4, <2>1, FS_Subset
  <2>4. Cardinality(Upto(i)) \in Nat
    BY <2>3, FS_CardinalityType
  <2>5. Cardinality(Upto(i)) # 0
    BY <2>1, <2>3, FS_EmptySet
  <2> QED BY <2>2, <2>3, <2>4, <2>5
<1>6. ASSUME NEW i \in Promote, NEW k \in Promote, i < k PROVE Rank(i) # Rank(k)
  <2>1. Upto(i) \subseteq Upto(k) /\ k \in Upto(k) /\ k \notin Upto(i)
    BY <1>3, <1>6
  <2>2. IsFiniteSet(Upto(k)) /\ Rank(k) = Cardinality(Upto(k)) /\ Rank(i) = Cardinality(Upto(i))
    BY <1>5
  <2> HIDE DEF Upto
  <2> QED BY <2>1, <2>2, FS_Subset
<1>7. ASSUME NEW i \in Promote, NEW k \in Promote, i # k PROVE Rank(i) # Rank(k)
  <2>1. i < k \/ k < i
    BY <1>3, <1>7
  <2> QED BY <1>6, <2>1
<1> QED BY <1>5, <1>7

\* What the promoted frames hold.
LEMMA PromotedSlots ==
    ASSUME TypeOK
    PROVE  /\ DOMAIN Promoted = DOMAIN scopes
           /\ \A i \in DOMAIN scopes :
                  /\ i \notin Promote => Promoted[i] = scopes[i]
                  /\ i \in Promote => /\ Promoted[i].x.var = scopes[i].x.var
                                      /\ Promoted[i].x.cell = celled + Rank(i)
                                      /\ scopes[i].x.cell = 0
                  /\ Promoted[i].x.var > 0 => Promoted[i].x.cell # 0
<1>1. DOMAIN Promoted = DOMAIN scopes
  BY DEF Promoted
<1> SUFFICES ASSUME NEW i \in DOMAIN scopes
             PROVE  /\ i \notin Promote => Promoted[i] = scopes[i]
                    /\ i \in Promote => /\ Promoted[i].x.var = scopes[i].x.var
                                        /\ Promoted[i].x.cell = celled + Rank(i)
                                        /\ scopes[i].x.cell = 0
                    /\ Promoted[i].x.var > 0 => Promoted[i].x.cell # 0
  BY <1>1
<1> DEFINE k == celled + Rank(i)
           f == scopes[i]
<1>2. f \in Frames
  BY ElementOfSeq, LenProperties DEF TypeOK
<1>3. Promoted[i] = IF i \in Promote THEN [f EXCEPT !.x.cell = k] ELSE f
  BY DEF Promoted, Rank
<1>4. i \in Promote <=> f.x # Unbound /\ f.x.cell = 0
  BY DEF Promote, Bound
<1>5. celled \in Nat /\ (i \in Promote => Rank(i) \in Nat /\ Rank(i) > 0)
  BY RankFacts DEF TypeOK
<1>6. i \in Promote => k # 0
  BY <1>5
<1> HIDE DEF k, f
<1>7. [f EXCEPT !.x.cell = k].x.var = f.x.var /\ [f EXCEPT !.x.cell = k].x.cell = k
  BY <1>2 DEF Frames, Slots
<1>8. CASE i \in Promote
  BY <1>3, <1>4, <1>6, <1>7, <1>8 DEF f, k
<1>9. CASE i \notin Promote
  <2>1. f.x.var > 0 => f.x # Unbound
    BY DEF Unbound
  <2> QED BY <1>3, <1>4, <1>9, <2>1 DEF f
<1> QED BY <1>8, <1>9

\* The definition of a named sub in two steps: the frames' slots get cells,
LEMMA PromotedStowed ==
    ASSUME TypeOK, StorageInv
    PROVE  Stowed(World(Promoted, fileScope, shared, stores, open), copied)
<1> DEFINE w == Now
           v == World(Promoted, fileScope, shared, stores, open)
           P == {Live(i) : i \in Promote}
           r == [p \in P |-> celled + Rank(p[3])]
<1>1. /\ w.sc = scopes /\ w.fs = fileScope /\ w.sh = shared /\ w.st = stores /\ w.op = open
      /\ v.sc = Promoted /\ v.fs = fileScope /\ v.sh = shared /\ v.st = stores /\ v.op = open
  BY NowFields DEF World
<1>2. DOMAIN v.sc = DOMAIN w.sc /\ Promote \subseteq DOMAIN scopes
  BY <1>1, PromotedSlots DEF Promote, Bound
<1> HIDE DEF w, v
<1>3. Spots(v) = Spots(w)
  BY <1>1, <1>2 DEF Spots, LiveSpots, StoreSpots, AsideSpots
<1>4. P \subseteq Spots(w)
  <2>1. ASSUME NEW i \in Promote PROVE Live(i) \in Spots(w)
    BY <1>1, <1>2, <2>1, SpotFacts
  <2> QED BY <2>1
<1>5. ASSUME NEW i \in Promote
      PROVE  Live(i) \in P /\ r[Live(i)] = celled + Rank(i) /\ SlotIn(w, Live(i)) = scopes[i].x
  <2>1. Live(i) \in P /\ Live(i)[3] = i
    BY DEF Live
  <2>2. r[Live(i)] = celled + Rank(i)
    BY <2>1
  <2>3. SlotIn(w, Live(i)) = scopes[i].x
    BY <1>1, <1>2, SpotFacts
  <2> QED BY <2>1, <2>2, <2>3
<1>6. ASSUME NEW p \in P PROVE \E i \in Promote : p = Live(i)
  OBVIOUS
<1> HIDE DEF P, r
<1>7. ASSUME NEW p \in P PROVE Fresh(w, P, r, p)
  <2>1. PICK i \in Promote : p = Live(i)
    BY <1>6
  <2>2. celled \in Nat /\ Rank(i) \in Nat /\ Rank(i) > 0 /\ r[p] = celled + Rank(i)
    BY <1>5, <2>1, RankFacts DEF TypeOK
  <2>3. r[p] # 0 /\ r[p] > celled
    BY <2>2
  <2>4. ASSUME NEW q \in Spots(w) PROVE SlotIn(w, q).cell # r[p]
    <3> DEFINE y == SlotIn(w, q)
    <3>1. y \in Slots
      BY SpotTypes DEF w
    <3> HIDE DEF y
    <3>2. y.cell \in 0 .. celled
      BY <3>1 DEF Slots
    <3>3. y.cell # r[p]
      BY <2>2, <2>3, <3>2
    <3> QED BY <3>3 DEF y
  <2>5. ASSUME NEW q \in P, q # p PROVE r[q] # r[p]
    <3>1. PICK k \in Promote : q = Live(k)
      BY <1>6
    <3>2. k # i
      BY <2>1, <2>5, <3>1
    <3>3. Rank(k) \in Nat /\ Rank(k) # Rank(i) /\ r[q] = celled + Rank(k)
      BY <1>5, <3>1, <3>2, RankFacts
    <3> QED BY <2>2, <3>3
  <2>6. SlotIn(w, p).cell = 0
    <3>1. scopes[i].x.cell = 0
      BY DEF Promote
    <3> QED BY <1>5, <2>1, <3>1
  <2> QED BY <2>3, <2>4, <2>5, <2>6 DEF Fresh
<1>8. ASSUME NEW p \in Spots(w) PROVE Renewed(w, v, P, r, p)
  <2>1. CASE p \in P
    <3>1. PICK i \in Promote : p = Live(i)
      BY <1>6, <2>1
    <3>2. SlotIn(v, p) = Promoted[i].x /\ SlotIn(w, p) = scopes[i].x /\ r[p] = celled + Rank(i)
      <4>1. SlotIn(v, Live(i)) = v.sc[i].x
        BY <1>2, <1>1, SpotFacts
      <4> QED BY <1>1, <1>5, <3>1, <4>1
    <3>3. Promoted[i].x.var = scopes[i].x.var /\ Promoted[i].x.cell = celled + Rank(i)
      BY <1>2, PromotedSlots
    <3> QED BY <2>1, <3>2, <3>3 DEF Renewed
  <2>2. CASE p \notin P
    <3>1. SlotIn(v, p) = SlotIn(w, p)
      <4>1. CASE \E i \in DOMAIN w.sc : p = Live(i)
        <5>1. PICK i \in DOMAIN w.sc : p = Live(i)
          BY <4>1
        <5>2. i \notin Promote
          BY <1>5, <2>2, <5>1
        <5>3. Promoted[i] = scopes[i]
          BY <1>1, <5>1, <5>2, PromotedSlots
        <5>4. SlotIn(v, Live(i)) = v.sc[i].x /\ SlotIn(w, Live(i)) = w.sc[i].x
          BY <1>2, <5>1, SpotFacts
        <5> QED BY <1>1, <5>1, <5>3, <5>4
      <4>2. CASE p = InFile
        BY <1>1, <4>2, SpotFacts
      <4>3. CASE p = InShared
        BY <1>1, <4>3, SpotFacts
      <4>4. CASE \E e \in DOMAIN w.st : \E i \in DOMAIN w.st[e] : p = InStore(e, i)
        <5>1. PICK e \in DOMAIN w.st : \E i \in DOMAIN w.st[e] : p = InStore(e, i)
          BY <4>4
        <5>2. PICK i \in DOMAIN w.st[e] : p = InStore(e, i)
          BY <5>1
        <5>3. SlotIn(v, InStore(e, i)) = v.st[e][i].x /\ SlotIn(w, InStore(e, i)) = w.st[e][i].x
          BY <1>1, <5>1, <5>2, SpotFacts
        <5> QED BY <1>1, <5>2, <5>3
      <4>5. CASE \E k \in DOMAIN w.op : \E i \in DOMAIN w.op[k].stash : p = Aside(k, i)
        <5>1. PICK k \in DOMAIN w.op : \E i \in DOMAIN w.op[k].stash : p = Aside(k, i)
          BY <4>5
        <5>2. PICK i \in DOMAIN w.op[k].stash : p = Aside(k, i)
          BY <5>1
        <5>3. /\ SlotIn(v, Aside(k, i)) = v.op[k].stash[i].x
              /\ SlotIn(w, Aside(k, i)) = w.op[k].stash[i].x
          BY <1>1, <5>1, <5>2, SpotFacts
        <5> QED BY <1>1, <5>2, <5>3
      <4> QED BY <4>1, <4>2, <4>3, <4>4, <4>5, SpotKinds
    <3> QED BY <2>2, <3>1 DEF Renewed
  <2> QED BY <2>1, <2>2
<1>9. Stowed(w, copied)
  BY DEF StorageInv, w
<1>10. OneIn(v, copied)
  BY <1>3, <1>4, <1>7, <1>8, <1>9, RenewedFit DEF Stowed
<1>11. Celled(v, copied)
  BY <1>1, <1>9 DEF Stowed, Celled
<1> QED BY <1>10, <1>11 DEF Stowed, v

\* and the new environment shares them.
LEMMA NamedStowed ==
    ASSUME TypeOK, StorageInv, DefineNamed
    PROVE  StorageInv'
<1> DEFINE w == World(Promoted, fileScope, shared, stores, open)
           v == Now'
           u == Promoted
           t == Stored(u)
           c == copied
           g == Staying(w)
<1>1. /\ scopes' = u /\ stores' = Append(stores, t) /\ open' = open /\ fileScope' = fileScope
      /\ shared' = shared /\ copied' = copied /\ celled' = celled + Cardinality(Promote)
      /\ born' = born
  BY DEF DefineNamed, loops
<1>2. /\ w.sc = u /\ w.fs = fileScope /\ w.sh = shared /\ w.st = stores /\ w.op = open
      /\ v.sc = scopes' /\ v.fs = fileScope' /\ v.sh = shared' /\ v.st = stores' /\ v.op = open'
  BY NowFields DEF World
<1>3. Stowed(w, c)
  BY PromotedStowed
<1>4. stores \in Seq(Seq(Frames) \ {<<>>})
  BY DEF TypeOK
<1>5. /\ DOMAIN t = DOMAIN u /\ \A i \in DOMAIN u : t[i].x = u[i].x
      /\ \A i \in DOMAIN u : u[i].x.var > 0 => u[i].x.cell # 0
  <2>1. u \in Seq(Frames') /\ DOMAIN u = DOMAIN scopes
    BY <1>1, PromotedFrames, PromotedSlots
  <2>2. ASSUME NEW i \in DOMAIN u PROVE t[i].x = u[i].x
    <3>1. t[i] = [u[i] EXCEPT !.owner = 0]
      BY DEF Stored
    <3>2. u[i] \in Frames'
      <4> HIDE DEF u
      <4> QED BY <2>1, ElementOfSeq, LenProperties
    <3> DEFINE f == u[i]
    <3> HIDE DEF f
    <3>3. [f EXCEPT !.owner = 0].x = f.x
      <4>1. f \in Frames'
        BY <3>2 DEF f
      <4> QED BY <4>1 DEF Frames
    <3> QED BY <3>1, <3>3 DEF f
  <2>3. DOMAIN t = DOMAIN u
    BY DEF Stored
  <2>4. \A i \in DOMAIN u : u[i].x.var > 0 => u[i].x.cell # 0
    BY <2>1, PromotedSlots
  <2> QED BY <2>2, <2>3, <2>4
<1> HIDE DEF w, v, t, u, c
<1>6. /\ StaysLive(g, w.sc) /\ StaysAside(g, w.op) /\ g[InFile] = InFile
  BY AsideItself, StayingFacts
<1> HIDE DEF g
<1>7. /\ LiveFrom(w, g, "", w.sc, c) /\ FileFrom(w, g, "", w.fs, c) /\ SharedFrom(w, g, "", w.sh, c)
      /\ StoresFrom(w, g, "", w.st, c) /\ AsideFrom(w, g, "", w.op, c)
  BY <1>3, <1>6, AmongItself, AsideItself, LiveStays, FileStays, SharedStays, StoresStay, AsideStays
<1>8. ASSUME NEW i \in DOMAIN t, HeldIn(t[i].x, c)
      PROVE  t[i].x.cell # 0 /\ \A p : From(w, g, "", t[i].x, p)
  <2>1. t[i].x = u[i].x /\ i \in DOMAIN u
    BY <1>5
  <2>2. u[i].x.cell # 0
    BY <1>5, <1>8, <2>1 DEF HeldIn
  <2>3. Live(i) \in Spots(w) /\ SlotIn(w, Live(i)) = u[i].x
    BY <1>2, <2>1, SpotFacts
  <2> QED BY <2>1, <2>2, <2>3 DEF From
<1>9. StoresFrom(w, g, "", Append(w.st, t), c)
  BY <1>2, <1>4, <1>7, <1>8, StoreMore
<1>10. /\ LiveFrom(w, g, "", v.sc, c) /\ FileFrom(w, g, "", v.fs, c)
       /\ SharedFrom(w, g, "", v.sh, c) /\ StoresFrom(w, g, "", v.st, c)
       /\ AsideFrom(w, g, "", v.op, c)
  BY <1>1, <1>2, <1>7, <1>9
<1>11. Stowed(v, c)
  BY <1>3, <1>10, Carried
<1> QED BY <1>1, <1>11 DEF StorageInv, v, c

-----------------------------------------------------------------------------
(* The theorem.                                                            *)

\* At the start there is one slot and it is empty.
LEMMA StorageInit == Init => StorageInv
<1> SUFFICES ASSUME Init PROVE StorageInv
  OBVIOUS
<1> DEFINE w == Now
           f == Frame(0)
<1>1. /\ w.sc = <<f>> /\ w.fs = NoFrame /\ w.sh = Unbound /\ w.st = <<>> /\ w.op = <<>>
  BY NowFields DEF Init
<1>2. f.x = Unbound /\ NoFrame.x = Unbound /\ \A c : ~ HeldIn(Unbound, c)
  BY DEF Frame, NoFrame, Unbound, HeldIn
<1> HIDE DEF w, f
<1>3. DOMAIN w.st = {} /\ DOMAIN w.op = {} /\ DOMAIN w.sc = {1} /\ w.sc[1] = f
  BY <1>1
<1>4. ASSUME NEW p \in Spots(w) PROVE SlotIn(w, p) = Unbound
  <2>1. CASE \E i \in DOMAIN w.sc : p = Live(i)
    <3>1. p = Live(1) /\ 1 \in DOMAIN w.sc
      BY <1>3, <2>1
    <3>2. SlotIn(w, Live(1)) = w.sc[1].x
      BY <3>1, SpotFacts
    <3> QED BY <1>2, <1>3, <3>1, <3>2
  <2>2. CASE p = InFile
    BY <1>1, <1>2, <2>2, SpotFacts
  <2>3. CASE p = InShared
    BY <1>1, <2>3, SpotFacts
  <2> QED BY <1>3, <2>1, <2>2, <2>3, SpotKinds
<1>5. OneIn(w, copied)
  BY <1>2, <1>4 DEF OneIn, Fit
<1>6. Celled(w, copied)
  BY <1>1, <1>2, <1>3 DEF Celled
<1> QED BY <1>5, <1>6 DEF StorageInv, Stowed, w

\* Every step keeps it.
LEMMA StorageStep ==
    ASSUME TypeOK, BackInv, EnvInv, StorageInv, [Next]_vars
    PROVE  StorageInv'
<1>1. Grown
  BY GrownStep
<1>2. CASE Open
  <2>1. CASE (\E kind \in {"block", "eval"} : OpenBlock(kind)) \/ Load
    BY <2>1, BlockStowed
  <2>2. CASE \E list \in Lists, cont \in BOOLEAN : For(list, cont)
    BY <2>2, ForStowed
  <2>3. CASE Call
    <3>1. PICK c \in Anons \cup {Named, Filed} : CallSub(c)
      BY <2>3 DEF Call
    <3>2. c \in Codes
      BY LexicalsAssumption DEF Anons, Codes, Named, Filed
    <3> QED BY <3>1, <3>2, CallStowed
  <2>4. CASE EvalString
    BY <2>4, StringStowed
  <2>5. CASE DoFile
    BY <2>5, DoFileStowed
  <2> QED BY <1>2, <2>1, <2>2, <2>3, <2>4, <2>5 DEF Open
<1>3. CASE Statement
  <2>1. CASE My
    BY <2>1, MyStowed
  <2>2. CASE Assign \/ Shrink \/ (\E f \in Flows \ {"none", "die"} : Jump(f))
    BY <2>2, SameStowed
  <2>3. CASE MakeAnon
    BY <2>3, AnonStowed
  <2>4. CASE DefineNamed
    BY <2>4, NamedStowed
  <2> QED BY <1>3, <2>1, <2>2, <2>3, <2>4 DEF Statement
<1>4. CASE Leave
  <2>1. CASE SubReturns
    BY <2>1, ReturnStowed
  <2>2. CASE StringEnds
    BY <2>2, StringEndStowed
  <2>3. CASE DoFileEnds
    BY <2>3, DoFileEndStowed
  <2>4. CASE LoadEnds
    BY <2>4, LoadEndStowed
  <2>5. CASE BlockEnds \/ EvalEnds \/ LoopEnds
    BY <2>5, EndStowed
  <2>6. CASE SubGoesOn \/ CodeGoesOn \/ GotoLands
    BY <2>6, SameStowed
  <2>7. CASE ItemFreed \/ BodyLeft \/ ContinueLeft
    BY <2>7, LeftStowed
  <2>8. CASE NextItem
    BY <1>1, <2>8, ItemStowed
  <2>9. CASE BodyEnds \/ ContinueEnds
    BY <1>1, <2>9, GoesOnStowed
  <2> QED BY <1>4, <2>1, <2>2, <2>3, <2>4, <2>5, <2>6, <2>7, <2>8, <2>9 DEF Leave
<1>5. CASE Over \/ UNCHANGED vars
  BY <1>5, SameStowed
<1> QED BY <1>2, <1>3, <1>4, <1>5 DEF Next

\* The places of OneStorage are among those of the invariant.
LEMMA PlacesStowed ==
    ASSUME StorageInv
    PROVE  OneStorage
<1>1. /\ Now.sc = scopes /\ Now.fs = fileScope /\ Now.st = stores /\ Now.op = open
  BY NowFields
<1>2. ASSUME NEW p \in Places PROVE p \in Spots(Now) /\ SlotAt(p) = SlotIn(Now, p)
  <2>1. CASE p \in {<<"live", 0, i>> : i \in DOMAIN scopes}
    <3>1. PICK i \in DOMAIN scopes : p = <<"live", 0, i>>
      BY <2>1
    <3>2. p = Live(i)
      BY <3>1 DEF Live
    <3>3. p[1] = "live" /\ p[3] = i
      BY <3>1
    <3>4. SlotAt(p) = scopes[i].x
      BY <3>3 DEF SlotAt
    <3> QED BY <1>1, <3>2, <3>4, SpotFacts
  <2>2. CASE p = <<"file", 0, 0>>
    <3>1. p = InFile /\ p[1] = "file"
      BY <2>2 DEF InFile
    <3>2. SlotAt(p) = fileScope.x
      BY <3>1 DEF SlotAt
    <3> QED BY <1>1, <3>1, <3>2, SpotFacts
  <2>3. CASE p \in UNION {{<<"stored", e, i>> : i \in DOMAIN stores[e]} : e \in DOMAIN stores}
    <3>1. PICK e \in DOMAIN stores : p \in {<<"stored", e, i>> : i \in DOMAIN stores[e]}
      BY <2>3
    <3>2. PICK i \in DOMAIN stores[e] : p = <<"stored", e, i>>
      BY <3>1
    <3>3. p = InStore(e, i)
      BY <3>2 DEF InStore
    <3>4. p[1] = "stored" /\ p[2] = e /\ p[3] = i
      BY <3>2
    <3>5. SlotAt(p) = stores[e][i].x
      BY <3>4 DEF SlotAt
    <3> QED BY <1>1, <3>2, <3>3, <3>5, SpotFacts
  <2>4. CASE p \in UNION {{<<"aside", k, i>> : i \in DOMAIN open[k].stash} : k \in DOMAIN open}
    <3>1. PICK k \in DOMAIN open : p \in {<<"aside", k, i>> : i \in DOMAIN open[k].stash}
      BY <2>4
    <3>2. PICK i \in DOMAIN open[k].stash : p = <<"aside", k, i>>
      BY <3>1
    <3>3. p = Aside(k, i)
      BY <3>2 DEF Aside
    <3>4. p[1] = "aside" /\ p[2] = k /\ p[3] = i
      BY <3>2
    <3>5. SlotAt(p) = open[k].stash[i].x
      BY <3>4 DEF SlotAt
    <3> QED BY <1>1, <3>2, <3>3, <3>5, SpotFacts
  <2> QED BY <2>1, <2>2, <2>3, <2>4 DEF Places
<1>3. ASSUME NEW p \in Places, NEW q \in Places, p # q, Held(SlotAt(p)), Held(SlotAt(q))
      PROVE  SlotAt(p).var = SlotAt(q).var <=> SlotAt(p).cell = SlotAt(q).cell /\ SlotAt(p).cell # 0
  <2> DEFINE x == SlotAt(p)
             y == SlotAt(q)
  <2>1. Fit(SlotIn(Now, p), SlotIn(Now, q), copied)
    BY <1>2, <1>3 DEF StorageInv, Stowed, OneIn
  <2>2. x = SlotIn(Now, p) /\ y = SlotIn(Now, q)
    BY <1>2
  <2>3. HeldIn(x, copied) /\ HeldIn(y, copied)
    BY <1>3 DEF Held, HeldIn
  <2> HIDE DEF x, y
  <2>4. x.var = y.var <=> x.cell = y.cell /\ x.cell # 0
    BY <2>1, <2>2, <2>3 DEF Fit
  <2> QED BY <2>4 DEF x, y
<1> QED BY <1>3 DEF OneStorage

\* Named subs and loop variables share storage with the code around them, and no cell
\* serves two variables.
THEOREM StorageIsOne == Spec => []OneStorage
<1>1. FrameInv /\ EnvInv /\ StorageInv /\ [Next]_vars => StorageInv'
  BY StorageStep DEF FrameInv
<1>2. StorageInv => OneStorage
  BY PlacesStowed
<1> QED BY <1>1, <1>2, StorageInit, FrameInvariant, EnvInvariant, PTL DEF Spec
===============================================================================
