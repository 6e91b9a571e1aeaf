----------------------------- MODULE ArraysProofs -----------------------------
(***************************************************************************)
(* What Arrays promises, for any items, lengths, depth and operations.     *)
(*                                                                         *)
(* MemOK is the type of the memory with what no type says of it: an Rc     *)
(* that is registered, or saved by `local`, exists.  Every operation is    *)
(* one of four changes of the array (Change): it Keeps it in its place,    *)
(* puts another there (Moves), gives it an Rc (Refers), or another package *)
(* looks for it (Switches).  DeniedIsUndef and EachComplete follow from    *)
(* what Keeps says of marks and cursors (Good): after the other changes    *)
(* the name is not single, or is where it was, or has neither mark nor     *)
(* cursor.  LocalUndone is about the saves: BlocksKept says of each open   *)
(* block what they leave to be undone.                                     *)
(***************************************************************************)
EXTENDS Arrays, SequenceLemmas, FiniteSetTheorems

CellsOK(m) ==
    /\ \A p \in Names : m.shared[p] <= Len(m.heap)
    /\ \A d \in DOMAIN m.frames : \A k \in DOMAIN m.frames[d].whole :
           m.frames[d].whole[k].cell <= Len(m.heap)
MemOK(m) == m \in Mem /\ m.frames # <<>> /\ Depth(m) <= MaxDepth /\ CellsOK(m)

\* The fields have their types.
LEMMA Parts ==
    ASSUME NEW m \in Mem
    PROVE  /\ m.frames \in Seq(Scopes) /\ m.heap \in Seq(Arr) /\ m.shared \in [Names -> Nat]
           /\ m.plain \in [Names -> Arr \cup {Absent}] /\ m.deleted \in SUBSET (0 .. MaxLen - 1)
           /\ m.cursors \in [0 .. MaxDepth -> Cursors] /\ m.pkg \in Packages
           /\ Depth(m) \in Nat /\ DOMAIN m.frames = 1 .. Depth(m)
           /\ Len(m.heap) \in Nat /\ DOMAIN m.heap = 1 .. Len(m.heap)
<1>1. /\ m.frames \in Seq(Scopes) /\ m.heap \in Seq(Arr) /\ m.shared \in [Names -> Nat]
      /\ m.plain \in [Names -> Arr \cup {Absent}] /\ m.deleted \in SUBSET (0 .. MaxLen - 1)
      /\ m.cursors \in [0 .. MaxDepth -> Cursors] /\ m.pkg \in Packages
  BY DEF Mem
<1>2. Depth(m) \in Nat /\ DOMAIN m.frames = 1 .. Depth(m)
  BY <1>1, LenProperties DEF Depth
<1>3. Len(m.heap) \in Nat /\ DOMAIN m.heap = 1 .. Len(m.heap)
  BY <1>1, LenProperties
<1> QED BY <1>1, <1>2, <1>3

\* Arrays are sequences of at most MaxLen values, and something else than Absent.
LEMMA ArrSeq ==
    \A s : s \in Arr <=> s \in Seq(Values) /\ Len(s) <= MaxLen
<1> SUFFICES ASSUME NEW s
             PROVE  s \in Arr <=> s \in Seq(Values) /\ Len(s) <= MaxLen
  OBVIOUS
<1>1. ASSUME s \in Arr PROVE s \in Seq(Values) /\ Len(s) <= MaxLen
  <2>1. PICK n \in 0 .. MaxLen : s \in [1 .. n -> Values]
    BY <1>1 DEF Arr
  <2>2. n \in Nat /\ DOMAIN s = 1 .. n /\ n <= MaxLen
    BY <2>1, ArraysAssumption
  <2>3. s \in Seq(Values)
    BY <2>1, <2>2
  <2>4. Len(s) \in Nat /\ DOMAIN s = 1 .. Len(s)
    BY <2>3, LenProperties
  <2>5. Len(s) = n
    BY <2>2, <2>4
  <2> QED BY <2>2, <2>3, <2>5
<1>2. ASSUME s \in Seq(Values), Len(s) <= MaxLen PROVE s \in Arr
  <2>1. Len(s) \in 0 .. MaxLen /\ s \in [1 .. Len(s) -> Values]
    BY <1>2, LenProperties, ArraysAssumption
  <2> QED BY <2>1 DEF Arr
<1> QED BY <1>1, <1>2

LEMMA NotAbsent ==
    /\ Absent \notin Seq(Values) /\ Absent \notin Arr /\ Absent \notin Values
    /\ Undef \in Values /\ <<>> \in Arr /\ MaxLen \in Nat
<1>1. Absent \notin Seq(Values) /\ Absent \notin Values /\ Undef \in Values /\ MaxLen \in Nat
  BY ArraysAssumption DEF Values
<1>3. Absent \notin Arr
  BY <1>1, ArrSeq
<1>2. <<>> \in Arr
  <2> DEFINE s == <<>>
  <2>1. s \in Seq(Values) /\ Len(s) = 0
    OBVIOUS
  <2> HIDE DEF s
  <2>2. Len(s) <= MaxLen
    BY <1>1, <2>1
  <2>3. s \in Arr
    BY <2>1, <2>2, ArrSeq
  <2> QED BY <2>3 DEF s
<1> QED BY <1>1, <1>2, <1>3

-----------------------------------------------------------------------------
(* Where the array is.                                                     *)

\* The largest of a set of numbers, and of two.
LEMMA MaxOf ==
    ASSUME NEW N \in Nat, NEW T, T \subseteq 0 .. N, T # {}
    PROVE  Max(T) \in T /\ Max(T) \in 0 .. N /\ \A j \in T : j <= Max(T)
<1>1. \E i \in T : \A j \in T : j <= i
  <2>1. CASE T \subseteq {0}
    <3>1. 0 \in T /\ \A j \in T : j = 0
      BY <2>1
    <3> QED BY <3>1
  <2>2. CASE ~ (T \subseteq {0})
    <3> DEFINE U == T \ {0}
    <3>1. U \subseteq 1 .. N /\ U # {}
      BY <2>2
    <3>2. PICK i \in U : \A j \in U : j <= i
      <4> HIDE DEF U
      <4> QED BY <3>1, Extremes
    <3>3. i \in T /\ i >= 0 /\ \A j \in T : j = 0 \/ j \in U
      BY <3>1
    <3> HIDE DEF U
    <3> QED BY <3>2, <3>3
  <2> QED BY <2>1, <2>2
<1>2. PICK i \in T : \A j \in T : i >= j
  BY <1>1
<1>3. Max(T) \in T /\ \A j \in T : Max(T) >= j
  BY <1>2 DEF Max
<1> QED BY <1>3

LEMMA MaxOfTwo ==
    ASSUME NEW a \in Int, NEW b \in Int
    PROVE  Max({a, b}) = (IF a >= b THEN a ELSE b) /\ Min({a, b}) = (IF a <= b THEN a ELSE b)
BY DEF Max, Min

\* The places an array may be at.
Cell(c) == [kind |-> "cell", key |-> c]
IsPlace(m, q) ==
    \/ \E d \in Lexical(m) : q = Frames(d)
    \/ \E c \in 1 .. Len(m.heap) : q = Cell(c)
    \/ \E p \in Names : q = Plain(p)

LEMMA LexicalFacts ==
    ASSUME NEW m, MemOK(m)
    PROVE  /\ Lexical(m) \subseteq 1 .. Depth(m) /\ CursorKey(m) \in 0 .. MaxDepth
           /\ Lexical(m) # {} => /\ CursorKey(m) = Max(Lexical(m)) /\ CursorKey(m) \in Lexical(m)
                                 /\ \A d \in Lexical(m) : d <= CursorKey(m)
           /\ Lexical(m) = {} => CursorKey(m) = 0
           /\ Depth(m) \in 1 .. MaxDepth /\ MaxDepth \in Nat
<1>1. m \in Mem /\ Depth(m) <= MaxDepth /\ m.frames # <<>> /\ MaxDepth \in Nat
  BY ArraysAssumption DEF MemOK
<1>2. Depth(m) \in 1 .. MaxDepth
  <2>1. m.frames \in Seq(Scopes)
    BY <1>1, Parts
  <2>2. Len(m.frames) \in Nat /\ Len(m.frames) >= 1
    BY <1>1, <2>1, LastOfSeq
  <2> QED BY <1>1, <2>2 DEF Depth
<1>3. Lexical(m) \subseteq 1 .. Depth(m)
  BY DEF Lexical
<1>4. Lexical(m) = {} => CursorKey(m) = 0
  BY DEF CursorKey
<1>5. ASSUME Lexical(m) # {}
      PROVE  /\ CursorKey(m) = Max(Lexical(m)) /\ CursorKey(m) \in Lexical(m)
             /\ \A d \in Lexical(m) : d <= CursorKey(m)
  <2>1. Lexical(m) \subseteq 0 .. Depth(m) /\ Depth(m) \in Nat
    BY <1>2, <1>3
  <2>2. Max(Lexical(m)) \in Lexical(m) /\ \A d \in Lexical(m) : d <= Max(Lexical(m))
    BY <1>5, <2>1, MaxOf
  <2>3. CursorKey(m) = Max(Lexical(m))
    BY <1>5 DEF CursorKey
  <2> QED BY <2>2, <2>3
<1>6. CursorKey(m) \in 0 .. MaxDepth
  <2>1. CursorKey(m) = 0 \/ CursorKey(m) \in 1 .. Depth(m)
    BY <1>3, <1>4, <1>5
  <2> QED BY <1>1, <1>2, <2>1
<1>7. Lexical(m) # {} => /\ CursorKey(m) = Max(Lexical(m)) /\ CursorKey(m) \in Lexical(m)
                         /\ \A d \in Lexical(m) : d <= CursorKey(m)
  BY <1>5

<1> QED BY <1>1, <1>2, <1>3, <1>4, <1>6, <1>7

LEMMA PlaceFacts ==
    ASSUME NEW m, MemOK(m), NEW p \in Names
    PROVE  /\ IsPlace(m, Place(m, p))
           /\ Lexical(m) # {} => Place(m, p) = Frames(CursorKey(m))
           /\ Lexical(m) = {} =>
                Place(m, p) = IF m.shared[p] # 0 THEN Cell(m.shared[p])
                              ELSE IF m.shared["main"] # 0 THEN Cell(m.shared["main"])
                              ELSE Plain(p)
<1>1. /\ Lexical(m) # {} => CursorKey(m) = Max(Lexical(m)) /\ CursorKey(m) \in Lexical(m)
  BY LexicalFacts
<1>2. Lexical(m) # {} => Place(m, p) = Frames(CursorKey(m))
  BY <1>1 DEF Place
<1>3. Lexical(m) = {} =>
          Place(m, p) = IF m.shared[p] # 0 THEN Cell(m.shared[p])
                        ELSE IF m.shared["main"] # 0 THEN Cell(m.shared["main"])
                        ELSE Plain(p)
  BY DEF Place, Cells, Cell
<1>4. \A q \in Names : m.shared[q] # 0 => m.shared[q] \in 1 .. Len(m.heap)
  <2>1. m.shared \in [Names -> Nat] /\ Len(m.heap) \in Nat /\ \A q \in Names : m.shared[q] <= Len(m.heap)
    BY Parts DEF MemOK, CellsOK
  <2> QED BY <2>1
<1>5. IsPlace(m, Place(m, p))
  <2>1. CASE Lexical(m) # {}
    BY <1>1, <1>2, <2>1 DEF IsPlace
  <2>2. CASE Lexical(m) = {} /\ m.shared[p] # 0
    BY <1>3, <1>4, <2>2 DEF IsPlace
  <2>3. CASE Lexical(m) = {} /\ m.shared[p] = 0 /\ m.shared["main"] # 0
    <3>1. Place(m, p) = Cell(m.shared["main"]) /\ m.shared["main"] \in 1 .. Len(m.heap)
      BY <1>3, <1>4, <2>3 DEF Names
    <3> QED BY <3>1 DEF IsPlace
  <2>4. CASE Lexical(m) = {} /\ m.shared[p] = 0 /\ m.shared["main"] = 0
    BY <1>3, <2>4 DEF IsPlace
  <2> QED BY <2>1, <2>2, <2>3, <2>4
<1> QED BY <1>2, <1>3, <1>5

\* n has its arrays where m has; and the same saves.
Alike(m, n) ==
    /\ Depth(n) = Depth(m)
    /\ \A d \in 1 .. Depth(m) : m.frames[d].a = Absent <=> n.frames[d].a = Absent
    /\ Len(n.heap) = Len(m.heap) /\ n.shared = m.shared /\ n.pkg = m.pkg
SameSaves(m, n) ==
    \A d \in 1 .. Depth(m) :
        /\ n.frames[d].back = m.frames[d].back /\ n.frames[d].elems = m.frames[d].elems
        /\ n.frames[d].len = m.frames[d].len /\ n.frames[d].whole = m.frames[d].whole

LEMMA AlikePlaces ==
    ASSUME NEW m, NEW n, Alike(m, n)
    PROVE  /\ Lexical(n) = Lexical(m) /\ CursorKey(n) = CursorKey(m)
           /\ \A p \in Names : Place(n, p) = Place(m, p)
           /\ \A q : IsPlace(m, q) <=> IsPlace(n, q)
<1>1. Lexical(n) = Lexical(m)
  BY DEF Lexical, Alike
<1>2. CursorKey(n) = CursorKey(m)
  BY <1>1 DEF CursorKey
<1>3. \A p \in Names : Place(n, p) = Place(m, p)
  BY <1>1 DEF Alike, Place, Cells
<1>4. \A q : IsPlace(m, q) <=> IsPlace(n, q)
  BY <1>1 DEF Alike, IsPlace
<1> QED BY <1>1, <1>2, <1>3, <1>4

\* The array at a place.
LEMMA AtFacts ==
    ASSUME NEW m, MemOK(m), NEW q, IsPlace(m, q)
    PROVE  /\ At(m, q) \in Arr \cup {Absent} /\ ArrayAt(m, q) \in Arr
           /\ At(m, q) # Absent => At(m, q) \in Arr /\ ArrayAt(m, q) = At(m, q)
           /\ At(m, q) = Absent => ArrayAt(m, q) = <<>> /\ q.kind = "plain"
<1>1. m \in Mem
  BY DEF MemOK
<1>2. At(m, q) \in Arr \cup {Absent} /\ (At(m, q) = Absent => q.kind = "plain")
  <2>1. ASSUME NEW d \in Lexical(m), q = Frames(d)
        PROVE  At(m, q) \in Arr
    <3>1. d \in DOMAIN m.frames /\ m.frames[d].a # Absent /\ m.frames \in Seq(Scopes)
      BY <1>1, Parts DEF Lexical
    <3>2. m.frames[d] \in Scopes
      BY <3>1
    <3>3. q.kind = "frame" /\ q.key = d
      BY <2>1 DEF Frames
    <3>4. At(m, q) = m.frames[d].a
      BY <3>3 DEF At
    <3>5. m.frames[d].a \in Arr \cup {Absent}
      BY <3>2 DEF Scopes
    <3> QED BY <3>1, <3>4, <3>5
  <2>2. ASSUME NEW c \in 1 .. Len(m.heap), q = Cell(c)
        PROVE  At(m, q) \in Arr
    <3>1. q.kind = "cell" /\ q.key = c
      BY <2>2 DEF Cell
    <3>2. At(m, q) = m.heap[c]
      BY <3>1 DEF At
    <3>3. m.heap \in Seq(Arr) /\ c \in 1 .. Len(m.heap)
      BY <1>1, Parts
    <3>4. m.heap[c] \in Arr
      BY <3>3, ElementOfSeq
    <3> QED BY <3>2, <3>4
  <2>3. ASSUME NEW p \in Names, q = Plain(p)
        PROVE  At(m, q) \in Arr \cup {Absent} /\ q.kind = "plain"
    <3>1. q.kind = "plain" /\ q.key = p
      BY <2>3 DEF Plain
    <3>2. At(m, q) = m.plain[p]
      BY <3>1 DEF At
    <3>3. m.plain \in [Names -> Arr \cup {Absent}]
      BY <1>1, Parts
    <3> QED BY <3>1, <3>2, <3>3
  <2> QED BY <2>1, <2>2, <2>3, NotAbsent DEF IsPlace
<1> QED BY <1>2, NotAbsent DEF ArrayAt

\* The frames with another array in one of them.
LEMMA FramesWith ==
    ASSUME NEW m, MemOK(m), NEW d \in 1 .. Depth(m), NEW arr \in Arr \cup {Absent}
    PROVE  LET f == [m.frames EXCEPT ![d].a = arr]
           IN /\ f \in Seq(Scopes) /\ Len(f) = Len(m.frames) /\ f # <<>>
              /\ f[d].a = arr
              /\ \A e \in 1 .. Depth(m) :
                     /\ f[e].back = m.frames[e].back /\ f[e].elems = m.frames[e].elems
                     /\ f[e].len = m.frames[e].len /\ f[e].whole = m.frames[e].whole
                     /\ e # d => f[e] = m.frames[e]
<1> DEFINE s == m.frames
           g == [s[d] EXCEPT !.a = arr]
           f == [s EXCEPT ![d].a = arr]
<1>1. s \in Seq(Scopes) /\ DOMAIN s = 1 .. Depth(m) /\ Len(s) = Depth(m) /\ Depth(m) \in Nat /\ s # <<>>
  BY Parts DEF MemOK, Depth
<1> HIDE DEF s
<1>2. s[d] \in Scopes
  BY <1>1
<1>3. /\ g \in Scopes /\ g.a = arr /\ g.back = s[d].back /\ g.elems = s[d].elems
      /\ g.len = s[d].len /\ g.whole = s[d].whole
  BY <1>2 DEF Scopes
<1>4. f = [s EXCEPT ![d] = g]
  OBVIOUS
<1> HIDE DEF f, g
<1>5. f \in Seq(Scopes) /\ Len(f) = Len(s) /\ f[d] = g /\ \A e \in 1 .. Depth(m) : e # d => f[e] = s[e]
  BY <1>1, <1>3, <1>4
<1>6. f # <<>>
  BY <1>1, <1>5
<1>7. \A e \in 1 .. Depth(m) :
          /\ f[e].back = s[e].back /\ f[e].elems = s[e].elems
          /\ f[e].len = s[e].len /\ f[e].whole = s[e].whole
  BY <1>3, <1>5
<1> QED BY <1>3, <1>5, <1>6, <1>7 DEF s, f

\* Putting an array at a place.
Putting(m, n, q, arr) ==
    /\ MemOK(n) /\ Alike(m, n) /\ SameSaves(m, n) /\ At(n, q) = arr
    /\ n.deleted = m.deleted /\ n.cursors = m.cursors
    /\ \A r : IsPlace(m, r) /\ r # q => At(n, r) = At(m, r)
LEMMA PutInFrame ==
    ASSUME NEW m, MemOK(m), NEW d \in Lexical(m), NEW arr \in Arr
    PROVE  Putting(m, Put(m, Frames(d), arr), Frames(d), arr)
<1> DEFINE q == Frames(d)
           f == [m.frames EXCEPT ![d].a = arr]
           n == Put(m, q, arr)
<1>1. q.kind = "frame" /\ q.key = d
  BY DEF Frames
<1>2. n = [m EXCEPT !.frames = f]
  BY <1>1 DEF Put
<1>3. m \in Mem /\ d \in 1 .. Depth(m) /\ m.frames[d].a # Absent /\ arr # Absent
  BY NotAbsent DEF MemOK, Lexical
<1>4. /\ f \in Seq(Scopes) /\ Len(f) = Len(m.frames) /\ f # <<>> /\ f[d].a = arr
      /\ \A e \in 1 .. Depth(m) :
             /\ f[e].back = m.frames[e].back /\ f[e].elems = m.frames[e].elems
             /\ f[e].len = m.frames[e].len /\ f[e].whole = m.frames[e].whole
             /\ e # d => f[e] = m.frames[e]
  BY <1>3, FramesWith
<1> HIDE DEF f, n
<1>5. /\ n \in Mem /\ n.frames = f /\ n.heap = m.heap /\ n.shared = m.shared /\ n.plain = m.plain
      /\ n.deleted = m.deleted /\ n.cursors = m.cursors /\ n.pkg = m.pkg
  BY <1>2, <1>3, <1>4 DEF Mem
<1>6. Depth(n) = Depth(m) /\ DOMAIN f = 1 .. Depth(m) /\ DOMAIN m.frames = 1 .. Depth(m)
  BY <1>3, <1>4, <1>5, Parts DEF Depth
<1>7. CellsOK(n)
  BY <1>4, <1>5, <1>6 DEF MemOK, CellsOK
<1>8. MemOK(n)
  BY <1>4, <1>5, <1>6, <1>7 DEF MemOK
<1>9. Alike(m, n) /\ SameSaves(m, n)
  BY <1>3, <1>4, <1>5, <1>6 DEF Alike, SameSaves
<1>10. At(n, q) = arr
  BY <1>1, <1>4, <1>5 DEF At
<1>11. ASSUME NEW r, IsPlace(m, r), r # q PROVE At(n, r) = At(m, r)
  <2>1. ASSUME NEW e \in Lexical(m), r = Frames(e) PROVE At(n, r) = At(m, r)
    <3>1. r.kind = "frame" /\ r.key = e /\ e # d /\ e \in 1 .. Depth(m)
      BY <1>11, <2>1 DEF Frames, Lexical
    <3>2. f[e] = m.frames[e]
      BY <1>4, <3>1
    <3> QED BY <1>5, <3>1, <3>2 DEF At
  <2>2. ASSUME r.kind # "frame" PROVE At(n, r) = At(m, r)
    BY <1>5, <2>2 DEF At
  <2> QED BY <1>11, <2>1, <2>2 DEF IsPlace, Cell, Plain
<1>12. Putting(m, n, q, arr)
  BY <1>5, <1>8, <1>9, <1>10, <1>11 DEF Putting
<1> QED BY <1>12 DEF n

LEMMA PutInCell ==
    ASSUME NEW m, MemOK(m), NEW c \in 1 .. Len(m.heap), NEW arr \in Arr
    PROVE  Putting(m, Put(m, Cell(c), arr), Cell(c), arr)
<1> DEFINE q == Cell(c)
           h == [m.heap EXCEPT ![c] = arr]
           n == Put(m, q, arr)
<1>1. q.kind = "cell" /\ q.key = c
  BY DEF Cell
<1>2. n = [m EXCEPT !.heap = h]
  BY <1>1 DEF Put
<1>3. m \in Mem
  BY DEF MemOK
<1>4. m.heap \in Seq(Arr) /\ DOMAIN m.heap = 1 .. Len(m.heap)
  BY <1>3, Parts
<1>5. /\ h \in Seq(Arr) /\ Len(h) = Len(m.heap) /\ h[c] = arr
      /\ \A e \in 1 .. Len(m.heap) : e # c => h[e] = m.heap[e]
  BY <1>4
<1> HIDE DEF h, n
<1>6. /\ n \in Mem /\ n.frames = m.frames /\ n.heap = h /\ n.shared = m.shared /\ n.plain = m.plain
      /\ n.deleted = m.deleted /\ n.cursors = m.cursors /\ n.pkg = m.pkg
  BY <1>2, <1>3, <1>5 DEF Mem
<1>7. CellsOK(n)
  BY <1>5, <1>6 DEF MemOK, CellsOK
<1>8. MemOK(n)
  BY <1>6, <1>7 DEF MemOK, Depth
<1>9. Alike(m, n) /\ SameSaves(m, n)
  BY <1>5, <1>6 DEF Alike, SameSaves, Depth
<1>10. At(n, q) = arr
  BY <1>1, <1>5, <1>6 DEF At
<1>11. ASSUME NEW r, IsPlace(m, r), r # q PROVE At(n, r) = At(m, r)
  <2>1. ASSUME NEW e \in 1 .. Len(m.heap), r = Cell(e) PROVE At(n, r) = At(m, r)
    <3>1. r.kind = "cell" /\ r.key = e /\ e # c
      BY <1>11, <2>1 DEF Cell
    <3>2. h[e] = m.heap[e]
      BY <1>5, <3>1
    <3> QED BY <1>6, <3>1, <3>2 DEF At
  <2>2. ASSUME r.kind # "cell" PROVE At(n, r) = At(m, r)
    BY <1>6, <2>2 DEF At
  <2> QED BY <1>11, <2>1, <2>2 DEF IsPlace, Frames, Plain
<1>12. Putting(m, n, q, arr)
  BY <1>6, <1>8, <1>9, <1>10, <1>11 DEF Putting
<1> QED BY <1>12 DEF n

LEMMA PutInPlain ==
    ASSUME NEW m, MemOK(m), NEW p \in Names, NEW arr \in Arr
    PROVE  Putting(m, Put(m, Plain(p), arr), Plain(p), arr)
<1> DEFINE q == Plain(p)
           g == [m.plain EXCEPT ![p] = arr]
           n == Put(m, q, arr)
<1>1. q.kind = "plain" /\ q.key = p
  BY DEF Plain
<1>2. n = [m EXCEPT !.plain = g]
  BY <1>1 DEF Put
<1>3. m \in Mem /\ m.plain \in [Names -> Arr \cup {Absent}]
  BY Parts DEF MemOK
<1>4. g \in [Names -> Arr \cup {Absent}] /\ g[p] = arr /\ \A r \in Names : r # p => g[r] = m.plain[r]
  BY <1>3
<1> HIDE DEF g, n
<1>6. /\ n \in Mem /\ n.frames = m.frames /\ n.heap = m.heap /\ n.shared = m.shared /\ n.plain = g
      /\ n.deleted = m.deleted /\ n.cursors = m.cursors /\ n.pkg = m.pkg
  BY <1>2, <1>3, <1>4 DEF Mem
<1>7. CellsOK(n)
  BY <1>6 DEF MemOK, CellsOK
<1>8. MemOK(n)
  BY <1>6, <1>7 DEF MemOK, Depth
<1>9. Alike(m, n) /\ SameSaves(m, n)
  BY <1>6 DEF Alike, SameSaves, Depth
<1>10. At(n, q) = arr
  BY <1>1, <1>4, <1>6 DEF At
<1>11. ASSUME NEW r, IsPlace(m, r), r # q PROVE At(n, r) = At(m, r)
  <2>1. ASSUME NEW e \in Names, r = Plain(e) PROVE At(n, r) = At(m, r)
    <3>1. r.kind = "plain" /\ r.key = e /\ e # p
      BY <1>11, <2>1 DEF Plain
    <3>2. g[e] = m.plain[e]
      BY <1>4, <3>1
    <3> QED BY <1>6, <3>1, <3>2 DEF At
  <2>2. ASSUME r.kind \in {"frame", "cell"} PROVE At(n, r) = At(m, r)
    BY <1>6, <2>2 DEF At
  <2> QED BY <1>11, <2>1, <2>2 DEF IsPlace, Frames, Cell
<1>12. Putting(m, n, q, arr)
  BY <1>6, <1>8, <1>9, <1>10, <1>11 DEF Putting
<1> QED BY <1>12 DEF n

LEMMA PutFacts ==
    ASSUME NEW m, MemOK(m), NEW q, IsPlace(m, q), NEW arr \in Arr
    PROVE  Putting(m, Put(m, q, arr), q, arr)
BY PutInFrame, PutInCell, PutInPlain DEF IsPlace

-----------------------------------------------------------------------------
(* What the operations do to sequences.                                    *)

\* Slots up to len; those that are new are undef.
LEMMA PaddedFacts ==
    ASSUME NEW arr \in Arr, NEW len \in 0 .. MaxLen
    PROVE  /\ Padded(arr, len) \in Arr
           /\ Len(Padded(arr, len)) = IF Len(arr) >= len THEN Len(arr) ELSE len
           /\ \A j \in 1 .. Len(Padded(arr, len)) :
                  Padded(arr, len)[j] = IF j <= Len(arr) THEN arr[j] ELSE Undef
<1> DEFINE n == IF Len(arr) >= len THEN Len(arr) ELSE len
           t == [j \in 1 .. n |-> IF j <= Len(arr) THEN arr[j] ELSE Undef]
<1>1. arr \in Seq(Values) /\ Len(arr) \in Nat /\ Len(arr) <= MaxLen /\ len \in Nat /\ len <= MaxLen
  BY ArrSeq, NotAbsent, LenProperties
<1>2. n \in Nat /\ n <= MaxLen
  BY <1>1
<1>3. Padded(arr, len) = t
  <2>1. Max({Len(arr), len}) = n
    BY <1>1, MaxOfTwo
  <2> HIDE DEF n
  <2> QED BY <2>1 DEF Padded
<1> HIDE DEF n
<1>4. \A j \in 1 .. n : (IF j <= Len(arr) THEN arr[j] ELSE Undef) \in Values
  BY <1>1, <1>2, NotAbsent, ElementOfSeq
<1>5. t \in [1 .. n -> Values] /\ DOMAIN t = 1 .. n /\ \A j \in 1 .. n : t[j] = IF j <= Len(arr) THEN arr[j] ELSE Undef
  BY <1>4
<1> HIDE DEF t
<1>6. t \in Seq(Values)
  BY <1>2, <1>5
<1>7. Len(t) = n
  BY <1>2, <1>5, <1>6, LenProperties
<1>8. t \in Arr
  BY <1>2, <1>6, <1>7, ArrSeq
<1> QED BY <1>3, <1>5, <1>7, <1>8 DEF n

\* One slot set.
LEMMA SetSlotFacts ==
    ASSUME NEW arr \in Arr, NEW i \in 0 .. MaxLen - 1, NEW v \in Values
    PROVE  /\ SetSlot(arr, i, v) \in Arr
           /\ Len(SetSlot(arr, i, v)) = IF Len(arr) >= i + 1 THEN Len(arr) ELSE i + 1
           /\ SetSlot(arr, i, v)[i + 1] = v
           /\ \A j \in 1 .. Len(SetSlot(arr, i, v)) : j # i + 1 =>
                  SetSlot(arr, i, v)[j] = IF j <= Len(arr) THEN arr[j] ELSE Undef
<1> DEFINE p == Padded(arr, i + 1)
           t == SetSlot(arr, i, v)
<1>1. i + 1 \in 0 .. MaxLen /\ i \in Nat /\ Len(arr) \in Nat /\ MaxLen \in Nat
  BY ArrSeq, NotAbsent, LenProperties
<1>2. /\ p \in Arr /\ Len(p) = (IF Len(arr) >= i + 1 THEN Len(arr) ELSE i + 1)
      /\ \A j \in 1 .. Len(p) : p[j] = IF j <= Len(arr) THEN arr[j] ELSE Undef
  BY <1>1, PaddedFacts
<1>3. t = [p EXCEPT ![i + 1] = v]
  BY DEF SetSlot
<1> HIDE DEF p, t
<1>4. p \in Seq(Values) /\ i + 1 \in 1 .. Len(p) /\ Len(p) <= MaxLen
  BY <1>1, <1>2, ArrSeq
<1>5. t \in Seq(Values) /\ Len(t) = Len(p) /\ t[i + 1] = v /\ \A j \in 1 .. Len(p) : j # i + 1 => t[j] = p[j]
  BY <1>3, <1>4
<1>6. t \in Arr
  BY <1>4, <1>5, ArrSeq
<1>7. \A j \in 1 .. Len(t) : j # i + 1 => t[j] = IF j <= Len(arr) THEN arr[j] ELSE Undef
  BY <1>2, <1>5
<1> QED BY <1>2, <1>5, <1>6, <1>7 DEF t

\* What is left is a prefix, and what is gone was marked.
LEMMA TrimFacts ==
    ASSUME NEW arr \in Arr, NEW marks
    PROVE  /\ Trim(arr, marks) \in Arr /\ Len(Trim(arr, marks)) \in 0 .. Len(arr)
           /\ \A j \in 1 .. Len(Trim(arr, marks)) : Trim(arr, marks)[j] = arr[j]
           /\ \A j \in 1 .. Len(arr) : j > Len(Trim(arr, marks)) => j - 1 \in marks
           /\ Len(Trim(arr, marks)) = 0 \/ Len(Trim(arr, marks)) - 1 \notin marks
<1> DEFINE T == {0} \cup {j \in 1 .. Len(arr) : j - 1 \notin marks}
           n == Max(T)
           t == Trim(arr, marks)
<1>1. arr \in Seq(Values) /\ Len(arr) \in Nat /\ Len(arr) <= MaxLen /\ MaxLen \in Nat
  BY ArrSeq, NotAbsent, LenProperties
<1>2. n \in T /\ n \in 0 .. Len(arr) /\ \A j \in T : j <= n
  <2>1. T \subseteq 0 .. Len(arr) /\ T # {}
    BY <1>1
  <2> HIDE DEF T
  <2> QED BY <1>1, <2>1, MaxOf
<1>3. t = SubSeq(arr, 1, n)
  BY DEF Trim
<1>4. n = 0 \/ n - 1 \notin marks
  <2> HIDE DEF n
  <2> QED BY <1>2
<1>5. \A j \in 1 .. Len(arr) : j > n => j - 1 \in marks
  <2> HIDE DEF n
  <2>1. ASSUME NEW j \in 1 .. Len(arr), j > n PROVE j \notin T
    BY <1>1, <1>2, <2>1
  <2> QED BY <2>1
<1> HIDE DEF n, T, t
<1>6. n \in Nat /\ n <= Len(arr)
  BY <1>1, <1>2
<1>7. t \in Seq(Values) /\ Len(t) = n /\ \A j \in 1 .. n : t[j] = arr[j]
  BY <1>1, <1>3, <1>6, FirstOfSeq
<1>8. t \in Arr
  BY <1>1, <1>6, <1>7, ArrSeq
<1> QED BY <1>2, <1>4, <1>5, <1>7, <1>8 DEF t

\* The first len slots.
LEMMA CutFacts ==
    ASSUME NEW arr \in Arr, NEW len \in 0 .. MaxLen
    PROVE  LET t == SubSeq(Padded(arr, len), 1, len)
           IN /\ t \in Arr /\ Len(t) = len
              /\ \A j \in 1 .. len : t[j] = IF j <= Len(arr) THEN arr[j] ELSE Undef
<1> DEFINE p == Padded(arr, len)
           t == SubSeq(p, 1, len)
<1>1. /\ p \in Arr /\ Len(p) = (IF Len(arr) >= len THEN Len(arr) ELSE len)
      /\ \A j \in 1 .. Len(p) : p[j] = IF j <= Len(arr) THEN arr[j] ELSE Undef
  BY PaddedFacts
<1> HIDE DEF p
<1>2. p \in Seq(Values) /\ len \in Nat /\ len <= MaxLen /\ Len(arr) \in Nat
  BY <1>1, ArrSeq, NotAbsent, LenProperties
<1>3. len <= Len(p)
  BY <1>1, <1>2
<1>4. t \in Seq(Values) /\ Len(t) = len /\ \A j \in 1 .. len : t[j] = p[j]
  BY <1>2, <1>3, FirstOfSeq
<1> HIDE DEF t
<1>5. t \in Arr
  BY <1>2, <1>4, ArrSeq
<1>6. \A j \in 1 .. len : t[j] = IF j <= Len(arr) THEN arr[j] ELSE Undef
  BY <1>1, <1>2, <1>3, <1>4
<1> QED BY <1>4, <1>5, <1>6 DEF t, p

\* Lists that the program puts in an array.
LEMMA ListFacts == \A list \in Lists : list \in Seq(Values) /\ list \in Arr
<1> SUFFICES ASSUME NEW list \in Lists PROVE list \in Seq(Values) /\ list \in Arr
  OBVIOUS
<1>1. Len(list) <= MaxLen /\ (list = <<>> \/ (\E v \in Items : list = <<v>> \/ list = <<Undef, v>>))
  BY DEF Lists
<1>2. list \in Seq(Values)
  <2>1. Undef \in Values /\ \A v \in Items : v \in Values
    BY DEF Values
  <2>2. ASSUME NEW v \in Items PROVE <<v>> \in Seq(Values) /\ <<Undef, v>> \in Seq(Values)
    BY <2>1
  <2>3. <<>> \in Seq(Values)
    OBVIOUS
  <2> QED BY <1>1, <2>2, <2>3
<1> QED BY <1>1, <1>2, ArrSeq

\* The builtins that replace the array by one made of it.
LEMMA ReplacementFacts ==
    ASSUME NEW arr \in Arr, NEW list \in Seq(Values)
    PROVE  /\ arr \o list \in Seq(Values) /\ list \o arr \in Seq(Values)
           /\ (IF arr = <<>> THEN <<>> ELSE Front(arr)) \in Seq(Values)
           /\ (IF arr = <<>> THEN <<>> ELSE Tail(arr)) \in Seq(Values)
<1>1. arr \in Seq(Values)
  BY ArrSeq
<1>2. arr \o list \in Seq(Values) /\ list \o arr \in Seq(Values)
  BY <1>1, ConcatProperties
<1>3. <<>> \in Seq(Values)
  OBVIOUS
<1>4. arr # <<>> => Front(arr) \in Seq(Values)
  BY <1>1, FrontOfSeq
<1>5. arr # <<>> => Tail(arr) \in Seq(Values)
  BY <1>1, HeadTailProperties
<1> QED BY <1>2, <1>3, <1>4, <1>5

LEMMA SpliceFacts ==
    ASSUME NEW arr \in Arr, NEW list \in Seq(Values), NEW off \in Ends, NEW n \in Ends
    PROVE  LET o == Offset(off, Len(arr))
               r == Removed(n, Len(arr) - o)
           IN SubSeq(arr, 1, o) \o list \o SubSeq(arr, o + r + 1, Len(arr)) \in Seq(Values)
<1> DEFINE o == Offset(off, Len(arr))
           r == Removed(n, Len(arr) - o)
           s == SubSeq(arr, 1, o)
           t == SubSeq(arr, o + r + 1, Len(arr))
<1>1. arr \in Seq(Values) /\ Len(arr) \in Nat /\ off \in Int /\ n \in Int
  BY ArrSeq, NotAbsent, LenProperties DEF Ends
<1>2. o \in Nat /\ o <= Len(arr)
  <2>1. Max({Len(arr) + off, 0}) = IF Len(arr) + off >= 0 THEN Len(arr) + off ELSE 0
    <3> DEFINE x == Len(arr) + off
    <3>1. x \in Int /\ 0 \in Int
      BY <1>1
    <3> HIDE DEF x
    <3>2. Max({x, 0}) = IF x >= 0 THEN x ELSE 0
      BY <3>1, MaxOfTwo
    <3> QED BY <3>2 DEF x
  <2>2. Min({off, Len(arr)}) = IF off <= Len(arr) THEN off ELSE Len(arr)
    <3> DEFINE y == Len(arr)
    <3>1. off \in Int /\ y \in Int
      BY <1>1
    <3> HIDE DEF y
    <3>2. Min({off, y}) = IF off <= y THEN off ELSE y
      BY <3>1, MaxOfTwo
    <3> QED BY <3>2 DEF y
  <2> QED BY <1>1, <2>1, <2>2 DEF Offset
<1> HIDE DEF o
<1>3. r \in Nat /\ o + r <= Len(arr)
  <2> DEFINE l == Len(arr) - o
  <2>0. l \in Nat
    BY <1>1, <1>2
  <2>1. Max({l + n, 0}) = IF l + n >= 0 THEN l + n ELSE 0
    <3> DEFINE x == l + n
    <3>1. x \in Int /\ 0 \in Int
      BY <1>1, <2>0
    <3> HIDE DEF x
    <3>2. Max({x, 0}) = IF x >= 0 THEN x ELSE 0
      BY <3>1, MaxOfTwo
    <3> QED BY <3>2 DEF x
  <2>2. Min({n, l}) = IF n <= l THEN n ELSE l
    <3>1. n \in Int /\ l \in Int
      BY <1>1, <2>0
    <3> HIDE DEF l
    <3>2. Min({n, l}) = IF n <= l THEN n ELSE l
      BY <3>1, MaxOfTwo
    <3> QED BY <3>2
  <2>3. r = IF n < 0 THEN Max({l + n, 0}) ELSE Min({n, l})
    BY DEF Removed
  <2> HIDE DEF r
  <2>4. r \in Nat /\ r <= l
    <3> HIDE DEF l
    <3> QED BY <1>1, <2>0, <2>1, <2>2, <2>3
  <2> QED BY <1>1, <1>2, <2>4
<1> HIDE DEF r
<1>4. s \in Seq(Values)
  BY <1>1, <1>2, FirstOfSeq
<1>5. t \in Seq(Values)
  <2>1. o + r \in Nat /\ o + r <= Len(arr)
    BY <1>2, <1>3
  <2> QED BY <1>1, <2>1, RestOfSeq
<1> HIDE DEF s, t
<1>6. s \o list \in Seq(Values)
  BY <1>4, ConcatProperties
<1>7. s \o list \o t \in Seq(Values)
  BY <1>5, <1>6, ConcatProperties
<1> QED BY <1>7 DEF s, t, o, r

-----------------------------------------------------------------------------
(* The array a statement finds, and the one it leaves.                     *)

Here(m) == Place(m, m.pkg)
NoCursors == [d \in 0 .. MaxDepth |-> NoCursor]

LEMMA PackageFacts ==
    ASSUME NEW m, MemOK(m)
    PROVE  m.pkg \in Names /\ "main" \in Names /\ "P" \in Names
<1>1. m.pkg \in Packages
  BY Parts DEF MemOK
<1> QED BY <1>1, ArraysAssumption DEF Names

LEMMA GetFacts ==
    ASSUME NEW m, MemOK(m)
    PROVE  /\ IsPlace(m, Here(m)) /\ IsPlace(m, Bare(m)) /\ GetArray(m) \in Arr
           /\ At(m, Here(m)) # Absent => GetArray(m) = At(m, Here(m))
           /\ At(m, Here(m)) = Absent => GetArray(m) = ArrayAt(m, Plain("main"))
<1>1. IsPlace(m, Here(m)) /\ IsPlace(m, Bare(m)) /\ IsPlace(m, Plain("main"))
  <2>1. IsPlace(m, Here(m)) /\ IsPlace(m, Bare(m))
    BY PackageFacts, PlaceFacts DEF Here, Bare
  <2>2. IsPlace(m, Plain("main"))
    BY PackageFacts DEF IsPlace
  <2> QED BY <2>1, <2>2
<1>2. GetArray(m) = IF At(m, Here(m)) = Absent THEN ArrayAt(m, Plain("main")) ELSE At(m, Here(m))
  BY DEF GetArray, Here
<1>3. ArrayAt(m, Plain("main")) \in Arr /\ (At(m, Here(m)) # Absent => At(m, Here(m)) \in Arr)
  BY <1>1, AtFacts
<1> QED BY <1>1, <1>2, <1>3

\* Cursors and marks may change apart from the arrays.
Untouched(m, n) == \A q : IsPlace(m, q) => At(n, q) = At(m, q)
Touched(m, cur, marks) == [m EXCEPT !.cursors = cur, !.deleted = marks]
LEMMA Retouched ==
    ASSUME NEW m, MemOK(m), NEW cur \in [0 .. MaxDepth -> Cursors], NEW marks \in SUBSET (0 .. MaxLen - 1)
    PROVE  LET n == Touched(m, cur, marks)
           IN /\ MemOK(n) /\ Alike(m, n) /\ SameSaves(m, n) /\ Untouched(m, n)
              /\ n.cursors = cur /\ n.deleted = marks
<1> DEFINE n == Touched(m, cur, marks)
<1>1. /\ n \in Mem /\ n.frames = m.frames /\ n.heap = m.heap /\ n.shared = m.shared
      /\ n.plain = m.plain /\ n.pkg = m.pkg /\ n.cursors = cur /\ n.deleted = marks
  BY DEF MemOK, Mem, Touched
<1> HIDE DEF n
<1>2. MemOK(n)
  BY <1>1 DEF MemOK, CellsOK, Depth
<1>3. Alike(m, n) /\ SameSaves(m, n)
  BY <1>1 DEF Alike, SameSaves, Depth
<1>4. Untouched(m, n)
  BY <1>1 DEF Untouched, At
<1> QED BY <1>1, <1>2, <1>3, <1>4 DEF n

LEMMA GetSame ==
    ASSUME NEW m, MemOK(m), NEW n, Alike(m, n), Untouched(m, n)
    PROVE  GetArray(n) = GetArray(m)
<1>1. Here(n) = Here(m)
  BY AlikePlaces, PackageFacts DEF Here, Alike
<1>2. At(n, Here(m)) = At(m, Here(m)) /\ At(n, Plain("main")) = At(m, Plain("main"))
  BY GetFacts, PackageFacts DEF Untouched, IsPlace
<1> QED BY <1>1, <1>2 DEF GetArray, ArrayAt, Here

LEMMA NoCursorsType == NoCursors \in [0 .. MaxDepth -> Cursors] /\ NoCursor \in Cursors
<1>1. NoCursor \in Cursors
  BY NotAbsent DEF NoCursor, Cursors
<1> QED BY <1>1 DEF NoCursors

LEMMA AlikeTransitive ==
    ASSUME NEW m, NEW n, NEW o, Alike(m, n), Alike(n, o)
    PROVE  Alike(m, o) /\ (SameSaves(m, n) /\ SameSaves(n, o) => SameSaves(m, o))
BY DEF Alike, SameSaves

\* An array put where a statement finds it is what the next one finds, with other marks.
LEMMA PutHere ==
    ASSUME NEW m, MemOK(m), NEW arr \in Arr, NEW cur \in [0 .. MaxDepth -> Cursors],
           NEW marks \in SUBSET (0 .. MaxLen - 1)
    PROVE  LET n == Touched(Put(m, Here(m), arr), cur, marks)
           IN /\ MemOK(n) /\ Alike(m, n) /\ SameSaves(m, n) /\ GetArray(n) = arr
              /\ n.cursors = cur /\ n.deleted = marks
<1> DEFINE q == Here(m)
           p == Put(m, q, arr)
           n == Touched(p, cur, marks)
<1>1. Putting(m, p, q, arr)
  BY GetFacts, PutFacts
<1>0. MemOK(p) /\ Alike(m, p) /\ SameSaves(m, p) /\ At(p, q) = arr
  BY <1>1 DEF Putting
<1> HIDE DEF p
<1>2. /\ MemOK(n) /\ Alike(p, n) /\ SameSaves(p, n) /\ Untouched(p, n)
      /\ n.cursors = cur /\ n.deleted = marks
  BY <1>0, Retouched
<1> HIDE DEF n
<1>3. GetArray(n) = GetArray(p)
  BY <1>0, <1>2, GetSame
<1>4. GetArray(p) = arr
  <2>1. Here(p) = q
    BY <1>0, AlikePlaces, PackageFacts DEF Here, Alike
  <2>2. arr # Absent
    BY NotAbsent
  <2> QED BY <1>0, <2>1, <2>2, GetFacts
<1>6. Alike(m, n) /\ SameSaves(m, n)
  BY <1>0, <1>2, AlikeTransitive
<1> QED BY <1>2, <1>3, <1>4, <1>6 DEF n, p, q

LEMMA SetFacts ==
    ASSUME NEW m, MemOK(m), NEW arr \in Arr
    PROVE  LET n == SetArray(m, arr)
           IN /\ MemOK(n) /\ Alike(m, n) /\ SameSaves(m, n) /\ GetArray(n) = arr
              /\ n.cursors = NoCursors /\ n.deleted = {}
<1> DEFINE n == SetArray(m, arr)
<1>1. n = Touched(Put(m, Here(m), arr), NoCursors, {})
  BY DEF SetArray, Here, NoCursors, Touched
<1>2. {} \in SUBSET (0 .. MaxLen - 1)
  OBVIOUS
<1> HIDE DEF n
<1>3. /\ MemOK(n) /\ Alike(m, n) /\ SameSaves(m, n) /\ GetArray(n) = arr
      /\ n.cursors = NoCursors /\ n.deleted = {}
  BY <1>1, <1>2, NoCursorsType, PutHere
<1> QED BY <1>3 DEF n

\* Other marks.
LEMMA MarkedFacts ==
    ASSUME NEW m, MemOK(m), NEW marks \in SUBSET (0 .. MaxLen - 1)
    PROVE  LET n == [m EXCEPT !.deleted = marks]
           IN /\ MemOK(n) /\ Alike(m, n) /\ SameSaves(m, n) /\ GetArray(n) = GetArray(m)
              /\ n.cursors = m.cursors /\ n.deleted = marks /\ Untouched(m, n)
<1> DEFINE n == [m EXCEPT !.deleted = marks]
<1>1. m \in Mem /\ m.cursors \in [0 .. MaxDepth -> Cursors]
  BY Parts DEF MemOK
<1>2. n = Touched(m, m.cursors, marks)
  BY <1>1 DEF Mem, Touched
<1> HIDE DEF n
<1>3. /\ MemOK(n) /\ Alike(m, n) /\ SameSaves(m, n) /\ Untouched(m, n)
      /\ n.cursors = m.cursors /\ n.deleted = marks
  BY <1>1, <1>2, Retouched
<1>4. GetArray(n) = GetArray(m)
  BY <1>3, GetSame
<1> QED BY <1>3, <1>4 DEF n

\* An array set is found, however long.
LEMMA SetFound ==
    ASSUME NEW m, MemOK(m), NEW arr, arr # Absent
    PROVE  GetArray(SetArray(m, arr)) = arr
<1> DEFINE q == Here(m)
           n == SetArray(m, arr)
           f == [m.frames EXCEPT ![q.key].a = arr]
           h == [m.heap EXCEPT ![q.key] = arr]
           g == [m.plain EXCEPT ![q.key] = arr]
<1>1. m \in Mem /\ IsPlace(m, q)
  BY GetFacts DEF MemOK
<1>2. n.shared = m.shared /\ n.pkg = m.pkg
      /\ n.frames = (IF q.kind = "frame" THEN f ELSE m.frames)
      /\ n.heap = (IF q.kind = "cell" THEN h ELSE m.heap)
      /\ n.plain = (IF q.kind \in {"frame", "cell"} THEN m.plain ELSE g)
  BY <1>1 DEF SetArray, Put, Mem, Here
<1> HIDE DEF n
<1>3. At(n, q) = arr
  <2>1. CASE q.kind = "frame"
    <3>1. q.key \in DOMAIN m.frames
      BY <1>1, <2>1, Parts DEF IsPlace, Frames, Cell, Plain, Lexical
    <3>2. f[q.key].a = arr
      <4>1. m.frames[q.key] \in Scopes
        BY <1>1, <3>1, Parts
      <4> QED BY <3>1, <4>1 DEF Scopes
    <3> QED BY <1>2, <2>1, <3>2 DEF At
  <2>2. CASE q.kind = "cell"
    <3>1. q.key \in DOMAIN m.heap
      BY <1>1, <2>2, Parts DEF IsPlace, Frames, Cell, Plain
    <3>2. h[q.key] = arr
      BY <3>1
    <3> QED BY <1>2, <2>2, <3>2 DEF At
  <2>3. CASE q.kind \notin {"frame", "cell"}
    <3>1. q.key \in DOMAIN m.plain
      BY <1>1, <2>3, Parts DEF IsPlace, Frames, Cell, Plain
    <3>2. g[q.key] = arr
      BY <3>1
    <3> QED BY <1>2, <2>3, <3>2 DEF At
  <2> QED BY <2>1, <2>2, <2>3
<1>4. Lexical(n) = Lexical(m)
  <2>1. CASE q.kind = "frame"
    <3>1. q.key \in 1 .. Depth(m) /\ m.frames[q.key].a # Absent
      BY <1>1, <2>1 DEF IsPlace, Frames, Cell, Plain, Lexical
    <3>2. m.frames \in Seq(Scopes) /\ DOMAIN m.frames = 1 .. Depth(m)
      BY <1>1, Parts
    <3>3. \A d \in 1 .. Depth(m) : m.frames[d] \in Scopes
      BY <3>2, ElementOfSeq DEF Depth
    <3>4. DOMAIN f = DOMAIN m.frames /\ f[q.key].a = arr
          /\ \A d \in 1 .. Depth(m) : d # q.key => f[d] = m.frames[d]
      BY <3>1, <3>2, <3>3 DEF Scopes
    <3>5. Len(f) = Len(m.frames)
      BY <3>2, <3>4, LenProperties
    <3> HIDE DEF f
    <3> QED BY <1>2, <2>1, <3>1, <3>4, <3>5 DEF Lexical, Depth
  <2>2. CASE q.kind # "frame"
    BY <1>2, <2>2 DEF Lexical, Depth
  <2> QED BY <2>1, <2>2
<1>5. Here(n) = q
  <2>1. n.shared = m.shared /\ n.pkg = m.pkg /\ Lexical(n) = Lexical(m)
    BY <1>2, <1>4
  <2> HIDE DEF n, f, h, g
  <2> QED BY <2>1 DEF Here, Place, Cells
<1> HIDE DEF q
<1>6. GetArray(n) = arr
  BY <1>3, <1>5 DEF GetArray, Here
<1> QED BY <1>6 DEF n

\* An array put at any place.
LEMMA PutAt ==
    ASSUME NEW m, MemOK(m), NEW q, IsPlace(m, q), NEW arr \in Arr,
           NEW cur \in [0 .. MaxDepth -> Cursors], NEW marks \in SUBSET (0 .. MaxLen - 1)
    PROVE  LET n == Touched(Put(m, q, arr), cur, marks)
           IN /\ MemOK(n) /\ Alike(m, n) /\ SameSaves(m, n) /\ At(n, q) = arr
              /\ n.cursors = cur /\ n.deleted = marks
              /\ \A r : IsPlace(m, r) /\ r # q => At(n, r) = At(m, r)
<1> DEFINE p == Put(m, q, arr)
           n == Touched(p, cur, marks)
<1>1. Putting(m, p, q, arr)
  BY PutFacts
<1>2. /\ MemOK(p) /\ Alike(m, p) /\ SameSaves(m, p) /\ At(p, q) = arr
      /\ \A r : IsPlace(m, r) /\ r # q => At(p, r) = At(m, r)
  BY <1>1 DEF Putting
<1> HIDE DEF p
<1>3. /\ MemOK(n) /\ Alike(p, n) /\ SameSaves(p, n) /\ Untouched(p, n)
      /\ n.cursors = cur /\ n.deleted = marks
  BY <1>2, Retouched
<1> HIDE DEF n
<1>4. Alike(m, n) /\ SameSaves(m, n)
  BY <1>2, <1>3, AlikeTransitive
<1>5. \A r : IsPlace(m, r) => At(n, r) = At(p, r)
  BY <1>2, <1>3, AlikePlaces DEF Untouched
<1>6. At(n, q) = arr /\ \A r : IsPlace(m, r) /\ r # q => At(n, r) = At(m, r)
  BY <1>2, <1>5
<1> QED BY <1>3, <1>4, <1>6 DEF n, p

\* `delete` works on the array of the bare name, which may be another one.
LEMMA PutBare ==
    ASSUME NEW m, MemOK(m), NEW arr \in Arr, At(m, Bare(m)) # Absent,
           NEW cur \in [0 .. MaxDepth -> Cursors], NEW marks \in SUBSET (0 .. MaxLen - 1)
    PROVE  LET n == Touched(Put(m, Bare(m), arr), cur, marks)
           IN /\ MemOK(n) /\ Alike(m, n) /\ SameSaves(m, n)
              /\ n.cursors = cur /\ n.deleted = marks
              /\ \/ GetArray(n) = arr /\ ArrayAt(m, Bare(m)) = GetArray(m)
                 \/ GetArray(n) = GetArray(m) /\ Bare(m) # Here(m)
<1> DEFINE q == Bare(m)
           n == Touched(Put(m, q, arr), cur, marks)
<1>1. IsPlace(m, q) /\ IsPlace(m, Here(m)) /\ IsPlace(m, Plain("main"))
  BY GetFacts, PackageFacts DEF IsPlace
<1>2. /\ MemOK(n) /\ Alike(m, n) /\ SameSaves(m, n) /\ At(n, q) = arr
      /\ n.cursors = cur /\ n.deleted = marks
      /\ \A r : IsPlace(m, r) /\ r # q => At(n, r) = At(m, r)
  <2> HIDE DEF q
  <2> QED BY <1>1, PutAt
<1> HIDE DEF n
<1>3. Here(n) = Here(m)
  BY <1>2, AlikePlaces, PackageFacts DEF Here, Alike
<1>4. ArrayAt(m, q) = At(m, q) /\ arr # Absent
  BY <1>1, AtFacts, NotAbsent
<1>5. CASE q = Here(m)
  <2>1. GetArray(n) = arr
    BY <1>2, <1>3, <1>4, <1>5, GetFacts
  <2>2. GetArray(m) = ArrayAt(m, q)
    BY <1>4, <1>5, GetFacts
  <2> QED BY <1>2, <2>1, <2>2 DEF n, q
<1>6. CASE q # Here(m) /\ At(m, Here(m)) # Absent
  <2>1. At(n, Here(n)) = At(m, Here(m))
    BY <1>1, <1>2, <1>3, <1>6
  <2>2. GetArray(n) = GetArray(m)
    BY <1>2, <1>6, <2>1, GetFacts
  <2> QED BY <1>2, <1>6, <2>2 DEF n, q
<1>7. CASE q # Here(m) /\ At(m, Here(m)) = Absent
  <2>1. Here(m).kind = "plain"
    BY <1>1, <1>7, AtFacts
  <2>2. Lexical(m) = {} /\ m.shared["main"] = 0
    BY <2>1, PlaceFacts, PackageFacts DEF Here, Frames, Cell
  <2>3. q = Plain("main")
    BY <2>2, PlaceFacts, PackageFacts DEF Bare
  <2>4. At(n, Here(n)) = Absent
    BY <1>1, <1>2, <1>3, <1>7
  <2>5. GetArray(m) = ArrayAt(m, q) /\ GetArray(n) = ArrayAt(n, q)
    BY <1>2, <1>7, <2>3, <2>4, GetFacts
  <2>6. ArrayAt(n, q) = arr
    BY <1>2, <1>4 DEF ArrayAt
  <2> QED BY <1>2, <2>5, <2>6 DEF n, q
<1> QED BY <1>5, <1>6, <1>7

-----------------------------------------------------------------------------
(* A slot with a value is not denied, and `each` knows every index.        *)

DeniedOK(m) == \A i \in 1 .. Len(GetArray(m)) : GetArray(m)[i] # Undef => i - 1 \notin m.deleted
EachOK(m) ==
    LET c == m.cursors[CursorKey(m)] IN c # NoCursor => c.n >= Len(GetArray(m))
Good(m) == DeniedOK(m) /\ EachOK(m)
Keeps(m, n) ==
    MemOK(n) /\ Alike(m, n) /\ (Good(m) /\ Bare(m) = Here(m) => Good(n))

LEMMA NoEach ==
    ASSUME NEW m, MemOK(m), m.cursors = NoCursors PROVE EachOK(m)
<1>1. CursorKey(m) \in 0 .. MaxDepth
  BY LexicalFacts
<1> QED BY <1>1 DEF EachOK, NoCursors

LEMMA NoMarks ==
    ASSUME NEW m, m.deleted = {} PROVE DeniedOK(m)
BY DEF DeniedOK

\* What sets an array drops its marks and its iteration.
LEMMA SetKeeps ==
    ASSUME NEW m, MemOK(m), NEW arr \in Arr
    PROVE  Keeps(m, SetArray(m, arr)) /\ Good(SetArray(m, arr))
<1> DEFINE n == SetArray(m, arr)
<1>1. MemOK(n) /\ Alike(m, n) /\ n.cursors = NoCursors /\ n.deleted = {}
  BY SetFacts
<1> HIDE DEF n
<1>2. Good(n)
  BY <1>1, NoEach, NoMarks DEF Good
<1>3. Keeps(m, n)
  BY <1>1, <1>2 DEF Keeps
<1> QED BY <1>2, <1>3 DEF n

LEMMA AssignKeeps ==
    ASSUME NEW m, MemOK(m), NEW i \in Ends, Reachable(m, i), NEW v \in Values
    PROVE  Keeps(m, Assign(m, i, v))
<1> DEFINE arr == GetArray(m)
           at == Resolve(i, Len(arr))
           t == SetSlot(arr, at, v)
           s == SetArray(m, t)
           marks == m.deleted \ {at}
           n == Assign(m, i, v)
<1>1. arr \in Arr /\ at \in 0 .. MaxLen - 1 /\ at \in Nat /\ marks \in SUBSET (0 .. MaxLen - 1)
  BY GetFacts, Parts, NotAbsent DEF MemOK, Reachable
<1>2. n = [s EXCEPT !.deleted = marks]
  BY DEF Assign
<1> HIDE DEF at
<1>3. /\ t \in Arr /\ t[at + 1] = v
      /\ \A j \in 1 .. Len(t) : j # at + 1 => t[j] = IF j <= Len(arr) THEN arr[j] ELSE Undef
  <2> HIDE DEF arr
  <2> QED BY <1>1, SetSlotFacts
<1> HIDE DEF t
<1>4. MemOK(s) /\ Alike(m, s) /\ GetArray(s) = t /\ s.cursors = NoCursors
  BY <1>3, SetFacts
<1> HIDE DEF s, marks, n
<1>5. /\ MemOK(n) /\ Alike(s, n) /\ GetArray(n) = t /\ n.cursors = NoCursors /\ n.deleted = marks
  BY <1>1, <1>2, <1>4, MarkedFacts
<1>6. Alike(m, n)
  BY <1>4, <1>5, AlikeTransitive
<1>7. ASSUME DeniedOK(m) PROVE DeniedOK(n)
  <2> SUFFICES ASSUME NEW j \in 1 .. Len(t), t[j] # Undef PROVE j - 1 \notin marks
    BY <1>5 DEF DeniedOK
  <2>1. CASE j = at + 1
    BY <1>1, <2>1 DEF marks
  <2>2. CASE j # at + 1
    <3>1. j <= Len(arr) /\ t[j] = arr[j] /\ j \in 1 .. Len(arr)
      <4>1. Len(arr) \in Nat
        BY <1>1, ArrSeq
      <4> QED BY <1>3, <2>2, <4>1
    <3>2. j - 1 \notin m.deleted
      BY <1>7, <3>1 DEF DeniedOK
    <3> QED BY <3>2 DEF marks
  <2> QED BY <2>1, <2>2
<1>8. Keeps(m, n)
  BY <1>5, <1>6, <1>7, NoEach DEF Keeps, Good
<1> QED BY <1>8 DEF n

LEMMA ResizeKeeps ==
    ASSUME NEW m, MemOK(m), NEW len \in 0 .. MaxLen
    PROVE  Keeps(m, Resize(m, len))
<1> DEFINE arr == GetArray(m)
           t == SubSeq(Padded(arr, len), 1, len)
           s == SetArray(m, t)
           marks == IF len > Len(arr) THEN m.deleted \cup Len(arr) .. len - 1
                    ELSE m.deleted \cap 0 .. len - 1
           n == Resize(m, len)
<1>0. m.deleted \in SUBSET (0 .. MaxLen - 1) /\ len \in Nat /\ len <= MaxLen /\ MaxLen \in Nat
  BY Parts, NotAbsent DEF MemOK
<1>1. arr \in Arr /\ Len(arr) \in Nat
  BY GetFacts, ArrSeq
<1>2. n = [s EXCEPT !.deleted = marks]
  BY DEF Resize
<1>3. /\ t \in Arr /\ Len(t) = len /\ \A j \in 1 .. len : t[j] = IF j <= Len(arr) THEN arr[j] ELSE Undef
  <2> HIDE DEF arr
  <2> QED BY <1>1, CutFacts
<1> HIDE DEF arr, t
<1>9. marks \in SUBSET (0 .. MaxLen - 1)
  BY <1>0, <1>1
<1>4. MemOK(s) /\ Alike(m, s) /\ GetArray(s) = t /\ s.cursors = NoCursors
  BY <1>3, SetFacts
<1> HIDE DEF s, marks, n
<1>5. /\ MemOK(n) /\ Alike(s, n) /\ GetArray(n) = t /\ n.cursors = NoCursors /\ n.deleted = marks
  BY <1>2, <1>4, <1>9, MarkedFacts
<1>6. Alike(m, n)
  BY <1>4, <1>5, AlikeTransitive
<1>7. ASSUME DeniedOK(m) PROVE DeniedOK(n)
  <2> SUFFICES ASSUME NEW j \in 1 .. Len(t), t[j] # Undef PROVE j - 1 \notin marks
    BY <1>5 DEF DeniedOK
  <2>1. j <= Len(arr) /\ t[j] = arr[j] /\ j \in 1 .. Len(arr)
    BY <1>1, <1>3
  <2>2. j - 1 \notin m.deleted
    BY <1>7, <2>1 DEF DeniedOK, arr
  <2> QED BY <1>1, <2>1, <2>2 DEF marks
<1>8. Keeps(m, n)
  BY <1>5, <1>6, <1>7, NoEach DEF Keeps, Good
<1> QED BY <1>8 DEF n

\* Slots blanked, marked and taken off.
LEMMA ShrinkKeeps ==
    ASSUME NEW m, MemOK(m), At(m, Bare(m)) # Absent, NEW arr, arr = ArrayAt(m, Bare(m)),
           NEW t \in Arr, NEW marks \in SUBSET (0 .. MaxLen - 1), Len(t) <= Len(arr),
           \A j \in 1 .. Len(t) : t[j] # Undef => t[j] = arr[j] /\ (j - 1 \in marks => j - 1 \in m.deleted)
    PROVE  Keeps(m, Touched(Put(m, Bare(m), t), m.cursors, marks))
<1> DEFINE n == Touched(Put(m, Bare(m), t), m.cursors, marks)
<1>0. m.cursors \in [0 .. MaxDepth -> Cursors]
  BY Parts DEF MemOK
<1>1. /\ MemOK(n) /\ Alike(m, n) /\ n.cursors = m.cursors /\ n.deleted = marks
      /\ \/ GetArray(n) = t /\ arr = GetArray(m)
         \/ GetArray(n) = GetArray(m) /\ Bare(m) # Here(m)
  BY <1>0, PutBare
<1> HIDE DEF n
<1>2. ASSUME Good(m), Bare(m) = Here(m) PROVE Good(n)
  <2>1. GetArray(n) = t /\ arr = GetArray(m)
    BY <1>1, <1>2
  <2>2. Len(t) \in Nat /\ Len(arr) \in Nat
    BY <2>1, GetFacts, ArrSeq
  <2>3. DeniedOK(n)
    <3> SUFFICES ASSUME NEW j \in 1 .. Len(t), t[j] # Undef PROVE j - 1 \notin marks
      BY <1>1, <2>1 DEF DeniedOK
    <3>1. t[j] = arr[j] /\ j \in 1 .. Len(arr)
      BY <2>2
    <3>2. j - 1 \notin m.deleted
      BY <1>2, <2>1, <3>1 DEF Good, DeniedOK
    <3> QED BY <3>2
  <2>4. EachOK(n)
    <3>1. CursorKey(n) = CursorKey(m) /\ CursorKey(m) \in 0 .. MaxDepth
      BY <1>1, AlikePlaces, LexicalFacts
    <3> DEFINE c == m.cursors[CursorKey(m)]
    <3>2. c \in Cursors
      BY <1>0, <3>1
    <3>3. c.n \in Int /\ (c # NoCursor => c.n >= Len(arr))
      BY <1>2, <2>1, <3>2, NotAbsent DEF Good, EachOK, Cursors
    <3>4. c = n.cursors[CursorKey(n)]
      BY <1>1, <3>1
    <3> HIDE DEF c
    <3>5. c # NoCursor => c.n >= Len(t)
      BY <2>2, <3>3
    <3> QED BY <2>1, <3>4, <3>5 DEF EachOK
  <2> QED BY <2>3, <2>4 DEF Good
<1>3. Keeps(m, n)
  BY <1>1, <1>2 DEF Keeps
<1> QED BY <1>3 DEF n

LEMMA KeepsItself ==
    ASSUME NEW m, MemOK(m) PROVE Keeps(m, m)
BY DEF Keeps, Alike

LEMMA DeleteKeeps ==
    ASSUME NEW m, MemOK(m), NEW i \in Ends
    PROVE  Keeps(m, Delete(m, i))
<1> DEFINE arr == ArrayAt(m, Bare(m))
           at == Resolve(i, Len(arr))
           marks == m.deleted \cup {at}
           blank == SetSlot(arr, at, Undef)
           t == Trim(blank, marks)
           n == Delete(m, i)
<1>1. arr \in Arr /\ Len(arr) \in Nat /\ Len(arr) <= MaxLen /\ MaxLen \in Nat
      /\ m.deleted \in SUBSET (0 .. MaxLen - 1) /\ m \in Mem
  BY GetFacts, AtFacts, ArrSeq, NotAbsent, Parts DEF MemOK
<1>2. CASE at \notin 0 .. Len(arr) - 1
  <2>1. n = m
    BY <1>2 DEF Delete
  <2> QED BY <2>1, KeepsItself
<1>3. CASE at \in 0 .. Len(arr) - 1
  <2>1. n = [Put(m, Bare(m), t) EXCEPT !.deleted = marks]
    BY <1>3 DEF Delete
  <2>2. At(m, Bare(m)) # Absent
    <3>1. arr # <<>>
      BY <1>3
    <3> QED BY <3>1 DEF ArrayAt
  <2>3. at \in 0 .. MaxLen - 1 /\ at + 1 <= Len(arr) /\ marks \in SUBSET (0 .. MaxLen - 1)
    BY <1>1, <1>3
  <2>4. arr = ArrayAt(m, Bare(m))
    OBVIOUS
  <2> HIDE DEF arr, at, n
  <2>5. /\ blank \in Arr /\ Len(blank) = Len(arr) /\ blank[at + 1] = Undef
        /\ \A j \in 1 .. Len(blank) : j # at + 1 => blank[j] = arr[j]
    BY <1>1, <2>3, NotAbsent, SetSlotFacts
  <2> HIDE DEF blank
  <2>6. t \in Arr /\ Len(t) \in 0 .. Len(arr) /\ \A j \in 1 .. Len(t) : t[j] = blank[j]
    BY <2>5, TrimFacts
  <2> HIDE DEF t
  <2>7. ASSUME NEW j \in 1 .. Len(t), t[j] # Undef
        PROVE  t[j] = arr[j] /\ (j - 1 \in marks => j - 1 \in m.deleted)
    BY <1>1, <2>3, <2>5, <2>6, <2>7
  <2>8. Len(t) <= Len(arr)
    BY <1>1, <2>6
  <2> HIDE DEF marks
  <2>9. Keeps(m, Touched(Put(m, Bare(m), t), m.cursors, marks))
    BY <2>2, <2>3, <2>4, <2>6, <2>7, <2>8, ShrinkKeeps
  <2>10. n = Touched(Put(m, Bare(m), t), m.cursors, marks)
    <3> DEFINE p == Put(m, Bare(m), t)
    <3>1. p.cursors = m.cursors /\ p \in Mem
      <4>1. Putting(m, p, Bare(m), t)
        BY <2>6, GetFacts, PutFacts
      <4> QED BY <4>1 DEF Putting, MemOK
    <3>2. n = [p EXCEPT !.deleted = marks]
      BY <2>1
    <3> HIDE DEF p
    <3>3. n = Touched(p, m.cursors, marks)
      BY <3>1, <3>2 DEF Touched, Mem
    <3> QED BY <3>3 DEF p
  <2>11. Keeps(m, n)
    BY <2>9, <2>10
  <2> QED BY <2>11 DEF n
<1> QED BY <1>2, <1>3

\* The cursor of the array that a statement finds.
LEMMA CursorSet ==
    ASSUME NEW m, MemOK(m), NEW c \in Cursors
    PROVE  LET n == [m EXCEPT !.cursors[CursorKey(m)] = c]
           IN /\ MemOK(n) /\ Alike(m, n) /\ GetArray(n) = GetArray(m) /\ n.deleted = m.deleted
              /\ n.cursors[CursorKey(n)] = c
<1> DEFINE n == [m EXCEPT !.cursors[CursorKey(m)] = c]
           cur == [m.cursors EXCEPT ![CursorKey(m)] = c]
<1>1. m \in Mem /\ CursorKey(m) \in 0 .. MaxDepth /\ m.cursors \in [0 .. MaxDepth -> Cursors]
      /\ m.deleted \in SUBSET (0 .. MaxLen - 1)
  BY LexicalFacts, Parts DEF MemOK
<1>2. cur \in [0 .. MaxDepth -> Cursors] /\ cur[CursorKey(m)] = c
  BY <1>1
<1>3. n = Touched(m, cur, m.deleted)
  BY <1>1 DEF Touched, Mem
<1> HIDE DEF n, cur
<1>4. /\ MemOK(n) /\ Alike(m, n) /\ Untouched(m, n) /\ n.cursors = cur /\ n.deleted = m.deleted
  BY <1>1, <1>2, <1>3, Retouched
<1>5. GetArray(n) = GetArray(m) /\ CursorKey(n) = CursorKey(m)
  BY <1>4, GetSame, AlikePlaces
<1>6. n.cursors[CursorKey(n)] = c
  BY <1>2, <1>4, <1>5
<1> QED BY <1>4, <1>5, <1>6 DEF n

LEMMA CursorKeeps ==
    ASSUME NEW m, MemOK(m), NEW c \in Cursors,
           Good(m) => (c # NoCursor => c.n >= Len(GetArray(m)))
    PROVE  Keeps(m, [m EXCEPT !.cursors[CursorKey(m)] = c])
<1> DEFINE n == [m EXCEPT !.cursors[CursorKey(m)] = c]
<1>1. /\ MemOK(n) /\ Alike(m, n) /\ GetArray(n) = GetArray(m) /\ n.deleted = m.deleted
      /\ n.cursors[CursorKey(n)] = c
  BY CursorSet
<1> HIDE DEF n
<1>2. Good(m) => Good(n)
  BY <1>1 DEF Good, DeniedOK, EachOK
<1>3. Keeps(m, n)
  BY <1>1, <1>2 DEF Keeps
<1> QED BY <1>3 DEF n

LEMMA EachKeeps ==
    ASSUME NEW m, MemOK(m)
    PROVE  Keeps(m, Each(m)) /\ Keeps(m, Keys(m))
<1> DEFINE key == CursorKey(m)
           c == IF m.cursors[key] = NoCursor THEN [n |-> Len(GetArray(m)), at |-> 0]
                ELSE m.cursors[key]
           e == IF c.at >= c.n THEN NoCursor ELSE [c EXCEPT !.at = c.at + 1]
<1>1. key \in 0 .. MaxDepth /\ m.cursors \in [0 .. MaxDepth -> Cursors] /\ MaxLen \in Nat
      /\ Len(GetArray(m)) \in 0 .. MaxLen
  <2>1. key \in 0 .. MaxDepth /\ m.cursors \in [0 .. MaxDepth -> Cursors] /\ MaxLen \in Nat
    BY LexicalFacts, Parts, NotAbsent DEF MemOK
  <2>2. Len(GetArray(m)) \in Nat /\ Len(GetArray(m)) <= MaxLen
    BY GetFacts, ArrSeq
  <2> QED BY <2>1, <2>2
<1>2. c \in Cursors
  <2>1. m.cursors[key] \in Cursors
    BY <1>1
  <2> DEFINE l == Len(GetArray(m))
  <2>2. l \in 0 .. MaxLen /\ 0 \in -1 .. MaxLen
    BY <1>1
  <2> HIDE DEF l
  <2>3. [n |-> l, at |-> 0] \in Cursors
    BY <2>2 DEF Cursors
  <2> QED BY <2>1, <2>3 DEF l
<1>3. Good(m) => c.n >= Len(GetArray(m))
  BY <1>1 DEF Good, EachOK
<1>4. Each(m) = [m EXCEPT !.cursors[key] = e]
  BY DEF Each
<1> HIDE DEF c
<1>5. c.n \in 0 .. MaxLen /\ c.at \in -1 .. MaxLen /\ NoCursor \in Cursors
  BY <1>2, NoCursorsType DEF Cursors
<1>6. c.at < c.n => [c EXCEPT !.at = c.at + 1] \in Cursors /\ [c EXCEPT !.at = c.at + 1].n = c.n
  <2> DEFINE x == c.at + 1
  <2>1. c.at < c.n => x \in -1 .. MaxLen
    BY <1>1, <1>5
  <2> HIDE DEF x
  <2>2. x \in -1 .. MaxLen => [c EXCEPT !.at = x] \in Cursors /\ [c EXCEPT !.at = x].n = c.n
    BY <1>2 DEF Cursors
  <2> QED BY <2>1, <2>2 DEF x
<1>7. e \in Cursors /\ (e # NoCursor => e.n = c.n)
  BY <1>5, <1>6
<1> HIDE DEF e, key
<1>8. Keeps(m, [m EXCEPT !.cursors[CursorKey(m)] = e])
  BY <1>3, <1>7, CursorKeeps
<1>9. Keeps(m, [m EXCEPT !.cursors[CursorKey(m)] = NoCursor])
  BY <1>5, CursorKeeps
<1> QED BY <1>4, <1>8, <1>9 DEF Keys, key

-----------------------------------------------------------------------------
(* `local` of an element, and `delete local`.                              *)

\* What is saved of an element.
Old(m, i) ==
    LET at == Resolve(i, Len(GetArray(m)))
    IN IF at \in 0 .. Len(GetArray(m)) - 1 /\ at \notin m.deleted THEN GetArray(m)[at + 1] ELSE Absent
\* n has one save more than m in the innermost block.
Saving(m, n, i) ==
    LET d == Depth(m)
    IN /\ Depth(n) = d
       /\ \A e \in 1 .. d :
             /\ n.frames[e].back = m.frames[e].back /\ n.frames[e].whole = m.frames[e].whole
             /\ e # d => n.frames[e].elems = m.frames[e].elems /\ n.frames[e].len = m.frames[e].len
       /\ n.frames[d].elems = Append(m.frames[d].elems, [i |-> i, old |-> Old(m, i)])
       /\ n.frames[d].len = IF m.frames[d].len = -1 THEN Len(GetArray(m)) ELSE m.frames[d].len

LEMMA SaveFacts ==
    ASSUME NEW m, MemOK(m), NEW i \in Ends
    PROVE  LET n == SaveElem(m, i)
           IN /\ MemOK(n) /\ Alike(m, n) /\ Untouched(m, n) /\ GetArray(n) = GetArray(m)
              /\ n.deleted = m.deleted /\ n.cursors = m.cursors /\ Saving(m, n, i)
              /\ Old(m, i) \in Values \cup {Absent}
<1> DEFINE n == SaveElem(m, i)
           d == Depth(m)
           arr == GetArray(m)
           save == [i |-> i, old |-> Old(m, i)]
           len == IF m.frames[d].len = -1 THEN Len(arr) ELSE m.frames[d].len
           g == [m.frames[d] EXCEPT !.elems = Append(@, save), !.len = len]
           f == [m.frames EXCEPT ![d] = g]
<1>1. /\ m \in Mem /\ m.frames \in Seq(Scopes) /\ d \in 1 .. d /\ d \in Nat /\ Len(m.frames) = d
      /\ d <= MaxDepth /\ m.frames # <<>> /\ DOMAIN m.frames = 1 .. d
  BY LexicalFacts, Parts DEF MemOK, Depth
<1>2. arr \in Seq(Values) /\ Len(arr) \in 0 .. MaxLen
  <2>1. arr \in Seq(Values) /\ Len(arr) \in Nat /\ Len(arr) <= MaxLen /\ MaxLen \in Nat
    BY GetFacts, ArrSeq, NotAbsent
  <2> QED BY <2>1
<1>3. Old(m, i) \in Values \cup {Absent}
  <2> DEFINE at == Resolve(i, Len(arr))
  <2>1. ASSUME at \in 0 .. Len(arr) - 1 PROVE arr[at + 1] \in Values
    <3>1. at + 1 \in 1 .. Len(arr)
      BY <1>2, <2>1
    <3> HIDE DEF at, arr
    <3> QED BY <1>2, <3>1, ElementOfSeq
  <2> QED BY <2>1 DEF Old
<1> HIDE DEF save
<1>4. save \in Elems
  BY <1>3 DEF Elems, save
<1>5. m.frames[d] \in Scopes
  BY <1>1
<1>6. m.frames[d].elems \in Seq(Elems) /\ m.frames[d].len \in -1 .. MaxLen
  BY <1>5 DEF Scopes
<1>7. len \in -1 .. MaxLen
  BY <1>2, <1>6, NotAbsent
<1>8. Append(m.frames[d].elems, save) \in Seq(Elems)
  BY <1>4, <1>6, AppendToSeq
<1>9. n = [m EXCEPT !.frames = f]
  BY ZenonT(60) DEF SaveElem, Old, save
<1> HIDE DEF arr, len, n
<1>10. /\ g \in Scopes /\ g.a = m.frames[d].a /\ g.back = m.frames[d].back /\ g.whole = m.frames[d].whole
       /\ g.elems = Append(m.frames[d].elems, save) /\ g.len = len
  BY <1>5, <1>7, <1>8 DEF Scopes
<1> HIDE DEF g
<1>11. f \in Seq(Scopes) /\ Len(f) = d /\ f[d] = g /\ f # <<>> /\ \A e \in 1 .. d : e # d => f[e] = m.frames[e]
  BY <1>1, <1>10
<1> HIDE DEF f
<1>12. /\ n \in Mem /\ n.frames = f /\ n.heap = m.heap /\ n.shared = m.shared /\ n.plain = m.plain
       /\ n.deleted = m.deleted /\ n.cursors = m.cursors /\ n.pkg = m.pkg
  BY <1>1, <1>9, <1>11 DEF Mem
<1>13. Depth(n) = d /\ DOMAIN f = 1 .. d
  BY <1>11, <1>12, LenProperties DEF Depth
<1>14. \A e \in 1 .. d :
          /\ n.frames[e].back = m.frames[e].back /\ n.frames[e].whole = m.frames[e].whole
          /\ n.frames[e].a = m.frames[e].a
          /\ e # d => n.frames[e].elems = m.frames[e].elems /\ n.frames[e].len = m.frames[e].len
  BY <1>10, <1>11, <1>12
<1>15. CellsOK(n)
  BY <1>1, <1>12, <1>13, <1>14 DEF MemOK, CellsOK
<1>16. MemOK(n)
  BY <1>1, <1>11, <1>12, <1>13, <1>15 DEF MemOK
<1>17. Alike(m, n)
  BY <1>12, <1>13, <1>14 DEF Alike
<1>18. Untouched(m, n)
  <2> SUFFICES ASSUME NEW q, IsPlace(m, q) PROVE At(n, q) = At(m, q)
    BY DEF Untouched
  <2>1. q.kind = "frame" => q.key \in 1 .. d
    BY DEF IsPlace, Frames, Cell, Plain, Lexical
  <2> QED BY <1>12, <1>14, <2>1 DEF At
<1>19. GetArray(n) = GetArray(m)
  BY <1>17, <1>18, GetSame
<1>20. Saving(m, n, i)
  <2>1. /\ n.frames[d].elems = Append(m.frames[d].elems, save) /\ n.frames[d].len = len
        /\ \A e \in 1 .. d :
              /\ n.frames[e].back = m.frames[e].back /\ n.frames[e].whole = m.frames[e].whole
              /\ e # d => n.frames[e].elems = m.frames[e].elems /\ n.frames[e].len = m.frames[e].len
    <3> HIDE DEF d, save
    <3>1. n.frames[d] = g
      BY <1>11, <1>12, Zenon
    <3> QED BY <1>10, <1>14, <3>1
  <2> QED BY <1>13, <2>1 DEF Saving, save, len, arr
<1> QED BY <1>3, <1>12, <1>16, <1>17, <1>18, <1>19, <1>20 DEF n

LEMMA SavingThen ==
    ASSUME NEW m, NEW s, NEW n, NEW i, Saving(m, s, i), Alike(s, n), SameSaves(s, n), Depth(m) \in 1 .. Depth(m)
    PROVE  Saving(m, n, i)
<1>1. Depth(s) = Depth(m) /\ Depth(n) = Depth(m)
  BY DEF Saving, Alike
<1>2. \A e \in 1 .. Depth(m) :
         /\ n.frames[e].back = s.frames[e].back /\ n.frames[e].elems = s.frames[e].elems
         /\ n.frames[e].len = s.frames[e].len /\ n.frames[e].whole = s.frames[e].whole
  BY <1>1 DEF SameSaves
<1> DEFINE d == Depth(m)
           save == [i |-> i, old |-> Old(m, i)]
           len == IF m.frames[d].len = -1 THEN Len(GetArray(m)) ELSE m.frames[d].len
<1>3. /\ d \in 1 .. d /\ s.frames[d].elems = Append(m.frames[d].elems, save) /\ s.frames[d].len = len
      /\ \A e \in 1 .. d :
            /\ s.frames[e].back = m.frames[e].back /\ s.frames[e].whole = m.frames[e].whole
            /\ e # d => s.frames[e].elems = m.frames[e].elems /\ s.frames[e].len = m.frames[e].len
  BY DEF Saving
<1> HIDE DEF d, save, len
<1>4. /\ Depth(n) = d /\ n.frames[d].elems = Append(m.frames[d].elems, save) /\ n.frames[d].len = len
      /\ \A e \in 1 .. d :
            /\ n.frames[e].back = m.frames[e].back /\ n.frames[e].whole = m.frames[e].whole
            /\ e # d => n.frames[e].elems = m.frames[e].elems /\ n.frames[e].len = m.frames[e].len
  BY <1>1, <1>2, <1>3 DEF d
<1> QED BY <1>4 DEF Saving, d, save, len

\* A save keeps what is good, and so does what follows.
LEMMA SaveKeeps ==
    ASSUME NEW m, MemOK(m), NEW i \in Ends
    PROVE  Keeps(m, SaveElem(m, i))
<1> DEFINE n == SaveElem(m, i)
<1>1. /\ MemOK(n) /\ Alike(m, n) /\ GetArray(n) = GetArray(m)
      /\ n.deleted = m.deleted /\ n.cursors = m.cursors
  BY SaveFacts
<1> HIDE DEF n
<1>2. CursorKey(n) = CursorKey(m)
  BY <1>1, AlikePlaces
<1>3. Keeps(m, n)
  BY <1>1, <1>2 DEF Keeps, Good, DeniedOK, EachOK
<1> QED BY <1>3 DEF n

LEMMA KeepsTransitive ==
    ASSUME NEW m, NEW n, NEW o, MemOK(m), Keeps(m, n), Keeps(n, o)
    PROVE  Keeps(m, o)
<1>1. Here(n) = Here(m) /\ Bare(n) = Bare(m)
  BY AlikePlaces, PackageFacts DEF Here, Bare, Alike, Keeps
<1> QED BY <1>1, AlikeTransitive DEF Keeps

\* `local $a[i] = v`
LEMMA LocalFacts ==
    ASSUME NEW m, MemOK(m), NEW i \in Ends, Reachable(m, i), NEW v \in Values
    PROVE  LET n == LocalElem(m, i, v)
           IN /\ Keeps(m, n) /\ Saving(m, n, i) /\ n.deleted = {}
              /\ GetArray(n) = SetSlot(GetArray(m), Resolve(i, Len(GetArray(m))), v)
<1> DEFINE s == SaveElem(m, i)
           at == Resolve(i, Len(GetArray(m)))
           t == SetSlot(GetArray(m), at, v)
           n == LocalElem(m, i, v)
<1>1. at \in 0 .. MaxLen - 1 /\ ~ (at < 0)
  BY NotAbsent DEF Reachable
<1>2. /\ MemOK(s) /\ Alike(m, s) /\ GetArray(s) = GetArray(m) /\ Saving(m, s, i) /\ Keeps(m, s)
  BY SaveFacts, SaveKeeps
<1>3. n = SetArray(s, t)
  BY <1>1, <1>2 DEF LocalElem
<1>4. t \in Arr
  <2> HIDE DEF at
  <2> QED BY <1>1, GetFacts, SetSlotFacts
<1> HIDE DEF s, t, at, n
<1>5. Alike(s, n) /\ SameSaves(s, n) /\ GetArray(n) = t /\ n.deleted = {}
  BY <1>2, <1>3, <1>4, SetFacts
<1>6. Keeps(s, n)
  BY <1>2, <1>3, <1>4, SetKeeps
<1>7. Keeps(m, n)
  BY <1>2, <1>6, KeepsTransitive
<1>8. Saving(m, n, i)
  <2>1. Depth(m) \in 1 .. Depth(m)
    BY LexicalFacts
  <2> QED BY <1>2, <1>5, <2>1, SavingThen
<1> QED BY <1>5, <1>7, <1>8 DEF n, t, at

\* `delete local $a[i]`
LEMMA DeleteLocalFacts ==
    ASSUME NEW m, MemOK(m), NEW i \in Ends, Reachable(m, i)
    PROVE  LET n == DeleteLocal(m, i)
               arr == GetArray(m)
               at == Resolve(i, Len(arr))
               blank == IF at < Len(arr) THEN SetSlot(arr, at, Undef) ELSE arr
           IN /\ Keeps(m, n) /\ Saving(m, n, i) /\ n.deleted = m.deleted \cup {at}
              /\ GetArray(n) \in {arr, Trim(blank, n.deleted)}
<1> DEFINE s == SaveElem(m, i)
           at == Resolve(i, Len(GetArray(m)))
           arr == ArrayAt(m, Bare(m))
           marks == m.deleted \cup {at}
           blank == IF at < Len(arr) THEN SetSlot(arr, at, Undef) ELSE arr
           t == Trim(blank, marks)
           n == DeleteLocal(m, i)
<1>1. at \in 0 .. MaxLen - 1 /\ ~ (at < 0) /\ at \in Nat
  BY NotAbsent DEF Reachable
<1>2. /\ MemOK(s) /\ Alike(m, s) /\ Untouched(m, s) /\ GetArray(s) = GetArray(m)
      /\ s.deleted = m.deleted /\ s.cursors = m.cursors /\ Saving(m, s, i) /\ Keeps(m, s)
  BY SaveFacts, SaveKeeps
<1>3. n = IF At(m, Bare(m)) = Absent THEN [s EXCEPT !.deleted = marks]
          ELSE [Put(s, Bare(s), t) EXCEPT !.deleted = marks]
  BY <1>1 DEF DeleteLocal
<1>4. Bare(s) = Bare(m) /\ At(s, Bare(m)) = At(m, Bare(m)) /\ IsPlace(m, Bare(m)) /\ Here(s) = Here(m)
  BY <1>2, AlikePlaces, GetFacts, PackageFacts DEF Bare, Untouched, Here, Alike
<1>5. /\ arr \in Arr /\ Len(arr) \in Nat /\ Len(arr) <= MaxLen /\ MaxLen \in Nat
      /\ m.deleted \in SUBSET (0 .. MaxLen - 1)
  BY <1>4, AtFacts, ArrSeq, NotAbsent, Parts DEF MemOK
<1>6. marks \in SUBSET (0 .. MaxLen - 1)
  BY <1>1, <1>5
<1>7. arr = ArrayAt(s, Bare(s)) /\ Depth(m) \in 1 .. Depth(m)
  BY <1>4, LexicalFacts DEF ArrayAt
<1>8. /\ blank \in Arr /\ Len(blank) = Len(arr)
      /\ \A j \in 1 .. Len(blank) : blank[j] = IF j = at + 1 THEN Undef ELSE arr[j]
  <2> HIDE DEF arr, at
  <2>1. CASE at < Len(arr)
    <3> DEFINE u == SetSlot(arr, at, Undef)
    <3>1. Len(arr) >= at + 1
      BY <1>1, <1>5, <2>1
    <3>0. at \in 0 .. MaxLen - 1 /\ Undef \in Values /\ arr \in Arr
      BY <1>1, <1>5, NotAbsent
    <3>5. /\ u \in Arr /\ Len(u) = (IF Len(arr) >= at + 1 THEN Len(arr) ELSE at + 1) /\ u[at + 1] = Undef
          /\ \A j \in 1 .. Len(u) : j # at + 1 => u[j] = IF j <= Len(arr) THEN arr[j] ELSE Undef
      BY <3>0, SetSlotFacts
    <3>2. /\ u \in Arr /\ Len(u) = Len(arr) /\ u[at + 1] = Undef
          /\ \A j \in 1 .. Len(u) : j # at + 1 => u[j] = IF j <= Len(arr) THEN arr[j] ELSE Undef
      BY <3>1, <3>5
    <3>3. blank = u
      BY <2>1
    <3> HIDE DEF u, blank
    <3>4. \A j \in 1 .. Len(u) : u[j] = IF j = at + 1 THEN Undef ELSE arr[j]
      BY <1>5, <3>2
    <3> QED BY <3>2, <3>3, <3>4
  <2>2. CASE ~ (at < Len(arr))
    BY <1>1, <1>5, <2>2
  <2> QED BY <2>1, <2>2
<1> DEFINE here == GetArray(m)
           b == IF at < Len(here) THEN SetSlot(here, at, Undef) ELSE here
<1>9. arr = here => blank = b
  OBVIOUS
<1> HIDE DEF arr, at, s, n, blank, b
<1>10. /\ t \in Arr /\ Len(t) \in 0 .. Len(arr) /\ \A j \in 1 .. Len(t) : t[j] = blank[j]
  BY <1>8, TrimFacts
<1> HIDE DEF t
<1>11. CASE At(m, Bare(m)) = Absent
  <2>1. n = [s EXCEPT !.deleted = marks]
    BY <1>3, <1>11
  <2> HIDE DEF marks
  <2>2. /\ MemOK(n) /\ Alike(s, n) /\ SameSaves(s, n) /\ GetArray(n) = GetArray(s)
        /\ n.cursors = s.cursors /\ n.deleted = marks
    BY <1>2, <1>6, <2>1, MarkedFacts
  <2>3. Saving(m, n, i)
    BY <1>2, <1>7, <2>2, SavingThen
  <2>4. ASSUME Good(s), Bare(s) = Here(s) PROVE Good(n)
    <3>1. GetArray(n) = <<>>
      <4>1. At(s, Bare(s)) = Absent /\ IsPlace(s, Bare(s))
        BY <1>2, <1>4, <1>11, GetFacts
      <4>2. Bare(s).kind = "plain"
        BY <1>2, <4>1, AtFacts
      <4>3. Bare(s) = Plain("main")
        BY <1>2, <4>2, PlaceFacts, PackageFacts DEF Bare, Frames, Cell
      <4>4. GetArray(s) = ArrayAt(s, Plain("main"))
        BY <1>2, <2>4, <4>1, GetFacts
      <4> QED BY <2>2, <4>1, <4>3, <4>4 DEF ArrayAt
    <3>2. Len(GetArray(n)) = 0
      BY <3>1
    <3>3. CursorKey(n) = CursorKey(s)
      BY <2>2, AlikePlaces
    <3> QED BY <2>2, <2>4, <3>2, <3>3 DEF Good, DeniedOK, EachOK
  <2>5. Keeps(s, n)
    BY <2>2, <2>4 DEF Keeps
  <2>6. Keeps(m, n)
    BY <1>2, <2>5, KeepsTransitive
  <2> QED BY <1>2, <2>2, <2>3, <2>6 DEF n, marks, at
<1>12. CASE At(m, Bare(m)) # Absent
  <2>1. n = Touched(Put(s, Bare(s), t), s.cursors, marks)
    <3> DEFINE p == Put(s, Bare(s), t)
    <3>1. p.cursors = s.cursors /\ p \in Mem
      <4>1. Putting(s, p, Bare(s), t)
        BY <1>2, <1>10, GetFacts, PutFacts
      <4> QED BY <4>1 DEF Putting, MemOK
    <3>2. n = [p EXCEPT !.deleted = marks]
      BY <1>3, <1>12
    <3> HIDE DEF p
    <3>3. n = Touched(p, s.cursors, marks)
      BY <3>1, <3>2 DEF Touched, Mem
    <3> QED BY <3>3 DEF p
  <2>2. s.cursors \in [0 .. MaxDepth -> Cursors]
    BY <1>2, Parts DEF MemOK
  <2>3. At(s, Bare(s)) # Absent
    BY <1>4, <1>12
  <2>4. /\ MemOK(n) /\ Alike(s, n) /\ SameSaves(s, n) /\ n.deleted = marks
        /\ \/ GetArray(n) = t /\ ArrayAt(s, Bare(s)) = GetArray(s)
           \/ GetArray(n) = GetArray(s)
    <3> HIDE DEF marks
    <3>1. /\ MemOK(n) /\ Alike(s, n) /\ SameSaves(s, n) /\ n.deleted = marks
          /\ \/ GetArray(n) = t /\ ArrayAt(s, Bare(s)) = GetArray(s)
             \/ GetArray(n) = GetArray(s) /\ Bare(s) # Here(s)
      BY <1>2, <1>6, <1>10, <2>1, <2>2, <2>3, PutBare
    <3> QED BY <3>1
  <2>5. Saving(m, n, i)
    BY <1>2, <1>7, <2>4, SavingThen
  <2>6. ASSUME NEW j \in 1 .. Len(t), t[j] # Undef
        PROVE  t[j] = arr[j] /\ (j - 1 \in marks => j - 1 \in s.deleted)
    <3>1. j \in 1 .. Len(arr) /\ t[j] = blank[j]
      BY <1>5, <1>10, <2>6
    <3>2. blank[j] = IF j = at + 1 THEN Undef ELSE arr[j]
      BY <1>8, <3>1
    <3>3. j # at + 1 /\ t[j] = arr[j]
      BY <2>6, <3>1, <3>2
    <3>4. j - 1 # at
      BY <1>1, <3>1, <3>3
    <3> QED BY <1>2, <3>3, <3>4
  <2>7. Len(t) <= Len(arr)
    BY <1>5, <1>10
  <2>8. Keeps(s, n)
    <3> HIDE DEF marks
    <3> QED BY <1>2, <1>6, <1>7, <1>10, <2>1, <2>3, <2>6, <2>7, ShrinkKeeps
  <2>9. Keeps(m, n)
    BY <1>2, <2>8, KeepsTransitive
  <2>10. GetArray(n) \in {GetArray(m), Trim(b, n.deleted)}
    BY <1>2, <1>7, <1>9, <2>4 DEF t
  <2> QED BY <2>4, <2>5, <2>9, <2>10 DEF n, marks, at, b
<1> QED BY <1>11, <1>12

-----------------------------------------------------------------------------
(* my, our, \@a and local put another array in place.                      *)

\* Marks stay as they are, and no iteration begins.
Stays(m, n) ==
    /\ MemOK(n) /\ Depth(n) = Depth(m) /\ n.deleted = m.deleted /\ n.pkg = m.pkg
    /\ m.cursors = NoCursors => n.cursors = NoCursors

LEMMA MyStays ==
    ASSUME NEW m, MemOK(m), NEW list \in Arr
    PROVE  LET n == My(m, list)
           IN /\ Stays(m, n) /\ n.shared = m.shared
              /\ Lexical(n) # {} /\ Here(n) = Frames(Depth(m))
<1> DEFINE d == Depth(m)
           f == [m.frames EXCEPT ![d].a = list]
           n == My(m, list)
<1>1. m \in Mem /\ d \in 1 .. d /\ d \in Nat /\ d <= MaxDepth /\ DOMAIN m.frames = 1 .. d
  BY LexicalFacts, Parts DEF MemOK
<1>2. /\ f \in Seq(Scopes) /\ Len(f) = Len(m.frames) /\ f # <<>> /\ f[d].a = list
      /\ \A e \in 1 .. Depth(m) :
             /\ f[e].back = m.frames[e].back /\ f[e].elems = m.frames[e].elems
             /\ f[e].len = m.frames[e].len /\ f[e].whole = m.frames[e].whole
             /\ e # d => f[e] = m.frames[e]
  BY <1>1, FramesWith
<1>3. n = [m EXCEPT !.frames = f]
  BY DEF My
<1> HIDE DEF f, n
<1>4. /\ n \in Mem /\ n.frames = f /\ n.heap = m.heap /\ n.shared = m.shared /\ n.plain = m.plain
      /\ n.deleted = m.deleted /\ n.cursors = m.cursors /\ n.pkg = m.pkg
  BY <1>1, <1>2, <1>3 DEF Mem
<1>5. Depth(n) = d /\ DOMAIN f = 1 .. d
  BY <1>1, <1>2, <1>4, LenProperties DEF Depth
<1>6. CellsOK(n)
  BY <1>1, <1>2, <1>4, <1>5 DEF MemOK, CellsOK
<1>7. MemOK(n)
  BY <1>1, <1>2, <1>4, <1>5, <1>6 DEF MemOK
<1>8. Stays(m, n)
  BY <1>4, <1>5, <1>7 DEF Stays
<1>9. d \in Lexical(n)
  BY <1>1, <1>2, <1>4, <1>5, NotAbsent DEF Lexical
<1>10. CursorKey(n) = d
  <2>1. CursorKey(n) \in Lexical(n) /\ d <= CursorKey(n) /\ Lexical(n) \subseteq 1 .. d
    BY <1>5, <1>7, <1>9, LexicalFacts
  <2> QED BY <1>1, <2>1
<1>11. Here(n) = Frames(d)
  BY <1>7, <1>9, <1>10, PlaceFacts, PackageFacts DEF Here
<1> QED BY <1>4, <1>8, <1>9, <1>11 DEF n, d

\* Other globals.
Rebuilt(m, h, sh, g) == [m EXCEPT !.heap = h, !.shared = sh, !.plain = g]
Globals(m, h, sh, g) ==
    /\ h \in Seq(Arr) /\ Len(h) >= Len(m.heap) /\ sh \in [Names -> Nat]
    /\ \A p \in Names : sh[p] <= Len(h)
    /\ g \in [Names -> Arr \cup {Absent}]
LEMMA RebuiltFacts ==
    ASSUME NEW m, MemOK(m), NEW h, NEW sh, NEW g, Globals(m, h, sh, g)
    PROVE  LET n == Rebuilt(m, h, sh, g)
           IN /\ Stays(m, n) /\ n.frames = m.frames /\ n.heap = h /\ n.shared = sh /\ n.plain = g
              /\ n.cursors = m.cursors /\ Lexical(n) = Lexical(m)
<1> DEFINE n == Rebuilt(m, h, sh, g)
<1> USE DEF Globals
<1>1. m \in Mem
  BY DEF MemOK
<1>2. /\ n \in Mem /\ n.frames = m.frames /\ n.heap = h /\ n.shared = sh /\ n.plain = g
      /\ n.deleted = m.deleted /\ n.cursors = m.cursors /\ n.pkg = m.pkg
  BY <1>1 DEF Rebuilt, Mem
<1> HIDE DEF n
<1>3. Depth(n) = Depth(m) /\ Lexical(n) = Lexical(m)
  BY <1>2 DEF Depth, Lexical
<1>4. CellsOK(n)
  <2>1. Len(m.heap) \in Nat /\ Len(h) \in Nat /\ m.frames \in Seq(Scopes)
    BY <1>1, Parts, LenProperties
  <2>2. ASSUME NEW d \in DOMAIN m.frames, NEW k \in DOMAIN m.frames[d].whole
        PROVE  m.frames[d].whole[k].cell <= Len(h)
    <3>1. m.frames[d] \in Scopes
      BY <2>1, <2>2
    <3>2. m.frames[d].whole \in Seq(Wholes)
      BY <3>1 DEF Scopes
    <3> DEFINE w == m.frames[d].whole
    <3>3. w \in Seq(Wholes) /\ k \in DOMAIN w
      BY <3>2
    <3>4. w[k].cell <= Len(m.heap)
      BY DEF MemOK, CellsOK
    <3> HIDE DEF w
    <3>5. w[k] \in Wholes
      BY <3>3
    <3>6. w[k].cell \in Nat
      BY <3>5 DEF Wholes
    <3>7. w[k].cell <= Len(h)
      BY <2>1, <3>4, <3>6
    <3> QED BY <3>7 DEF w
  <2> QED BY <1>2, <2>2 DEF CellsOK
<1>5. MemOK(n)
  BY <1>2, <1>3, <1>4 DEF MemOK
<1>6. Stays(m, n)
  BY <1>2, <1>3, <1>5 DEF Stays
<1> QED BY <1>2, <1>3, <1>6 DEF n

\* The globals' types.
LEMMA GlobalTypes ==
    ASSUME NEW m, MemOK(m)
    PROVE  /\ m \in Mem /\ m.heap \in Seq(Arr) /\ Len(m.heap) \in Nat
           /\ m.shared \in [Names -> Nat] /\ m.plain \in [Names -> Arr \cup {Absent}]
           /\ \A p \in Names : m.shared[p] \in Nat /\ m.shared[p] <= Len(m.heap)
           /\ m.pkg \in Names /\ "main" \in Names /\ "P" \in Names
<1>1. m \in Mem
  BY DEF MemOK
<1>2. /\ m.heap \in Seq(Arr) /\ Len(m.heap) \in Nat
      /\ m.shared \in [Names -> Nat] /\ m.plain \in [Names -> Arr \cup {Absent}]
  BY <1>1, Parts
<1>3. \A p \in Names : m.shared[p] \in Nat /\ m.shared[p] <= Len(m.heap)
  BY <1>2 DEF MemOK, CellsOK
<1> QED BY <1>1, <1>2, <1>3, PackageFacts

\* A list `our` sets main's global,
LEMMA OurListStays ==
    ASSUME NEW m, MemOK(m), NEW list \in Arr
    PROVE  LET n == OurList(m, list)
           IN /\ Stays(m, n) /\ n.frames = m.frames /\ n.shared = m.shared
              /\ Lexical(n) = Lexical(m)
<1> DEFINE n == OurList(m, list)
           g == [m.plain EXCEPT !["main"] = list]
           sh == m.shared
           hh == m.heap
<1>1. /\ m \in Mem /\ m.plain \in [Names -> Arr \cup {Absent}] /\ "main" \in Names
      /\ hh \in Seq(Arr) /\ Len(hh) \in Nat /\ sh \in [Names -> Nat]
      /\ \A q \in Names : sh[q] <= Len(hh)
  BY GlobalTypes
<1>2. n = Rebuilt(m, hh, sh, g)
  BY <1>1 DEF OurList, Rebuilt, Mem
<1>3. g \in [Names -> Arr \cup {Absent}] /\ Len(hh) >= Len(m.heap)
  BY <1>1
<1> HIDE DEF n, g, sh, hh
<1>4. Globals(m, hh, sh, g)
  BY <1>1, <1>3 DEF Globals
<1>5. Stays(m, n) /\ n.frames = m.frames /\ n.shared = sh /\ Lexical(n) = Lexical(m)
  BY <1>2, <1>4, RebuiltFacts
<1> QED BY <1>5 DEF n, sh

\* and where `our @a` puts the list.
LEMMA OurStays ==
    ASSUME NEW m, MemOK(m), NEW list \in Arr
    PROVE  LET n == Our(m, list)
           IN /\ Stays(m, n) /\ n.frames = m.frames /\ Lexical(n) = Lexical(m)
              /\ \/ n.shared = m.shared
                 \/ m.pkg = "P" /\ m.shared["P"] # 0 /\ n.shared["P"] = m.shared["P"]
                 \/ m.pkg = "P" /\ n.shared["P"] = Len(m.heap) + 1
<1> DEFINE p == m.pkg
           n == Our(m, list)
           h == Append(m.heap, list)
<1>1. /\ m \in Mem /\ m.heap \in Seq(Arr) /\ Len(m.heap) \in Nat
      /\ m.shared \in [Names -> Nat] /\ m.plain \in [Names -> Arr \cup {Absent}]
      /\ \A q \in Names : m.shared[q] \in Nat /\ m.shared[q] <= Len(m.heap)
      /\ p \in Names /\ "main" \in Names /\ "P" \in Names
  BY GlobalTypes
<1>2. /\ h \in Seq(Arr) /\ Len(h) = Len(m.heap) + 1
  <2> DEFINE hh == m.heap
  <2> HIDE DEF hh
  <2>1. hh \in Seq(Arr)
    BY <1>1 DEF hh
  <2>2. Append(hh, list) \in Seq(Arr) /\ Len(Append(hh, list)) = Len(hh) + 1
    BY <2>1, AppendToSeq
  <2> QED BY <2>2 DEF hh
<1> HIDE DEF p
<1>3. CASE p = "main"
  <2>1. n = OurList(m, list)
    BY <1>3 DEF Our, OurList, p
  <2> HIDE DEF n
  <2> QED BY <2>1, OurListStays DEF n
<1>4. CASE p # "main" /\ m.shared[p] # 0
  <2> DEFINE c == m.shared[p]
             hh == [m.heap EXCEPT ![c] = list]
             sh == [m.shared EXCEPT !["main"] = c]
             g == m.plain
  <2>1. n = Rebuilt(m, hh, sh, g)
    BY <1>1, <1>4 DEF Our, Rebuilt, p, Mem
  <2>2. c \in Nat /\ c <= Len(m.heap) /\ p = "P"
    BY <1>1, <1>4 DEF Names
  <2>3. hh \in Seq(Arr) /\ Len(hh) = Len(m.heap)
    <3> DEFINE old == m.heap
    <3>1. old \in Seq(Arr) /\ c \in 1 .. Len(old) /\ DOMAIN old = 1 .. Len(old)
      BY <1>1, <1>4, <2>2, LenProperties
    <3> HIDE DEF old, c
    <3>2. [old EXCEPT ![c] = list] \in Seq(Arr) /\ Len([old EXCEPT ![c] = list]) = Len(old)
      BY <3>1
    <3> QED BY <3>2 DEF old
  <2>4. sh["P"] = m.shared["P"]
    BY <1>1
  <2>7. sh \in [Names -> Nat] /\ \A q \in Names : sh[q] <= Len(hh)
    <3> HIDE DEF hh, c
    <3>1. c <= Len(hh) /\ \A q \in Names : m.shared[q] <= Len(hh)
      BY <1>1, <2>2, <2>3
    <3> QED BY <1>1, <2>2, <3>1
  <2>8. g \in [Names -> Arr \cup {Absent}]
    BY <1>1
  <2> HIDE DEF c, hh, sh, g, n
  <2>5. Len(hh) >= Len(m.heap)
    BY <1>1, <2>3
  <2>6. Stays(m, n) /\ n.frames = m.frames /\ n.shared = sh /\ Lexical(n) = Lexical(m)
    <3>1. Globals(m, hh, sh, g)
      BY <2>1, <2>3, <2>5, <2>7, <2>8 DEF Globals
    <3>2. MemOK(m) /\ n = Rebuilt(m, hh, sh, g)
      BY <2>1, <2>3, <2>5, <2>7, <2>8
    <3> QED BY <3>1, <3>2, RebuiltFacts
  <2> QED BY <1>4, <2>2, <2>4, <2>6 DEF n, p
<1>5. CASE p # "main" /\ m.shared[p] = 0
  <2> DEFINE sh == [q \in Names |-> Len(m.heap) + 1]
             g == [m.plain EXCEPT ![p] = Absent]
  <2>1. n = Rebuilt(m, h, sh, g)
    <3> DEFINE k == [m EXCEPT !.heap = h]
    <3>1. k.heap = h /\ Len(k.heap) = Len(m.heap) + 1
      BY <1>1, <1>2 DEF Mem
    <3>2. n = [k EXCEPT !.plain[p] = Absent, !.shared = [q \in Names |-> Len(k.heap)]]
      BY <1>5 DEF Our, NewCell, p
    <3>3. n = [k EXCEPT !.plain[p] = Absent, !.shared = sh]
      BY <3>1, <3>2
    <3> HIDE DEF h, sh, n
    <3>4. k.plain = m.plain
      BY <1>1 DEF Mem
    <3>5. n = [k EXCEPT !.plain = g, !.shared = sh]
      BY <3>3, <3>4
    <3> HIDE DEF g
    <3> QED BY <1>1, <3>5 DEF Rebuilt, Mem
  <2>2. p = "P"
    BY <1>1, <1>5 DEF Names
  <2>3. /\ sh \in [Names -> Nat] /\ g \in [Names -> Arr \cup {Absent}]
        /\ \A q \in Names : sh[q] <= Len(h)
        /\ sh["P"] = Len(m.heap) + 1 /\ Len(h) >= Len(m.heap)
    <3> DEFINE c == Len(m.heap) + 1
    <3> HIDE DEF h
    <3>1. c \in Nat /\ Len(h) = c /\ c >= Len(m.heap) /\ c <= c
      BY <1>1, <1>2
    <3>2. g \in [Names -> Arr \cup {Absent}]
      BY <1>1
    <3> HIDE DEF c, g
    <3>3. sh = [q \in Names |-> c]
      BY DEF c
    <3> QED BY <1>1, <3>1, <3>2, <3>3 DEF c
  <2> HIDE DEF sh, g, h, n
  <2>4. Stays(m, n) /\ n.frames = m.frames /\ n.shared = sh /\ Lexical(n) = Lexical(m)
    <3>1. Globals(m, h, sh, g)
      BY <1>2, <2>1, <2>3 DEF Globals
    <3>2. MemOK(m) /\ n = Rebuilt(m, h, sh, g)
      BY <1>2, <2>1, <2>3
    <3> QED BY <3>1, <3>2, RebuiltFacts
  <2> QED BY <2>2, <2>3, <2>4 DEF n, p
<1> QED BY <1>3, <1>4, <1>5

LEMMA RefStays ==
    ASSUME NEW m, MemOK(m)
    PROVE  LET n == Ref(m)
           IN /\ Stays(m, n) /\ n.frames = m.frames /\ Lexical(n) = Lexical(m)
              /\ \/ n = m
                 \/ /\ Lexical(m) = {} /\ Here(n) = Cell(Len(m.heap) + 1)
                    /\ m.pkg # "P" => n.shared["P"] = m.shared["P"]
                    /\ Here(m) # Here(n)
<1> DEFINE p == m.pkg
           n == Ref(m)
<1>1. /\ m \in Mem /\ m.heap \in Seq(Arr) /\ Len(m.heap) \in Nat
      /\ m.shared \in [Names -> Nat] /\ m.plain \in [Names -> Arr \cup {Absent}]
      /\ \A q \in Names : m.shared[q] \in Nat /\ m.shared[q] <= Len(m.heap)
      /\ p \in Names /\ "main" \in Names /\ "P" \in Names
  BY GlobalTypes
<1>2. CASE Lexical(m) # {} \/ m.shared[p] # 0
  <2>1. n = m
    BY <1>2 DEF Ref
  <2> QED BY <2>1 DEF Stays
<1>3. CASE Lexical(m) = {} /\ m.shared[p] = 0
  <2> DEFINE list == ArrayAt(m, Plain(p))
             hh == m.heap
             h == Append(hh, list)
             c == Len(hh) + 1
             sh == [m.shared EXCEPT ![p] = c]
             g == [m.plain EXCEPT ![p] = Absent]
  <2>1. n = Rebuilt(m, h, sh, g)
    BY <1>1, <1>3 DEF Ref, NewCell, Rebuilt, Mem
  <2>2. list \in Arr
    <3>1. IsPlace(m, Plain(p))
      BY <1>1 DEF IsPlace
    <3> QED BY <3>1, AtFacts
  <2>3. h \in Seq(Arr) /\ Len(h) = c /\ c \in Nat /\ c > Len(hh) /\ c # 0
    <3> HIDE DEF list
    <3>1. hh \in Seq(Arr) /\ Len(hh) \in Nat
      BY <1>1
    <3> HIDE DEF hh
    <3> QED BY <2>2, <3>1, AppendToSeq
  <2>4. \A q \in Names : m.shared[q] <= c
    <3> HIDE DEF hh
    <3>1. Len(hh) \in Nat /\ \A q \in Names : m.shared[q] <= Len(hh)
      BY <1>1 DEF hh
    <3> QED BY <1>1, <3>1
  <2>5. \A q \in Names : m.shared[q] # c
    BY <1>1
  <2> HIDE DEF list, h, c, p
  <2>6. /\ sh \in [Names -> Nat] /\ g \in [Names -> Arr \cup {Absent}]
        /\ \A q \in Names : sh[q] <= Len(h)
        /\ sh[p] = c /\ \A q \in Names : q # p => sh[q] = m.shared[q]
    BY <1>1, <2>3, <2>4
  <2>7. Len(h) >= Len(m.heap)
    BY <1>1, <2>3
  <2> HIDE DEF sh, g, n
  <2>8. Stays(m, n) /\ n.frames = m.frames /\ n.shared = sh /\ Lexical(n) = Lexical(m)
    <3>1. Globals(m, h, sh, g)
      BY <2>1, <2>3, <2>6, <2>7 DEF Globals
    <3>2. MemOK(m) /\ n = Rebuilt(m, h, sh, g)
      BY <2>1, <2>3, <2>6, <2>7
    <3> QED BY <3>1, <3>2, RebuiltFacts
  <2>9. Here(n) = Cell(c)
    <3>1. MemOK(n) /\ n.pkg = p /\ n.shared[p] # 0 /\ Lexical(n) = {}
      BY <1>3, <2>3, <2>6, <2>8 DEF Stays, p
    <3>2. Place(n, p) = Cell(n.shared[p])
      BY <1>1, <3>1, PlaceFacts
    <3> QED BY <2>6, <2>8, <3>1, <3>2 DEF Here
  <2>10. Here(m) # Cell(c)
    <3>1. Here(m) \in {Cell(m.shared["main"]), Plain(p)}
      BY <1>1, <1>3, PlaceFacts DEF Here, p
    <3> QED BY <1>1, <2>5, <3>1 DEF Cell, Plain
  <2>11. p # "P" => n.shared["P"] = m.shared["P"]
    BY <1>1, <2>6, <2>8
  <2> QED BY <1>3, <2>8, <2>9, <2>10, <2>11 DEF n, c, p
<1> QED BY <1>2, <1>3

\* What `local @a` saves.
WholeSave(m) == [old |-> GetArray(m), cursor |-> m.cursors[0], cell |-> m.shared["main"]]
LEMMA WholeSaved ==
    ASSUME NEW m, MemOK(m)
    PROVE  LET n == [m EXCEPT !.frames[Depth(m)].whole = Append(@, WholeSave(m)), !.cursors[0] = NoCursor]
           IN /\ Stays(m, n) /\ n.heap = m.heap /\ n.shared = m.shared /\ n.plain = m.plain
              /\ Lexical(n) = Lexical(m)
<1> DEFINE d == Depth(m)
           save == WholeSave(m)
           s == m.frames
           g == [s[d] EXCEPT !.whole = Append(s[d].whole, save)]
           f == [s EXCEPT ![d] = g]
           cur == [m.cursors EXCEPT ![0] = NoCursor]
           n == [m EXCEPT !.frames[d].whole = Append(@, save), !.cursors[0] = NoCursor]
<1>1. /\ m \in Mem /\ s \in Seq(Scopes) /\ d \in 1 .. d /\ d \in Nat /\ Len(s) = d
      /\ d <= MaxDepth /\ s # <<>> /\ DOMAIN s = 1 .. d /\ m.cursors \in [0 .. MaxDepth -> Cursors]
      /\ 0 \in 0 .. MaxDepth
  BY LexicalFacts, Parts DEF MemOK, Depth
<1>2. save \in Wholes
  <2>1. m.cursors[0] \in Cursors
    BY <1>1
  <2> QED BY <2>1, GetFacts, GlobalTypes DEF WholeSave, Wholes
<1>3. save.cell <= Len(m.heap)
  BY GlobalTypes DEF WholeSave
<1>4. cur \in [0 .. MaxDepth -> Cursors] /\ (m.cursors = NoCursors => cur = NoCursors)
  BY <1>1, NoCursorsType DEF NoCursors
<1>5. n = [m EXCEPT !.frames = f, !.cursors = cur]
  BY <1>1 DEF Mem
<1> HIDE DEF n, cur, save, s
<1>6. s[d] \in Scopes
  BY <1>1
<1>7. s[d].whole \in Seq(Wholes)
  BY <1>6 DEF Scopes
<1> DEFINE w == s[d].whole
           v == Append(w, save)
<1>8. /\ v \in Seq(Wholes) /\ Len(v) = Len(w) + 1 /\ Len(w) \in Nat
      /\ v[Len(w) + 1] = save /\ \A k \in 1 .. Len(w) : v[k] = w[k]
  <2>1. w \in Seq(Wholes)
    BY <1>7
  <2> HIDE DEF w
  <2> QED BY <1>2, <2>1, AppendToSeq
<1>9. g \in Scopes /\ g.a = s[d].a /\ g.whole = v
  <2>1. g = [s[d] EXCEPT !.whole = v]
    OBVIOUS
  <2> HIDE DEF v, g
  <2> QED BY <1>6, <1>8, <2>1 DEF Scopes
<1> HIDE DEF g, v
<1>10. f \in Seq(Scopes) /\ Len(f) = d /\ f # <<>> /\ DOMAIN f = 1 .. d /\ f[d] = g
       /\ \A e \in 1 .. d : e # d => f[e] = s[e]
  BY <1>1, <1>9
<1> HIDE DEF f
<1>11. /\ n \in Mem /\ n.frames = f /\ n.heap = m.heap /\ n.shared = m.shared /\ n.plain = m.plain
       /\ n.deleted = m.deleted /\ n.cursors = cur /\ n.pkg = m.pkg
  BY <1>1, <1>4, <1>5, <1>10 DEF Mem
<1>12. Depth(n) = d
  BY <1>10, <1>11 DEF Depth
<1>13. \A p \in Names : n.shared[p] <= Len(n.heap)
  BY <1>11 DEF MemOK, CellsOK
<1>14. ASSUME NEW e \in 1 .. d, NEW k \in DOMAIN f[e].whole PROVE f[e].whole[k].cell <= Len(m.heap)
  <2>1. \A x \in 1 .. d : \A j \in DOMAIN s[x].whole : s[x].whole[j].cell <= Len(m.heap)
    BY <1>1 DEF MemOK, CellsOK, s
  <2>2. CASE e # d
    <3>1. f[e] = s[e]
      BY <1>10, <2>2
    <3> QED BY <1>14, <2>1, <3>1
  <2>3. CASE e = d
    <3>1. f[e].whole = v
      BY <1>9, <1>10, <2>3
    <3>2. k \in 1 .. Len(w) + 1
      BY <1>8, <1>14, <3>1, LenProperties
    <3>3. CASE k = Len(w) + 1
      <4> HIDE DEF w
      <4> QED BY <1>3, <1>8, <3>1, <3>3
    <3>4. CASE k # Len(w) + 1
      <4>1. k \in 1 .. Len(w)
        BY <1>8, <3>2, <3>4
      <4>2. k \in DOMAIN w
        BY <1>7, <4>1, LenProperties
      <4>3. w[k].cell <= Len(m.heap)
        BY <1>1, <2>1, <4>2
      <4>4. v[k] = w[k]
        BY <1>8, <4>1
      <4> HIDE DEF w
      <4> QED BY <3>1, <4>3, <4>4
    <3> QED BY <3>3, <3>4
  <2> QED BY <2>2, <2>3
<1>15. CellsOK(n)
  BY <1>10, <1>11, <1>13, <1>14 DEF CellsOK
<1>16. MemOK(n)
  BY <1>1, <1>10, <1>11, <1>12, <1>15 DEF MemOK
<1>17. Stays(m, n)
  BY <1>4, <1>11, <1>12, <1>16 DEF Stays
<1>18. Lexical(n) = Lexical(m)
  <2>1. \A e \in 1 .. d : f[e].a = s[e].a
    BY <1>9, <1>10
  <2>2. \A e \in 1 .. d : n.frames[e].a = m.frames[e].a
    BY <1>11, <2>1 DEF s
  <2> QED BY <1>12, <2>2 DEF Lexical
<1> QED BY <1>11, <1>17, <1>18 DEF n, save

LEMMA LocalStays ==
    ASSUME NEW m, MemOK(m), NEW list \in Arr
    PROVE  LET n == Local(m, list)
           IN Stays(m, n) /\ Lexical(n) = Lexical(m) /\ n.shared["P"] = m.shared["P"]
<1> DEFINE cell == m.shared["main"]
           w == [m EXCEPT !.frames[Depth(m)].whole = Append(@, WholeSave(m)), !.cursors[0] = NoCursor]
           hh == w.heap
           g == [w.plain EXCEPT !["main"] = list]
           saved == [m EXCEPT
               !.frames[Depth(m)].whole =
                   Append(@, [old |-> GetArray(m), cursor |-> m.cursors[0], cell |-> cell]),
               !.cursors[0] = NoCursor, !.plain["main"] = list]
           n == Local(m, list)
<1>1. /\ Stays(m, w) /\ hh = m.heap /\ w.shared = m.shared /\ w.plain = m.plain
      /\ Lexical(w) = Lexical(m)
  BY WholeSaved
<1>2. MemOK(w) /\ w \in Mem /\ m \in Mem
  BY <1>1 DEF Stays, MemOK
<1>3. saved = [w EXCEPT !.plain = g]
  BY <1>2 DEF WholeSave, Mem
<1>4. n = IF cell = 0 THEN saved ELSE [NewCell(saved, list) EXCEPT !.shared["main"] = Len(m.heap) + 1]
  BY DEF Local
<1> HIDE DEF w, saved, n
<1>5. /\ hh \in Seq(Arr) /\ Len(hh) \in Nat
      /\ w.shared \in [Names -> Nat] /\ w.plain \in [Names -> Arr \cup {Absent}]
      /\ \A q \in Names : w.shared[q] \in Nat /\ w.shared[q] <= Len(hh)
      /\ "main" \in Names /\ "P" \in Names
  BY <1>2, GlobalTypes
<1>6. g \in [Names -> Arr \cup {Absent}]
  BY <1>5
<1> HIDE DEF g
<1>7. CASE cell = 0
  <2> DEFINE sh == w.shared
  <2>1. n = Rebuilt(w, hh, sh, g)
    BY <1>2, <1>3, <1>4, <1>7 DEF Rebuilt, Mem
  <2>2. hh \in Seq(Arr) /\ sh \in [Names -> Nat] /\ \A q \in Names : sh[q] <= Len(hh)
    BY <1>5
  <2>3. Len(hh) >= Len(w.heap)
    BY <1>5
  <2> HIDE DEF sh, hh
  <2>4. Stays(w, n) /\ n.shared = sh /\ Lexical(n) = Lexical(w)
    <3>1. Globals(w, hh, sh, g)
      BY <1>2, <1>6, <2>1, <2>2, <2>3 DEF Globals
    <3>2. MemOK(w) /\ n = Rebuilt(w, hh, sh, g)
      BY <1>2, <1>6, <2>1, <2>2, <2>3
    <3> QED BY <3>1, <3>2, RebuiltFacts
  <2> QED BY <1>1, <2>4 DEF Stays, n, sh
<1>8. CASE cell # 0
  <2> DEFINE h == Append(hh, list)
             c == Len(hh) + 1
             sh == [w.shared EXCEPT !["main"] = c]
  <2>1. n = Rebuilt(w, h, sh, g)
    <3>1. saved.heap = hh /\ saved.shared = w.shared /\ saved \in Mem
      BY <1>2, <1>3, <1>6 DEF Mem
    <3>2. Len(m.heap) + 1 = c
      BY <1>1
    <3> HIDE DEF c
    <3>3. n = [saved EXCEPT !.heap = h, !.shared = sh]
      BY <1>4, <1>8, <3>1, <3>2 DEF NewCell, Mem
    <3> HIDE DEF h, sh
    <3> QED BY <1>2, <1>3, <3>3 DEF Rebuilt, Mem
  <2>2. h \in Seq(Arr) /\ Len(h) = c /\ c \in Nat /\ c >= Len(hh)
    <3>1. hh \in Seq(Arr) /\ Len(hh) \in Nat
      BY <1>5
    <3> HIDE DEF hh
    <3> QED BY <3>1, AppendToSeq
  <2>3. \A q \in Names : w.shared[q] <= c
    <3>1. Len(hh) \in Nat /\ \A q \in Names : w.shared[q] \in Nat /\ w.shared[q] <= Len(hh)
      BY <1>5
    <3> HIDE DEF hh
    <3> QED BY <3>1
  <2> HIDE DEF h, c
  <2>4. sh \in [Names -> Nat] /\ sh["P"] = w.shared["P"] /\ \A q \in Names : sh[q] <= Len(h)
    BY <1>5, <2>2, <2>3
  <2>5. Len(h) >= Len(w.heap)
    BY <2>2
  <2> HIDE DEF sh, hh
  <2>6. Stays(w, n) /\ n.shared = sh /\ Lexical(n) = Lexical(w)
    <3>1. Globals(w, h, sh, g)
      BY <1>2, <1>6, <2>1, <2>2, <2>4, <2>5 DEF Globals
    <3>2. MemOK(w) /\ n = Rebuilt(w, h, sh, g)
      BY <1>2, <1>6, <2>1, <2>2, <2>4, <2>5
    <3> QED BY <3>1, <3>2, RebuiltFacts
  <2> QED BY <1>1, <2>4, <2>6 DEF Stays, n
<1> QED BY <1>7, <1>8

-----------------------------------------------------------------------------
(* The end of a block.                                                     *)

\* And the saves stay.
Leaves(m, n) == Keeps(m, n) /\ SameSaves(m, n)
LEMMA LeavesItself ==
    ASSUME NEW m, MemOK(m) PROVE Leaves(m, m)
BY KeepsItself DEF Leaves, SameSaves

LEMMA LeavesTransitive ==
    ASSUME NEW m, NEW n, NEW o, MemOK(m), Leaves(m, n), Leaves(n, o)
    PROVE  Leaves(m, o)
BY KeepsTransitive, AlikeTransitive DEF Leaves, Keeps

\* What undoing the save of an element does to the array.
Undoing(arr, save) ==
    LET at == Resolve(save.i, Len(arr))
    IN IF at < 0 THEN arr
       ELSE IF save.old # Absent THEN SetSlot(arr, at, save.old)
       ELSE Trim(IF at < Len(arr) THEN SetSlot(arr, at, Undef) ELSE arr, {at})

LEMMA RestoreFacts ==
    ASSUME NEW m, MemOK(m), NEW save \in Elems
    PROVE  LET n == RestoreElem(m, save)
               arr == GetArray(m)
           IN /\ Leaves(m, n) /\ GetArray(n) = Undoing(arr, save)
              /\ Resolve(save.i, Len(arr)) >= 0 => n.deleted = {}
<1> DEFINE arr == GetArray(m)
           at == Resolve(save.i, Len(arr))
           blank == IF at < Len(arr) THEN SetSlot(arr, at, Undef) ELSE arr
           n == RestoreElem(m, save)
<1>1. arr \in Arr /\ Len(arr) \in Nat /\ Len(arr) <= MaxLen /\ MaxLen \in Nat
  BY GetFacts, ArrSeq, NotAbsent
<1>2. save.i \in Ends /\ save.old \in Values \cup {Absent}
  BY DEF Elems
<1>3. at \in Int /\ at <= MaxLen - 1
  BY <1>1, <1>2 DEF Resolve, Ends
<1>4. CASE at < 0
  <2>1. n = m /\ Undoing(arr, save) = arr
    BY <1>4 DEF RestoreElem, Undoing
  <2> QED BY <1>3, <1>4, <2>1, LeavesItself
<1>5. CASE ~ (at < 0) /\ save.old # Absent
  <2> DEFINE t == SetSlot(arr, at, save.old)
  <2>1. n = SetArray(m, t) /\ Undoing(arr, save) = t
    BY <1>5 DEF RestoreElem, Undoing
  <2>2. at \in 0 .. MaxLen - 1 /\ save.old \in Values
    BY <1>2, <1>3, <1>5
  <2> HIDE DEF arr, at, n
  <2>3. t \in Arr
    BY <1>1, <2>2, SetSlotFacts
  <2> HIDE DEF t
  <2>4. SameSaves(m, n) /\ GetArray(n) = t /\ n.deleted = {}
    BY <2>1, <2>3, SetFacts
  <2>5. Keeps(m, n)
    BY <2>1, <2>3, SetKeeps
  <2> QED BY <2>1, <2>4, <2>5 DEF arr, n, Leaves
<1>6. CASE ~ (at < 0) /\ save.old = Absent
  <2> DEFINE t == Trim(blank, {at})
  <2>1. n = SetArray(m, t) /\ Undoing(arr, save) = t
    BY <1>6 DEF RestoreElem, Undoing
  <2>2. at \in 0 .. MaxLen - 1
    BY <1>3, <1>6
  <2> HIDE DEF arr, at, n
  <2>3. blank \in Arr
    BY <1>1, <2>2, SetSlotFacts, NotAbsent
  <2> HIDE DEF blank
  <2>4. t \in Arr
    BY <2>3, TrimFacts
  <2> HIDE DEF t
  <2>5. SameSaves(m, n) /\ GetArray(n) = t /\ n.deleted = {}
    BY <2>1, <2>4, SetFacts
  <2>6. Keeps(m, n)
    BY <2>1, <2>4, SetKeeps
  <2> QED BY <2>1, <2>5, <2>6 DEF arr, n, Leaves
<1> QED BY <1>4, <1>5, <1>6

\* The length is restored.
Shortened(arr, deleted, len) ==
    IF len = -1 THEN arr
    ELSE Trim(arr, deleted \cup {i \in len .. Len(arr) - 1 : arr[i + 1] = Undef})
LEMMA RestoreLenFacts ==
    ASSUME NEW m, MemOK(m), NEW len \in -1 .. MaxLen
    PROVE  LET n == RestoreLen(m, len)
           IN /\ Leaves(m, n) /\ GetArray(n) = Shortened(GetArray(m), m.deleted, len)
              /\ n.deleted = IF len = -1 THEN m.deleted ELSE {}
<1> DEFINE n == RestoreLen(m, len)
           t == Shortened(GetArray(m), m.deleted, len)
<1>1. CASE len = -1
  <2>1. n = m /\ t = GetArray(m)
    BY <1>1 DEF RestoreLen, Shortened
  <2> QED BY <1>1, <2>1, LeavesItself
<1>2. CASE len # -1
  <2>1. n = SetArray(m, t)
    BY <1>2 DEF RestoreLen, Shortened
  <2>2. t \in Arr
    BY <1>2, GetFacts, TrimFacts DEF Shortened
  <2> HIDE DEF n, t
  <2>3. Leaves(m, n) /\ GetArray(n) = t /\ n.deleted = {}
    BY <2>1, <2>2, SetKeeps, SetFacts DEF Leaves
  <2> QED BY <1>2, <2>3 DEF n, t
<1> QED BY <1>1, <1>2

\* Undoing saves one by one: the memories it goes through.
Memories == {x \in Mem : MemOK(x)}
ElemsUndone(r, m, s) ==
    r = [i \in 0 .. Len(s) |-> IF i = 0 THEN m ELSE RestoreElem(r[i - 1], s[i])]

LEMMA ElemsRun ==
    ASSUME NEW m, MemOK(m), NEW s \in Seq(Elems)
    PROVE  \E r : /\ r[0] = m /\ InTurn(RestoreElem, m, s) = r[Len(s)]
                  /\ \A i \in 1 .. Len(s) : r[i] = RestoreElem(r[i - 1], s[i])
                  /\ \A i \in 0 .. Len(s) : Leaves(m, r[i])
<1> DEFINE n == Len(s)
           F == [i \in 1 .. n |-> [x \in Memories |-> RestoreElem(x, s[i])]]
<1>1. n \in Nat /\ \A i \in 1 .. n : s[i] \in Elems
  BY ElementOfSeq, LenProperties
<1>2. \A i \in 1 .. n : \A x \in Memories : RestoreElem(x, s[i]) \in Memories
  <2> HIDE DEF n
  <2>1. ASSUME NEW i \in 1 .. n, NEW x \in Memories PROVE RestoreElem(x, s[i]) \in Memories
    <3>1. MemOK(x) /\ s[i] \in Elems
      BY <1>1 DEF Memories
    <3>2. Leaves(x, RestoreElem(x, s[i]))
      BY <3>1, RestoreFacts
    <3> QED BY <3>2 DEF Leaves, Keeps, Memories, MemOK
  <2> QED BY <2>1
<1>3. \A i \in 1 .. n : \A x \in Memories : F[i][x] = RestoreElem(x, s[i])
  <2> HIDE DEF n
  <2> QED OBVIOUS
<1>4. PICK f : f \in [0 .. n -> Memories] /\ f[0] = m /\ \A i \in 1 .. n : f[i] = F[i][f[i - 1]]
  <2>1. Steps(F, n, Memories)
    <3> HIDE DEF n
    <3> QED BY <1>2 DEF Steps
  <2> HIDE DEF F, n
  <2>2. m \in Memories
    BY DEF Memories, MemOK
  <2>3. PICK f : Path(f, F, n, m, Memories)
    BY <1>1, <2>1, <2>2, Unrolled
  <2> QED BY <2>3 DEF Path
<1>5. \A i \in 1 .. n : f[i] = RestoreElem(f[i - 1], s[i])
  <2> HIDE DEF F, n
  <2>1. ASSUME NEW i \in 1 .. n PROVE f[i] = RestoreElem(f[i - 1], s[i])
    <3>1. i - 1 \in 0 .. n
      BY <1>1
    <3>2. f[i - 1] \in Memories
      BY <1>4, <3>1
    <3> QED BY <1>3, <1>4, <3>2
  <2> QED BY <2>1
<1>6. ElemsUndone(f, m, s)
  <2> HIDE DEF F
  <2>1. \A i \in 0 .. n : f[i] = IF i = 0 THEN m ELSE RestoreElem(f[i - 1], s[i])
    <3>1. \A i \in 0 .. n : i = 0 \/ i \in 1 .. n
      BY <1>1
    <3> HIDE DEF n
    <3>2. \A i \in 1 .. n : i # 0
      BY <1>1
    <3> QED BY <1>4, <1>5, <3>1, <3>2
  <2>2. f = [i \in 0 .. n |-> f[i]]
    BY <1>4
  <2> QED BY <2>1, <2>2 DEF ElemsUndone
<1> DEFINE r == CHOOSE g : ElemsUndone(g, m, s)
<1>7. ElemsUndone(r, m, s)
  BY <1>6
<1>8. InTurn(RestoreElem, m, s) = r[n]
  BY DEF InTurn, ElemsUndone
<1> HIDE DEF r, F
<1>9. r[0] = m /\ \A i \in 1 .. n : r[i] = RestoreElem(r[i - 1], s[i])
  <2>1. 0 \in 0 .. n /\ \A i \in 1 .. n : i \in 0 .. n /\ i # 0
    BY <1>1
  <2>2. r = [i \in 0 .. n |-> IF i = 0 THEN m ELSE RestoreElem(r[i - 1], s[i])]
    BY <1>7 DEF ElemsUndone
  <2> HIDE DEF n
  <2>3. \A i \in 0 .. n : r[i] = IF i = 0 THEN m ELSE RestoreElem(r[i - 1], s[i])
    BY <2>2
  <2> QED BY <2>1, <2>3
<1>10. \A i \in 0 .. n : Leaves(m, r[i])
  <2> HIDE DEF n
  <2> DEFINE T == {i \in 0 .. n : Leaves(m, r[i])}
  <2>1. 0 \in T
    <3>1. Leaves(m, m)
      BY LeavesItself
    <3> QED BY <1>1, <1>9, <3>1
  <2>2. ASSUME NEW i \in 1 .. n, i - 1 \in T PROVE i \in T
    <3>1. Leaves(m, r[i - 1]) /\ s[i] \in Elems /\ r[i] = RestoreElem(r[i - 1], s[i])
      BY <1>1, <1>9, <2>2
    <3>2. MemOK(r[i - 1])
      BY <3>1 DEF Leaves, Keeps
    <3>3. Leaves(r[i - 1], r[i])
      BY <3>1, <3>2, RestoreFacts
    <3>4. Leaves(m, r[i])
      BY <3>1, <3>3, LeavesTransitive
    <3>5. i \in 0 .. n
      BY <1>1
    <3> QED BY <3>4, <3>5
  <2> HIDE DEF T
  <2>3. \A i \in 0 .. n : i \in T
    BY <1>1, <2>1, <2>2, CountUp
  <2> QED BY <2>3 DEF T
<1> QED BY <1>8, <1>9, <1>10

\* An array that was localized is back; its Rc is one there is.
LikeGlobals(m, n) ==
    MemOK(n) /\ n.frames = m.frames /\ n.heap = m.heap /\ n.pkg = m.pkg /\ n.deleted = m.deleted
Similar(m) == {x \in Mem : LikeGlobals(m, x)}
SavedIn(m) == {w \in Wholes : w.cell <= Len(m.heap)}

LEMMA WholeRestored ==
    ASSUME NEW m, NEW x, LikeGlobals(m, x), NEW w \in SavedIn(m)
    PROVE  LikeGlobals(m, RestoreWhole(x, w))
<1> DEFINE g == [x.plain EXCEPT !["main"] = w.old]
           cur == [x.cursors EXCEPT ![0] = w.cursor]
           sh == [x.shared EXCEPT !["main"] = IF w.cell = 0 THEN x.shared["main"] ELSE w.cell]
           n == RestoreWhole(x, w)
<1>1. MemOK(x) /\ x.heap = m.heap /\ w \in Wholes /\ w.cell <= Len(x.heap)
  BY DEF LikeGlobals, SavedIn
<1>2. /\ x \in Mem /\ x.plain \in [Names -> Arr \cup {Absent}] /\ x.shared \in [Names -> Nat]
      /\ x.cursors \in [0 .. MaxDepth -> Cursors] /\ "main" \in Names
      /\ \A p \in Names : x.shared[p] <= Len(x.heap)
  BY <1>1, GlobalTypes, Parts
<1>3. w.old \in Arr /\ w.cursor \in Cursors /\ w.cell \in Nat
  BY <1>1 DEF Wholes
<1>4. n = [x EXCEPT !.plain = g, !.cursors = cur, !.shared = sh]
  BY <1>2 DEF RestoreWhole, Mem
<1>5. g \in [Names -> Arr \cup {Absent}]
  BY <1>2, <1>3
<1>6. cur \in [0 .. MaxDepth -> Cursors]
  BY <1>2, <1>3
<1>7. sh \in [Names -> Nat] /\ \A p \in Names : sh[p] <= Len(x.heap)
  BY <1>1, <1>2, <1>3
<1> HIDE DEF g, cur, sh, n
<1>8. /\ n \in Mem /\ n.frames = x.frames /\ n.heap = x.heap /\ n.shared = sh /\ n.pkg = x.pkg
      /\ n.deleted = x.deleted
  BY <1>2, <1>4, <1>5, <1>6, <1>7 DEF Mem
<1>9. CellsOK(n)
  BY <1>1, <1>7, <1>8 DEF MemOK, CellsOK
<1>10. MemOK(n)
  BY <1>1, <1>8, <1>9 DEF MemOK, Depth
<1>11. LikeGlobals(m, n)
  BY <1>8, <1>10 DEF LikeGlobals
<1> QED BY <1>11 DEF n

WholesUndone(r, m, s) ==
    r = [i \in 0 .. Len(s) |-> IF i = 0 THEN m ELSE RestoreWhole(r[i - 1], s[i])]

LEMMA WholesRun ==
    ASSUME NEW m, MemOK(m), NEW s \in Seq(SavedIn(m))
    PROVE  \E r : /\ r[0] = m /\ InTurn(RestoreWhole, m, s) = r[Len(s)]
                  /\ \A i \in 1 .. Len(s) : r[i] = RestoreWhole(r[i - 1], s[i])
                  /\ \A i \in 0 .. Len(s) : LikeGlobals(m, r[i])
<1> DEFINE n == Len(s)
           F == [i \in 1 .. n |-> [x \in Similar(m) |-> RestoreWhole(x, s[i])]]
<1>1. n \in Nat /\ \A i \in 1 .. n : s[i] \in SavedIn(m)
  BY ElementOfSeq, LenProperties
<1>2. \A i \in 1 .. n : \A x \in Similar(m) : RestoreWhole(x, s[i]) \in Similar(m)
  <2> HIDE DEF n
  <2>1. ASSUME NEW i \in 1 .. n, NEW x \in Similar(m) PROVE RestoreWhole(x, s[i]) \in Similar(m)
    <3>1. LikeGlobals(m, x) /\ s[i] \in SavedIn(m)
      BY <1>1 DEF Similar
    <3>2. LikeGlobals(m, RestoreWhole(x, s[i]))
      BY <3>1, WholeRestored
    <3> QED BY <3>2 DEF LikeGlobals, Similar, MemOK
  <2> QED BY <2>1
<1>3. \A i \in 1 .. n : \A x \in Similar(m) : F[i][x] = RestoreWhole(x, s[i])
  <2> HIDE DEF n
  <2> QED OBVIOUS
<1>4. PICK f : f \in [0 .. n -> Similar(m)] /\ f[0] = m /\ \A i \in 1 .. n : f[i] = F[i][f[i - 1]]
  <2>1. Steps(F, n, Similar(m))
    <3> HIDE DEF n
    <3> QED BY <1>2 DEF Steps
  <2> HIDE DEF F, n
  <2>2. m \in Similar(m)
    BY DEF Similar, LikeGlobals, MemOK
  <2>3. PICK f : Path(f, F, n, m, Similar(m))
    BY <1>1, <2>1, <2>2, Unrolled
  <2> QED BY <2>3 DEF Path
<1>5. \A i \in 1 .. n : f[i] = RestoreWhole(f[i - 1], s[i])
  <2> HIDE DEF F, n
  <2>1. ASSUME NEW i \in 1 .. n PROVE f[i] = RestoreWhole(f[i - 1], s[i])
    <3>1. i - 1 \in 0 .. n
      BY <1>1
    <3>2. f[i - 1] \in Similar(m)
      BY <1>4, <3>1
    <3> QED BY <1>3, <1>4, <3>2
  <2> QED BY <2>1
<1>6. WholesUndone(f, m, s)
  <2> HIDE DEF F
  <2>1. \A i \in 0 .. n : f[i] = IF i = 0 THEN m ELSE RestoreWhole(f[i - 1], s[i])
    <3>1. \A i \in 0 .. n : i = 0 \/ i \in 1 .. n
      BY <1>1
    <3> HIDE DEF n
    <3>2. \A i \in 1 .. n : i # 0
      BY <1>1
    <3> QED BY <1>4, <1>5, <3>1, <3>2
  <2>2. f = [i \in 0 .. n |-> f[i]]
    BY <1>4
  <2> QED BY <2>1, <2>2 DEF WholesUndone
<1> DEFINE r == CHOOSE g : WholesUndone(g, m, s)
<1>7. WholesUndone(r, m, s)
  BY <1>6
<1>8. InTurn(RestoreWhole, m, s) = r[n]
  BY DEF InTurn, WholesUndone
<1> HIDE DEF r, F
<1>9. r[0] = m /\ \A i \in 1 .. n : r[i] = RestoreWhole(r[i - 1], s[i])
  <2>1. 0 \in 0 .. n /\ \A i \in 1 .. n : i \in 0 .. n /\ i # 0
    BY <1>1
  <2>2. r = [i \in 0 .. n |-> IF i = 0 THEN m ELSE RestoreWhole(r[i - 1], s[i])]
    BY <1>7 DEF WholesUndone
  <2> HIDE DEF n
  <2>3. \A i \in 0 .. n : r[i] = IF i = 0 THEN m ELSE RestoreWhole(r[i - 1], s[i])
    BY <2>2
  <2> QED BY <2>1, <2>3
<1>10. \A i \in 0 .. n : LikeGlobals(m, r[i])
  <2> HIDE DEF n
  <2> DEFINE T == {i \in 0 .. n : LikeGlobals(m, r[i])}
  <2>1. 0 \in T
    <3>1. LikeGlobals(m, m)
      BY DEF LikeGlobals
    <3> QED BY <1>1, <1>9, <3>1
  <2>2. ASSUME NEW i \in 1 .. n, i - 1 \in T PROVE i \in T
    <3>1. LikeGlobals(m, r[i - 1]) /\ s[i] \in SavedIn(m) /\ r[i] = RestoreWhole(r[i - 1], s[i])
      BY <1>1, <1>9, <2>2
    <3>4. LikeGlobals(m, r[i])
      BY <3>1, WholeRestored
    <3>5. i \in 0 .. n
      BY <1>1
    <3> QED BY <3>4, <3>5
  <2> HIDE DEF T
  <2>3. \A i \in 0 .. n : i \in T
    BY <1>1, <2>1, <2>2, CountUp
  <2> QED BY <2>3 DEF T
<1> QED BY <1>8, <1>9, <1>10

\* The innermost block is gone, with its array; the outer ones are as they were.
Popped(m) == [m EXCEPT !.frames = Front(m.frames)]
LEMMA PoppedFacts ==
    ASSUME NEW m, MemOK(m), Depth(m) > 1
    PROVE  LET n == Popped(m)
           IN /\ MemOK(n) /\ Depth(n) = Depth(m) - 1 /\ n.heap = m.heap /\ n.shared = m.shared
              /\ n.plain = m.plain /\ n.deleted = m.deleted /\ n.cursors = m.cursors /\ n.pkg = m.pkg
              /\ \A d \in 1 .. Depth(n) : n.frames[d] = m.frames[d]
              /\ Lexical(n) = Lexical(m) \ {Depth(m)}
<1> DEFINE s == m.frames
           f == Front(s)
           n == Popped(m)
<1>1. m \in Mem /\ s \in Seq(Scopes) /\ Len(s) = Depth(m) /\ Depth(m) \in Nat /\ s # <<>>
      /\ Depth(m) <= MaxDepth /\ MaxDepth \in Nat /\ DOMAIN s = 1 .. Depth(m)
  BY Parts, LexicalFacts DEF MemOK, Depth
<1>2. /\ f \in Seq(Scopes) /\ Len(f) = Len(s) - 1 /\ \A i \in 1 .. Len(s) - 1 : f[i] = s[i]
      /\ f = <<>> <=> Len(s) = 1
  <2> HIDE DEF s
  <2> QED BY <1>1, FrontOfSeq
<1>3. n = [m EXCEPT !.frames = f]
  BY DEF Popped
<1> HIDE DEF f, n
<1>4. /\ n \in Mem /\ n.frames = f /\ n.heap = m.heap /\ n.shared = m.shared
      /\ n.plain = m.plain /\ n.deleted = m.deleted /\ n.cursors = m.cursors /\ n.pkg = m.pkg
  BY <1>1, <1>2, <1>3 DEF Mem
<1>5. Depth(n) = Depth(m) - 1 /\ DOMAIN f = 1 .. Depth(n) /\ f # <<>>
  BY <1>1, <1>2, <1>4, LenProperties DEF Depth
<1>6. \A d \in 1 .. Depth(n) : n.frames[d] = m.frames[d] /\ d \in DOMAIN s
  BY <1>1, <1>2, <1>4, <1>5
<1>7. CellsOK(n)
  BY <1>4, <1>5, <1>6 DEF MemOK, CellsOK
<1>8. MemOK(n)
  BY <1>1, <1>4, <1>5, <1>7 DEF MemOK
<1>9. Lexical(n) = Lexical(m) \ {Depth(m)}
  <2>1. \A d \in 1 .. Depth(m) : d \in 1 .. Depth(n) <=> d # Depth(m)
    BY <1>1, <1>5
  <2>2. 1 .. Depth(n) \subseteq 1 .. Depth(m)
    BY <1>1, <1>5
  <2> QED BY <1>6, <2>1, <2>2 DEF Lexical
<1> QED BY <1>4, <1>5, <1>6, <1>8, <1>9 DEF n

\* The block's package is current again.
Elsewhere(m, p) == [m EXCEPT !.pkg = p]
LEMMA ElsewhereFacts ==
    ASSUME NEW m, MemOK(m), NEW p \in Packages
    PROVE  LET n == Elsewhere(m, p)
           IN /\ MemOK(n) /\ Depth(n) = Depth(m) /\ n.frames = m.frames /\ n.heap = m.heap
              /\ n.shared = m.shared /\ n.plain = m.plain /\ n.deleted = m.deleted
              /\ n.cursors = m.cursors /\ n.pkg = p /\ Lexical(n) = Lexical(m)
<1> DEFINE n == Elsewhere(m, p)
<1>1. /\ n \in Mem /\ n.frames = m.frames /\ n.heap = m.heap
      /\ n.shared = m.shared /\ n.plain = m.plain /\ n.deleted = m.deleted
      /\ n.cursors = m.cursors /\ n.pkg = p
  BY DEF MemOK, Mem, Elsewhere
<1> HIDE DEF n
<1>2. MemOK(n) /\ Depth(n) = Depth(m) /\ Lexical(n) = Lexical(m)
  BY <1>1 DEF MemOK, CellsOK, Depth, Lexical
<1> QED BY <1>1, <1>2 DEF n

\* The end of a block, step by step.
WholesBack(m, saves) == InTurn(RestoreWhole, m, Undo(saves))
ElemsBack(m, saves) == InTurn(RestoreElem, m, Undo(saves))
Outer(m) == WholesBack(Popped(m), m.frames[Depth(m)].whole)
Undone(m) == ElemsBack(Outer(m), m.frames[Depth(m)].elems)
Closing(m) == RestoreLen(Undone(m), m.frames[Depth(m)].len)

LEMMA WholesBackFacts ==
    ASSUME NEW m, MemOK(m), NEW saves \in Seq(SavedIn(m))
    PROVE  LikeGlobals(m, WholesBack(m, saves)) /\ (saves = <<>> => WholesBack(m, saves) = m)
<1> DEFINE s == Reverse(saves)
<1>1. s \in Seq(SavedIn(m)) /\ Len(s) = Len(saves) /\ Len(s) \in Nat
  BY ReverseOfSeq, LenProperties
<1>2. WholesBack(m, saves) = InTurn(RestoreWhole, m, s)
  BY DEF WholesBack, Undo
<1>3. saves = <<>> => Len(saves) = 0
  OBVIOUS
<1> HIDE DEF s
<1>4. PICK r : /\ r[0] = m /\ InTurn(RestoreWhole, m, s) = r[Len(s)]
               /\ \A i \in 0 .. Len(s) : LikeGlobals(m, r[i])
  BY <1>1, WholesRun
<1>5. WholesBack(m, saves) = r[Len(s)] /\ Len(s) \in 0 .. Len(s)
  BY <1>1, <1>2, <1>4
<1> QED BY <1>1, <1>3, <1>4, <1>5

LEMMA ElemsBackFacts ==
    ASSUME NEW m, MemOK(m), NEW saves \in Seq(Elems)
    PROVE  Leaves(m, ElemsBack(m, saves)) /\ (saves = <<>> => ElemsBack(m, saves) = m)
<1> DEFINE s == Reverse(saves)
<1>1. s \in Seq(Elems) /\ Len(s) = Len(saves) /\ Len(s) \in Nat
  BY ReverseOfSeq, LenProperties
<1>2. ElemsBack(m, saves) = InTurn(RestoreElem, m, s)
  BY DEF ElemsBack, Undo
<1>3. saves = <<>> => Len(saves) = 0
  OBVIOUS
<1> HIDE DEF s
<1>4. PICK r : /\ r[0] = m /\ InTurn(RestoreElem, m, s) = r[Len(s)]
               /\ \A i \in 0 .. Len(s) : Leaves(m, r[i])
  BY <1>1, ElemsRun
<1>5. ElemsBack(m, saves) = r[Len(s)] /\ Len(s) \in 0 .. Len(s)
  BY <1>1, <1>2, <1>4
<1> QED BY <1>1, <1>3, <1>4, <1>5

LEMMA CloseFacts ==
    ASSUME NEW m, MemOK(m), Depth(m) > 1
    PROVE  LET top == m.frames[Depth(m)]
               n == CloseBlock(m)
           IN /\ top \in Scopes /\ n = Elsewhere(Closing(m), top.back)
              /\ LikeGlobals(Popped(m), Outer(m)) /\ (top.whole = <<>> => Outer(m) = Popped(m))
              /\ Leaves(Outer(m), Undone(m)) /\ Leaves(Undone(m), Closing(m))
              /\ MemOK(n) /\ Depth(n) = Depth(m) - 1
<1> DEFINE d == Depth(m)
           top == m.frames[d]
           p == Popped(m)
           w == Outer(m)
           e == Undone(m)
           l == Closing(m)
           n == CloseBlock(m)
<1>1. m.frames \in Seq(Scopes) /\ m.frames # <<>> /\ Len(m.frames) = d /\ d \in DOMAIN m.frames
      /\ DOMAIN m.frames = 1 .. d
  BY Parts, LexicalFacts DEF MemOK, Depth
<1>2. top \in Scopes /\ Last(m.frames) = top
  BY <1>1 DEF Last
<1>3. top.whole \in Seq(Wholes) /\ top.elems \in Seq(Elems) /\ top.len \in -1 .. MaxLen /\ top.back \in Packages
  BY <1>2 DEF Scopes
<1>4. n = Elsewhere(l, top.back)
  BY <1>2 DEF CloseBlock, Elsewhere, Closing, Undone, Outer, ElemsBack, WholesBack, Popped
<1> HIDE DEF top, n
<1>5. MemOK(p) /\ Depth(p) = d - 1 /\ p.heap = m.heap
  BY PoppedFacts
<1>6. LikeGlobals(p, w) /\ (top.whole = <<>> => w = p)
  <2> DEFINE saves == top.whole
  <2>1. saves \in Seq(Wholes) /\ \A k \in DOMAIN saves : saves[k].cell <= Len(p.heap)
    BY <1>1, <1>3, <1>5 DEF MemOK, CellsOK, top
  <2>2. w = WholesBack(p, saves)
    BY DEF Outer, top
  <2> HIDE DEF saves, w, p
  <2>3. saves \in Seq(SavedIn(p))
    <3>1. Len(saves) \in Nat /\ DOMAIN saves = 1 .. Len(saves)
      BY <2>1, LenProperties
    <3>2. \A k \in 1 .. Len(saves) : saves[k] \in SavedIn(p)
      <4>1. ASSUME NEW k \in 1 .. Len(saves) PROVE saves[k] \in SavedIn(p)
        <5>1. saves[k] \in Wholes /\ saves[k].cell <= Len(p.heap)
          BY <2>1, <3>1, <4>1
        <5> QED BY <5>1 DEF SavedIn
      <4> QED BY <4>1
    <3>3. saves = [k \in 1 .. Len(saves) |-> saves[k]]
      BY <2>1
    <3> QED BY <3>1, <3>2, <3>3
  <2>4. LikeGlobals(p, w) /\ (saves = <<>> => w = p)
    BY <1>5, <2>2, <2>3, WholesBackFacts DEF p
  <2> QED BY <2>4 DEF saves, w, p
<1>7. Leaves(w, e)
  <2>1. MemOK(w) /\ e = ElemsBack(w, top.elems)
    BY <1>6 DEF LikeGlobals, Undone, top
  <2> HIDE DEF w, e
  <2> QED BY <1>3, <2>1, ElemsBackFacts
<1>8. Leaves(e, l)
  <2>1. MemOK(e) /\ l = RestoreLen(e, top.len)
    BY <1>7 DEF Leaves, Keeps, Closing, top
  <2> HIDE DEF e, l
  <2> QED BY <1>3, <2>1, RestoreLenFacts
<1>9. MemOK(l) /\ Depth(l) = d - 1
  <2>1. Depth(w) = Depth(p)
    BY <1>6 DEF LikeGlobals, Depth
  <2> QED BY <1>5, <1>7, <1>8, <2>1 DEF Leaves, Keeps, Alike
<1>10. MemOK(n) /\ Depth(n) = d - 1
  BY <1>3, <1>4, <1>9, ElsewhereFacts
<1> QED BY <1>2, <1>4, <1>6, <1>7, <1>8, <1>10 DEF top, n

-----------------------------------------------------------------------------
(* Types.                                                                  *)

\* Another array of the name may be in place, or another Rc of P.
Moves(m, n) ==
    /\ Stays(m, n)
    /\ \/ Lexical(n) # {}
       \/ n.shared["P"] = m.shared["P"] /\ Lexical(n) = Lexical(m)
       \/ m.pkg = "P" /\ Lexical(n) = Lexical(m) /\ (m.shared["P"] # 0 \/ n.shared["P"] > Len(m.heap))
Refers(m, n) ==
    /\ Stays(m, n) /\ Lexical(n) = Lexical(m)
    /\ \/ n = m
       \/ Here(m) # Here(n) /\ (m.pkg # "P" => n.shared["P"] = m.shared["P"])
Switches(m, n) == \E p \in Packages : n = Elsewhere(m, p)

\* What an operation may do.
Change(op, m, n) ==
    \/ Keeps(m, n)
    \/ op \in {"my", "our", "local"} /\ Moves(m, n)
    \/ Refers(m, n)
    \/ Switches(m, n)

LEMMA ReplacedFacts ==
    ASSUME NEW m, MemOK(m), NEW s \in Seq(Values), NEW op, Effect(op, SetArray(m, s))
    PROVE  Keeps(m, SetArray(m, s))
<1>1. GetArray(SetArray(m, s)) = s
  BY SetFound, NotAbsent
<1>2. Len(s) <= MaxLen
  BY <1>1 DEF Effect
<1>3. s \in Arr
  BY <1>2, ArrSeq
<1> QED BY <1>3, SetKeeps

\* A `local` of an element, or something else.
IsLocal(m, n, i) ==
    /\ i \in Ends /\ Reachable(m, i)
    /\ n = DeleteLocal(m, i) \/ \E v \in Values : n = LocalElem(m, i, v)

LEMMA ListsMove ==
    ASSUME NEW m, MemOK(m), NEW list \in Arr
    PROVE  Moves(m, My(m, list)) /\ Moves(m, Our(m, list)) /\ Moves(m, Local(m, list))
           /\ Moves(m, OurList(m, list))
<1> DEFINE a == My(m, list)
           b == Our(m, list)
           c == Local(m, list)
           d == OurList(m, list)
<1>1. Stays(m, a) /\ Lexical(a) # {}
  BY MyStays
<1>2. /\ Stays(m, b) /\ Lexical(b) = Lexical(m)
      /\ \/ b.shared = m.shared
         \/ m.pkg = "P" /\ m.shared["P"] # 0 /\ b.shared["P"] = m.shared["P"]
         \/ m.pkg = "P" /\ b.shared["P"] = Len(m.heap) + 1
  BY OurStays
<1>3. Stays(m, c) /\ Lexical(c) = Lexical(m) /\ c.shared["P"] = m.shared["P"]
  BY LocalStays
<1>8. Stays(m, d) /\ Lexical(d) = Lexical(m) /\ d.shared = m.shared
  BY OurListStays
<1> HIDE DEF a, b, c, d
<1>4. Len(m.heap) \in Nat
  BY GlobalTypes
<1>5. Moves(m, a)
  BY <1>1 DEF Moves
<1>6. Moves(m, b)
  BY <1>2, <1>4 DEF Moves
<1>7. Moves(m, c)
  BY <1>3 DEF Moves
<1>9. Moves(m, d)
  BY <1>8 DEF Moves
<1> QED BY <1>5, <1>6, <1>7, <1>9 DEF a, b, c, d

LEMMA BuiltinChange ==
    ASSUME MemOK(mem), Builtin
    PROVE  \E op : \E n : /\ Effect(op, n) /\ Change(op, mem, n)
                      /\ \/ tainted' = Tainted
                         \/ tainted' = tainted /\ \E i \in Ends : i >= 0 /\ IsLocal(mem, n, i)
<1> DEFINE Goal == \E op : \E n : /\ Effect(op, n) /\ Change(op, mem, n)
                      /\ \/ tainted' = Tainted
                         \/ tainted' = tainted /\ \E i \in Ends : i >= 0 /\ IsLocal(mem, n, i)
<1>1. GetArray(mem) \in Arr /\ <<>> \in Seq(Values)
  BY GetFacts
<1>2. ASSUME NEW op, NEW n, Do(op, n), Change(op, mem, n) PROVE Goal
  BY <1>2 DEF Do
<1>3. ASSUME NEW op, NEW s \in Seq(Values), Do(op, SetArray(mem, s)) PROVE Goal
  <2> DEFINE n == SetArray(mem, s)
  <2>1. Keeps(mem, n)
    BY <1>3, ReplacedFacts DEF Do
  <2>2. Change(op, mem, n)
    <3> HIDE DEF n
    <3> QED BY <2>1 DEF Change
  <2> HIDE DEF Goal
  <2> QED BY <1>2, <1>3, <2>2 DEF Do, Effect, DoLocal
<1>4. ASSUME NEW op, NEW i \in Ends, NEW n, DoLocal(op, i, n), IsLocal(mem, n, i),
             Keeps(mem, n)
      PROVE  Goal
  <2>1. Change(op, mem, n)
    BY <1>4 DEF Change
  <2> QED BY <1>4, <2>1 DEF DoLocal
<1> HIDE DEF Goal
<1>5. ASSUME NEW list \in Lists,
             \/ Do("push", Push(mem, list)) \/ Do("unshift", Unshift(mem, list))
             \/ Do("list", SetArray(mem, list))
      PROVE  Goal
  <2>1. list \in Seq(Values)
    BY ListFacts
  <2>2. GetArray(mem) \o list \in Seq(Values) /\ list \o GetArray(mem) \in Seq(Values)
    BY <1>1, <2>1, ReplacementFacts
  <2>3. Push(mem, list) = SetArray(mem, GetArray(mem) \o list)
        /\ Unshift(mem, list) = SetArray(mem, list \o GetArray(mem))
    BY DEF Push, Unshift
  <2>4. CASE Do("push", Push(mem, list))
    BY <1>3, <2>2, <2>3, <2>4 DEF Do, Effect, DoLocal
  <2>5. CASE Do("unshift", Unshift(mem, list))
    BY <1>3, <2>2, <2>3, <2>5 DEF Do, Effect, DoLocal
  <2>6. CASE Do("list", SetArray(mem, list))
    BY <1>3, <2>1, <2>6
  <2> QED BY <1>5, <2>4, <2>5, <2>6
<1>6. ASSUME NEW list \in Lists,
             \/ Do("my", My(mem, list)) \/ Do("our", Our(mem, list))
             \/ Do("our", OurList(mem, list)) \/ Do("local", Local(mem, list))
      PROVE  Goal
  <2>1. list \in Arr
    BY ListFacts
  <2>2. /\ Moves(mem, My(mem, list)) /\ Moves(mem, Our(mem, list))
        /\ Moves(mem, OurList(mem, list)) /\ Moves(mem, Local(mem, list))
    BY <2>1, ListsMove
  <2>3. /\ Change("my", mem, My(mem, list)) /\ Change("our", mem, Our(mem, list))
        /\ Change("our", mem, OurList(mem, list)) /\ Change("local", mem, Local(mem, list))
    BY <2>2 DEF Change
  <2> QED BY <1>2, <1>6, <2>3 DEF Do, Effect, DoLocal
<1>7. ASSUME Do("pop", Pop(mem)) \/ Do("shift", Shift(mem)) PROVE Goal
  <2> DEFINE f == IF GetArray(mem) = <<>> THEN <<>> ELSE Front(GetArray(mem))
             t == IF GetArray(mem) = <<>> THEN <<>> ELSE Tail(GetArray(mem))
  <2>1. f \in Seq(Values) /\ t \in Seq(Values)
    BY <1>1, ReplacementFacts
  <2>2. Pop(mem) = SetArray(mem, f) /\ Shift(mem) = SetArray(mem, t)
    BY DEF Pop, Shift
  <2> HIDE DEF f, t
  <2> QED BY <1>3, <1>7, <2>1, <2>2 DEF Do, Effect, DoLocal
<1>8. ASSUME Do("ref", Ref(mem)) PROVE Goal
  <2> DEFINE n == Ref(mem)
  <2>1. /\ Stays(mem, n) /\ Lexical(n) = Lexical(mem)
        /\ n = mem \/ (Here(mem) # Here(n) /\ (mem.pkg # "P" => n.shared["P"] = mem.shared["P"]))
    BY RefStays
  <2>2. Change("ref", mem, n)
    <3> HIDE DEF n
    <3> QED BY <2>1 DEF Change, Refers
  <2> QED BY <1>2, <1>8, <2>2 DEF Do, Effect, DoLocal
<1>9. ASSUME NEW off \in Ends, NEW k \in Ends, NEW list \in Lists, Do("splice", Splice(mem, off, k, list))
      PROVE  Goal
  <2> DEFINE arr == GetArray(mem)
             o == Offset(off, Len(arr))
             r == Removed(k, Len(arr) - o)
             s == SubSeq(arr, 1, o) \o list \o SubSeq(arr, o + r + 1, Len(arr))
  <2>1. s \in Seq(Values)
    BY <1>1, ListFacts, SpliceFacts
  <2>2. Splice(mem, off, k, list) = SetArray(mem, s)
    BY DEF Splice
  <2> HIDE DEF s
  <2> QED BY <1>3, <1>9, <2>1, <2>2 DEF Do, Effect, DoLocal
<1>10. ASSUME NEW i \in Ends, NEW v \in Values, Reachable(mem, i),
              Do("assign", Assign(mem, i, v)) \/ DoLocal("localelem", i, LocalElem(mem, i, v))
       PROVE  Goal
  <2>1. Keeps(mem, Assign(mem, i, v))
    BY <1>10, AssignKeeps
  <2>2. Keeps(mem, LocalElem(mem, i, v))
    BY <1>10, LocalFacts
  <2>3. IsLocal(mem, LocalElem(mem, i, v), i)
    BY <1>10 DEF IsLocal
  <2>4. Change("assign", mem, Assign(mem, i, v))
    BY <2>1 DEF Change
  <2> QED BY <1>2, <1>4, <1>10, <2>2, <2>3, <2>4 DEF Do, Effect, DoLocal
<1>11. ASSUME NEW i \in Ends, Reachable(mem, i), DoLocal("deletelocal", i, DeleteLocal(mem, i))
       PROVE  Goal
  <2>1. Keeps(mem, DeleteLocal(mem, i))
    BY <1>11, DeleteLocalFacts
  <2>2. IsLocal(mem, DeleteLocal(mem, i), i)
    BY <1>11 DEF IsLocal
  <2> QED BY <1>4, <1>11, <2>1, <2>2 DEF Do, Effect, DoLocal
<1>12. ASSUME NEW i \in Ends, Do("delete", Delete(mem, i)) PROVE Goal
  <2>1. Change("delete", mem, Delete(mem, i))
    BY DeleteKeeps DEF Change
  <2> QED BY <1>2, <1>12, <2>1 DEF Do, Effect, DoLocal
<1>13. ASSUME NEW len \in 0 .. MaxLen, Do("resize", Resize(mem, len)) PROVE Goal
  <2>1. Change("resize", mem, Resize(mem, len))
    BY ResizeKeeps DEF Change
  <2> QED BY <1>2, <1>13, <2>1 DEF Do, Effect, DoLocal
<1>14. ASSUME Do("each", Each(mem)) \/ Do("each", Keys(mem)) PROVE Goal
  <2>1. Change("each", mem, Each(mem)) /\ Change("each", mem, Keys(mem))
    BY EachKeeps DEF Change
  <2> QED BY <1>2, <1>14, <2>1 DEF Do, Effect, DoLocal
<1>15. ASSUME NEW p \in Packages, Do("package", [mem EXCEPT !.pkg = p]) PROVE Goal
  <2>1. Change("package", mem, [mem EXCEPT !.pkg = p])
    BY DEF Change, Switches, Elsewhere
  <2> QED BY <1>2, <1>15, <2>1 DEF Do, Effect, DoLocal
<1> HIDE DEF Goal
<1>16. Goal
  BY <1>5, <1>6, <1>7, <1>8, <1>9, <1>10, <1>11, <1>12, <1>13, <1>14, <1>15 DEF Builtin
<1> QED BY <1>16 DEF Goal

\* What has been seen of the array, and of what came before.
Views == {Absent} \cup UNION {[1 .. n -> Values \cup {Absent}] : n \in 0 .. MaxLen}
TypeInv ==
    /\ MemOK(mem) /\ ops \in 0 .. MaxOps
    /\ before \in Seq(Views) /\ Len(before) = Depth(mem)
    /\ tainted \in Seq(BOOLEAN) /\ Len(tainted) = Depth(mem)

LEMMA SeenType ==
    ASSUME NEW m, MemOK(m)
    PROVE  /\ Seen(m) \in Views /\ DOMAIN Seen(m) = 1 .. Len(GetArray(m))
           /\ \A i \in 1 .. Len(GetArray(m)) :
                 Seen(m)[i] = IF i - 1 \in m.deleted THEN Absent ELSE GetArray(m)[i]
<1> DEFINE arr == GetArray(m)
           t == [i \in 1 .. Len(arr) |-> IF i - 1 \in m.deleted THEN Absent ELSE arr[i]]
<1>1. arr \in Seq(Values) /\ Len(arr) \in 0 .. MaxLen
  <2>1. arr \in Seq(Values) /\ Len(arr) \in Nat /\ Len(arr) <= MaxLen /\ MaxLen \in Nat
    BY GetFacts, ArrSeq, NotAbsent
  <2> QED BY <2>1
<1>2. Seen(m) = t
  <2>1. \A i \in 1 .. Len(arr) : i - 1 < Len(arr)
    BY <1>1
  <2> QED BY <2>1 DEF Seen, Exists
<1>3. t \in [1 .. Len(arr) -> Values \cup {Absent}]
  <2> HIDE DEF arr
  <2>1. \A i \in 1 .. Len(arr) : arr[i] \in Values
    BY <1>1, ElementOfSeq
  <2> QED BY <2>1
<1>4. t \in Views
  <2> HIDE DEF t, arr
  <2> QED BY <1>1, <1>3 DEF Views
<1> QED BY <1>2, <1>4

LEMMA InitType == Init => TypeInv
<1> SUFFICES ASSUME Init PROVE TypeInv
  OBVIOUS
<1> DEFINE f == Frame("main")
<1>1. f \in Scopes
  <2>1. <<>> \in Seq(Elems) /\ <<>> \in Seq(Wholes) /\ "main" \in Packages /\ -1 \in -1 .. MaxLen
    BY ArraysAssumption
  <2> QED BY <2>1 DEF Frame, Scopes
<1>2. <<f>> \in Seq(Scopes) /\ Len(<<f>>) = 1 /\ <<f>> # <<>> /\ <<f>>[1] = f
  <2> HIDE DEF f
  <2> QED BY <1>1
<1>3. f.whole = <<>>
  BY DEF Frame
<1> HIDE DEF f
<1>4. mem = [frames |-> <<f>>, heap |-> <<>>,
             shared |-> [p \in Names |-> 0], plain |-> [p \in Names |-> Absent],
             deleted |-> {}, cursors |-> NoCursors, pkg |-> "main"]
  BY DEF Init, f, NoCursors
<1> DEFINE sh == [p \in Names |-> 0]
           pl == [p \in Names |-> Absent]
           hp == <<>>
<1>5. sh \in [Names -> Nat] /\ pl \in [Names -> Arr \cup {Absent}] /\ hp \in Seq(Arr) /\ Len(hp) = 0
      /\ "main" \in Packages /\ \A p \in Names : sh[p] <= 0
  BY ArraysAssumption
<1> HIDE DEF sh, pl, hp
<1>6. mem = [frames |-> <<f>>, heap |-> hp, shared |-> sh, plain |-> pl,
             deleted |-> {}, cursors |-> NoCursors, pkg |-> "main"]
  BY <1>4 DEF sh, pl, hp
<1> DEFINE fs == <<f>>
<1> HIDE DEF fs
<1>7. /\ mem \in Mem /\ mem.frames = fs /\ mem.heap = hp /\ mem.shared = sh
  BY <1>2, <1>5, <1>6, NoCursorsType DEF Mem, fs
<1>8. Depth(mem) = 1 /\ mem.frames # <<>> /\ DOMAIN fs = {1} /\ fs[1] = f
  BY <1>2, <1>7 DEF Depth, fs
<1>9. CellsOK(mem)
  <2>1. DOMAIN f.whole = {}
    BY <1>3
  <2> QED BY <1>5, <1>7, <1>8, <2>1 DEF CellsOK
<1>10. MemOK(mem)
  BY <1>7, <1>8, <1>9, ArraysAssumption DEF MemOK
<1>11. before = <<Absent>> /\ tainted = <<FALSE>> /\ ops \in 0 .. MaxOps
  BY ArraysAssumption DEF Init
<1>12. before \in Seq(Views) /\ Len(before) = 1 /\ tainted \in Seq(BOOLEAN) /\ Len(tainted) = 1
  BY <1>11 DEF Views
<1> QED BY <1>8, <1>10, <1>11, <1>12 DEF TypeInv

LEMMA ChangeType ==
    ASSUME NEW op, NEW m, MemOK(m), NEW n, Change(op, m, n)
    PROVE  MemOK(n) /\ Depth(n) = Depth(m)
<1>1. ASSUME Switches(m, n) PROVE MemOK(n) /\ Depth(n) = Depth(m)
  BY <1>1, ElsewhereFacts DEF Switches
<1> QED BY <1>1 DEF Change, Keeps, Alike, Moves, Refers, Stays

\* A block opens.
Pushed(m) == [m EXCEPT !.frames = Append(m.frames, Frame(m.pkg))]
LEMMA PushedFacts ==
    ASSUME NEW m, MemOK(m), Depth(m) < MaxDepth
    PROVE  LET n == Pushed(m)
           IN /\ MemOK(n) /\ Depth(n) = Depth(m) + 1 /\ n.heap = m.heap /\ n.shared = m.shared
              /\ n.plain = m.plain /\ n.deleted = m.deleted /\ n.cursors = m.cursors /\ n.pkg = m.pkg
              /\ \A d \in 1 .. Depth(m) : n.frames[d] = m.frames[d]
              /\ n.frames[Depth(m) + 1] = Frame(m.pkg)
              /\ Lexical(n) = Lexical(m)
<1> DEFINE s == m.frames
           g == Frame(m.pkg)
           f == Append(s, g)
           n == Pushed(m)
<1>1. m \in Mem /\ s \in Seq(Scopes) /\ Len(s) = Depth(m) /\ Depth(m) \in Nat /\ s # <<>>
      /\ MaxDepth \in Nat /\ DOMAIN s = 1 .. Depth(m) /\ m.pkg \in Packages
  BY Parts, LexicalFacts DEF MemOK, Depth
<1>2. g \in Scopes /\ g.whole = <<>> /\ g.a = Absent
  <2>1. <<>> \in Seq(Elems) /\ <<>> \in Seq(Wholes) /\ -1 \in -1 .. MaxLen
    BY NotAbsent
  <2> QED BY <1>1, <2>1 DEF Frame, Scopes
<1>3. n = [m EXCEPT !.frames = f]
  BY DEF Pushed
<1> HIDE DEF s, g
<1>4. /\ f \in Seq(Scopes) /\ Len(f) = Len(s) + 1 /\ f # <<>> /\ f[Len(s) + 1] = g
      /\ \A i \in 1 .. Len(s) : f[i] = s[i]
  BY <1>1, <1>2, AppendToSeq
<1> HIDE DEF f, n
<1>5. /\ n \in Mem /\ n.frames = f /\ n.heap = m.heap /\ n.shared = m.shared
      /\ n.plain = m.plain /\ n.deleted = m.deleted /\ n.cursors = m.cursors /\ n.pkg = m.pkg
  BY <1>1, <1>3, <1>4 DEF Mem
<1>6. Depth(n) = Depth(m) + 1 /\ DOMAIN f = 1 .. Depth(n)
  BY <1>1, <1>4, <1>5, LenProperties DEF Depth
<1>7. (\A d \in 1 .. Depth(m) : f[d] = s[d]) /\ f[Depth(m) + 1] = g
  BY <1>1, <1>4
<1>8. CellsOK(n)
  <2>1. DOMAIN g.whole = {}
    BY <1>2
  <2>2. \A d \in 1 .. Depth(n) : d \in 1 .. Depth(m) \/ d = Depth(m) + 1
    BY <1>1, <1>6
  <2>3. \A d \in 1 .. Depth(m) : \A k \in DOMAIN s[d].whole : s[d].whole[k].cell <= Len(m.heap)
    BY <1>1 DEF MemOK, CellsOK, s
  <2>4. \A d \in DOMAIN f : \A k \in DOMAIN f[d].whole : f[d].whole[k].cell <= Len(m.heap)
    <3>1. ASSUME NEW d \in DOMAIN f, NEW k \in DOMAIN f[d].whole PROVE f[d].whole[k].cell <= Len(m.heap)
      BY <1>6, <1>7, <2>1, <2>2, <2>3, <3>1
    <3> QED BY <3>1
  <2> QED BY <1>5, <2>4 DEF CellsOK, MemOK
<1>9. MemOK(n)
  BY <1>1, <1>4, <1>5, <1>6, <1>8 DEF MemOK
<1>10. Lexical(n) = Lexical(m)
  <2>1. \A d \in 1 .. Depth(n) : d \in 1 .. Depth(m) \/ d = Depth(m) + 1
    BY <1>1, <1>6
  <2>2. 1 .. Depth(m) \subseteq 1 .. Depth(n)
    BY <1>1, <1>6
  <2> QED BY <1>2, <1>5, <1>7, <2>1, <2>2 DEF Lexical, s
<1> QED BY <1>5, <1>6, <1>7, <1>9, <1>10 DEF n, s, g

LEMMA TypeStep == TypeInv /\ [Next]_vars => TypeInv'
<1> SUFFICES ASSUME TypeInv, [Next]_vars PROVE TypeInv'
  OBVIOUS
<1>1. /\ MemOK(mem) /\ ops \in 0 .. MaxOps
      /\ before \in Seq(Views) /\ Len(before) = Depth(mem)
      /\ tainted \in Seq(BOOLEAN) /\ Len(tainted) = Depth(mem)
  BY DEF TypeInv
<1>2. Depth(mem) \in 1 .. MaxDepth /\ MaxDepth \in Nat /\ MaxOps \in Nat
  BY <1>1, LexicalFacts, ArraysAssumption
<1>3. CASE Builtin
  <2>1. PICK op, n : /\ Effect(op, n) /\ Change(op, mem, n)
                     /\ tainted' = Tainted \/ tainted' = tainted
    BY <1>1, <1>3, BuiltinChange
  <2>2. MemOK(n) /\ Depth(n) = Depth(mem)
    BY <1>1, <2>1, ChangeType
  <2>3. mem' = n /\ ops' = ops - 1 /\ ops > 0 /\ before' = before
    BY <2>1 DEF Effect
  <2>4. Tainted \in Seq(BOOLEAN) /\ Len(Tainted) = Len(tainted)
    <3>1. DOMAIN tainted = 1 .. Len(tainted) /\ Len(tainted) \in Nat
      BY <1>1, LenProperties
    <3>2. Tainted = [d \in 1 .. Len(tainted) |-> TRUE]
      BY <3>1 DEF Tainted
    <3> QED BY <3>1, <3>2, SameThroughout
  <2>5. tainted' \in Seq(BOOLEAN) /\ Len(tainted') = Len(tainted)
    BY <1>1, <2>1, <2>4
  <2>6. ops' \in 0 .. MaxOps
    BY <1>1, <1>2, <2>3
  <2> QED BY <1>1, <2>2, <2>3, <2>5, <2>6 DEF TypeInv, MemOK, Depth, CellsOK
<1>4. CASE OpenBlock
  <2> DEFINE n == Pushed(mem)
  <2>1. /\ mem' = n /\ before' = Append(before, Seen(mem)) /\ tainted' = Append(tainted, FALSE)
        /\ Depth(mem) < MaxDepth /\ ops > 0 /\ ops' = ops - 1
    BY <1>4 DEF OpenBlock, Pushed
  <2>2. MemOK(n) /\ Depth(n) = Depth(mem) + 1
    BY <1>1, <2>1, PushedFacts
  <2>3. before' \in Seq(Views) /\ Len(before') = Len(before) + 1
    BY <1>1, <2>1, SeenType, AppendToSeq
  <2>4. tainted' \in Seq(BOOLEAN) /\ Len(tainted') = Len(tainted) + 1
    BY <1>1, <2>1, AppendToSeq
  <2>5. ops' \in 0 .. MaxOps
    BY <1>1, <1>2, <2>1
  <2> HIDE DEF n
  <2> QED BY <1>1, <2>1, <2>2, <2>3, <2>4, <2>5 DEF TypeInv, MemOK, Depth, CellsOK
<1>5. CASE EndBlock
  <2> DEFINE n == CloseBlock(mem)
  <2>1. /\ mem' = n /\ before' = Front(before) /\ tainted' = Front(tainted)
        /\ Depth(mem) > 1 /\ ops' = ops
    BY <1>5 DEF EndBlock
  <2>2. MemOK(n) /\ Depth(n) = Depth(mem) - 1
    BY <1>1, <2>1, CloseFacts
  <2>3. before # <<>> /\ tainted # <<>>
    BY <1>1, <2>1
  <2>4. before' \in Seq(Views) /\ Len(before') = Len(before) - 1
    BY <1>1, <2>1, <2>3, FrontOfSeq
  <2>5. tainted' \in Seq(BOOLEAN) /\ Len(tainted') = Len(tainted) - 1
    BY <1>1, <2>1, <2>3, FrontOfSeq
  <2> HIDE DEF n
  <2> QED BY <1>1, <2>1, <2>2, <2>4, <2>5 DEF TypeInv, MemOK, Depth, CellsOK
<1>6. CASE Over \/ UNCHANGED vars
  BY <1>6 DEF Over, vars, TypeInv, MemOK, Depth, CellsOK
<1> QED BY <1>3, <1>4, <1>5, <1>6 DEF Next

LEMMA TypesOK == TypeInv => TypeOK
BY DEF TypeInv, TypeOK, MemOK

\* Whatever an operation or the end of a block does to the array, to `local`'s saves, to
\* the Rcs and to the cursors of `each` is of the types above, and there is one history
\* for each block that push_scope opened.
THEOREM TypesKept == Spec => []TypeOK
<1>1. Spec => []TypeInv
  BY InitType, TypeStep, PTL DEF Spec
<1> QED BY <1>1, TypesOK, PTL

-----------------------------------------------------------------------------
(* One array.                                                              *)

\* In P the name is main's, unless there is a lexical.
One(m) == Lexical(m) = {} => m.shared["P"] = 0 /\ Here(m) # Plain("P")
\* Nothing has happened to the array yet.
Fresh(m) ==
    /\ m.pkg = "main" /\ m.shared["P"] = 0 /\ m.shared["main"] = 0 /\ Lexical(m) = {}
    /\ m.deleted = {} /\ m.cursors = NoCursors
    /\ \A d \in 1 .. Depth(m) : m.frames[d] = Frame("main")
SingleInv ==
    single =>
        /\ Good(mem) /\ One(mem)
        /\ home = Nowhere => Fresh(mem)
        /\ home # Nowhere => home = Here(mem)

\* The reads of the next state, which the steps below reach by the operation's name for it.
LEMMA LexicalPrimed == Lexical(mem)' = Lexical(mem')
BY DEF Lexical, Depth
LEMMA HerePrimed == Here(mem)' = Here(mem')
BY LexicalPrimed DEF Here, Place, Cells
LEMMA GetPrimed == GetArray(mem)' = GetArray(mem')
BY HerePrimed DEF GetArray, Here, At, ArrayAt
LEMMA SeenPrimed == Seen(mem)' = Seen(mem')
BY GetPrimed DEF Seen, Exists
LEMMA DeniedPrimed == DeniedOK(mem)' <=> DeniedOK(mem')
BY GetPrimed DEF DeniedOK
LEMMA KeyPrimed == CursorKey(mem)' = CursorKey(mem')
BY LexicalPrimed DEF CursorKey
LEMMA EachPrimed == EachOK(mem)' <=> EachOK(mem')
BY GetPrimed, KeyPrimed DEF EachOK
LEMMA OnePrimed == One(mem)' <=> One(mem')
BY LexicalPrimed, HerePrimed DEF One
LEMMA FreshPrimed == Fresh(mem)' <=> Fresh(mem')
BY LexicalPrimed DEF Fresh, Depth
LEMMA SinglePrimed ==
    ASSUME Good(mem'), One(mem'), home' = Nowhere => Fresh(mem'), home' # Nowhere => home' = Here(mem')
    PROVE  SingleInv'
BY DeniedPrimed, EachPrimed, OnePrimed, FreshPrimed, HerePrimed DEF SingleInv, Good

LEMMA OneBare ==
    ASSUME NEW m, MemOK(m), One(m) PROVE Bare(m) = Here(m)
<1>1. m.pkg = "main" \/ m.pkg = "P"
  BY PackageFacts DEF Names
<1>2. CASE m.pkg = "main"
  BY <1>2 DEF Bare, Here
<1>3. CASE Lexical(m) # {}
  BY <1>3, PlaceFacts, PackageFacts DEF Bare, Here
<1>4. CASE m.pkg = "P" /\ Lexical(m) = {}
  <2>1. m.shared["P"] = 0 /\ Here(m) # Plain("P")
    BY <1>4 DEF One
  <2>2. Here(m) = IF m.shared["main"] # 0 THEN Cell(m.shared["main"]) ELSE Plain("P")
    BY <1>4, <2>1, PlaceFacts, PackageFacts DEF Here
  <2>3. m.shared["main"] # 0 => Bare(m) = Cell(m.shared["main"])
    BY <1>4, PlaceFacts, PackageFacts DEF Bare
  <2> QED BY <2>1, <2>2, <2>3
<1> QED BY <1>1, <1>2, <1>3, <1>4

LEMMA CleanGood ==
    ASSUME NEW m, MemOK(m), m.deleted = {}, m.cursors = NoCursors PROVE Good(m)
BY NoEach, NoMarks DEF Good

LEMMA FreshFacts ==
    ASSUME NEW m, MemOK(m), Fresh(m)
    PROVE  Good(m) /\ One(m) /\ Here(m) = Plain("main") /\ Bare(m) = Here(m)
<1>1. Good(m)
  BY CleanGood DEF Fresh
<1>2. Here(m) = Plain("main") /\ Bare(m) = Here(m)
  BY PlaceFacts, PackageFacts DEF Fresh, Here, Bare
<1>3. One(m)
  BY <1>2 DEF One, Fresh, Plain
<1> QED BY <1>1, <1>2, <1>3

\* A place is known by its kind and key.
LEMMA KnownPlace ==
    ASSUME NEW m, NEW n, NEW q, NEW r, IsPlace(m, q), IsPlace(n, r), q.kind = r.kind, q.key = r.key
    PROVE  q = r /\ q # Nowhere
BY DEF IsPlace, Frames, Cell, Plain, Nowhere

LEMMA PlaceKinds ==
    ASSUME NEW m, NEW q, IsPlace(m, q)
    PROVE  /\ q # Nowhere /\ q.kind # "none"
           /\ q.kind = "frame" <=> \E d \in Lexical(m) : q = Frames(d)
           /\ q.kind = "plain" => q = Plain("main") \/ q = Plain("P")
BY DEF IsPlace, Frames, Cell, Plain, Nowhere, Names

LEMMA SameFacts ==
    ASSUME MemOK(mem), NEW m, MemOK(m), NEW op, Same(op, m)
    PROVE  /\ Here(m) # Plain("P")
           /\ home = Here(mem) => Here(m) = Here(mem)
           /\ op \in {"my", "our", "local"} => mem.deleted = {} /\ mem.cursors = NoCursors
<1>1. /\ home.kind \in {"none", Here(m).kind} /\ (home.kind = Here(m).kind => home.key = Here(m).key)
      /\ Here(m).kind = "plain" => Here(m).key = "main"
      /\ op \in {"my", "our", "local"} => mem.deleted = {} /\ mem.cursors = NoCursors
  BY DEF Same, Here, Unmarked, NoCursors
<1>2. Here(m) # Plain("P")
  BY <1>1 DEF Plain
<1>3. ASSUME home = Here(mem) PROVE Here(m) = Here(mem)
  <2>1. IsPlace(mem, Here(mem)) /\ IsPlace(m, Here(m))
    BY GetFacts
  <2>2. home.kind # "none"
    BY <1>3, <2>1, PlaceKinds
  <2> QED BY <1>1, <1>3, <2>1, <2>2, KnownPlace
<1> QED BY <1>1, <1>2, <1>3

\* An array that stays where it is, whatever the package.
LEMMA SwitchGood ==
    ASSUME NEW m, MemOK(m), Good(m), NEW p \in Packages, Here(Elsewhere(m, p)) = Here(m)
    PROVE  Good(Elsewhere(m, p))
<1> DEFINE n == Elsewhere(m, p)
<1>1. /\ MemOK(n) /\ n.frames = m.frames /\ n.heap = m.heap /\ n.plain = m.plain
      /\ n.deleted = m.deleted /\ n.cursors = m.cursors /\ Lexical(n) = Lexical(m)
  BY ElsewhereFacts
<1>2. Here(n) = Here(m)
  OBVIOUS
<1> HIDE DEF n
<1>3. At(n, Here(n)) = At(m, Here(m)) /\ ArrayAt(n, Plain("main")) = ArrayAt(m, Plain("main"))
  BY <1>1, <1>2 DEF At, ArrayAt
<1>4. GetArray(n) = GetArray(m)
  BY <1>1, <1>3, GetFacts
<1>5. CursorKey(n) = CursorKey(m)
  BY <1>1 DEF CursorKey
<1>6. Good(n)
  BY <1>1, <1>4, <1>5 DEF Good, DeniedOK, EachOK
<1> QED BY <1>6 DEF n

\* A change that leaves the name with the same array keeps what is good.
LEMMA ChangeSingle ==
    ASSUME MemOK(mem), SingleInv, single, NEW op, NEW n, Change(op, mem, n), Same(op, n)
    PROVE  Good(n) /\ One(n)
<1>1. MemOK(n)
  BY ChangeType
<1>2. /\ Good(mem) /\ One(mem) /\ Bare(mem) = Here(mem)
      /\ home = Nowhere => Fresh(mem)
      /\ home # Nowhere => home = Here(mem)
  BY OneBare DEF SingleInv
<1>3. /\ Here(n) # Plain("P")
      /\ home = Here(mem) => Here(n) = Here(mem)
      /\ op \in {"my", "our", "local"} => mem.deleted = {} /\ mem.cursors = NoCursors
  BY <1>1, SameFacts
<1>4. ~ Fresh(mem) => Here(n) = Here(mem)
  BY <1>2, <1>3
<1>5. One(n) <=> (Lexical(n) = {} => n.shared["P"] = 0)
  BY <1>3 DEF One
<1>6. CASE Keeps(mem, n)
  <2>1. Good(n)
    BY <1>2, <1>6 DEF Keeps
  <2>2. Lexical(n) = Lexical(mem) /\ n.shared = mem.shared
    BY <1>6, AlikePlaces DEF Keeps, Alike
  <2> QED BY <1>2, <1>5, <2>1, <2>2 DEF One
<1>7. CASE op \in {"my", "our", "local"} /\ Moves(mem, n)
  <2>1. Good(n)
    BY <1>1, <1>3, <1>7, CleanGood DEF Moves, Stays
  <2>2. ASSUME Lexical(n) = {} PROVE n.shared["P"] = 0
    <3>1. Lexical(mem) = {} /\ mem.shared["P"] = 0
      BY <1>2, <1>7, <2>2 DEF Moves, One
    <3>2. n.shared["P"] = 0 \/ (mem.pkg = "P" /\ n.shared["P"] > Len(mem.heap))
      BY <1>7, <2>2, <3>1 DEF Moves
    <3>3. ASSUME mem.pkg = "P", n.shared["P"] > Len(mem.heap) PROVE FALSE
      <4>1. Here(n) = Here(mem)
        BY <1>4, <3>3 DEF Fresh
      <4>2. n.pkg = "P" /\ Len(mem.heap) \in Nat /\ n.shared["P"] # 0
        BY <1>7, <3>3, GlobalTypes DEF Moves, Stays
      <4>3. Here(n) = Cell(n.shared["P"])
        BY <1>1, <2>2, <4>2, PlaceFacts, PackageFacts DEF Here
      <4>4. Here(mem) \in {Cell(mem.shared["main"]), Plain("P")}
        BY <3>1, <3>3, PlaceFacts, PackageFacts DEF Here
      <4>5. mem.shared["main"] <= Len(mem.heap) /\ mem.shared["main"] \in Nat
        BY GlobalTypes
      <4>6. n.shared["P"] \in Nat
        BY <1>1, GlobalTypes
      <4> QED BY <3>3, <4>1, <4>2, <4>3, <4>4, <4>5, <4>6 DEF Cell, Plain
    <3> QED BY <3>2, <3>3
  <2> QED BY <1>5, <2>1, <2>2
<1>8. CASE Refers(mem, n)
  <2>1. CASE n = mem
    BY <1>2, <2>1
  <2>2. CASE n # mem
    <3>1. Fresh(mem)
      BY <1>4, <1>8, <2>2 DEF Refers
    <3>2. n.deleted = {} /\ n.cursors = NoCursors /\ n.shared["P"] = 0
      BY <1>8, <2>2, <3>1 DEF Refers, Stays, Fresh
    <3> QED BY <1>1, <1>5, <3>2, CleanGood
  <2> QED BY <2>1, <2>2
<1>9. CASE Switches(mem, n)
  <2>1. PICK p \in Packages : n = Elsewhere(mem, p)
    BY <1>9 DEF Switches
  <2>2. /\ n.shared = mem.shared /\ n.deleted = mem.deleted /\ n.cursors = mem.cursors
        /\ Lexical(n) = Lexical(mem)
    BY <2>1, ElsewhereFacts
  <2>3. One(n)
    BY <1>2, <1>5, <2>2 DEF One
  <2>4. CASE Fresh(mem)
    <3>1. n.deleted = {} /\ n.cursors = NoCursors
      BY <2>2, <2>4 DEF Fresh
    <3> QED BY <1>1, <2>3, <3>1, CleanGood
  <2>5. CASE ~ Fresh(mem)
    BY <1>2, <1>4, <2>1, <2>3, <2>5, SwitchGood
  <2> QED BY <2>4, <2>5
<1> QED BY <1>6, <1>7, <1>8, <1>9 DEF Change

\* A block without an array of its own ends.
LEMMA PoppedGood ==
    ASSUME NEW m, MemOK(m), Depth(m) > 1, Depth(m) \notin Lexical(m)
    PROVE  LET p == Popped(m)
           IN /\ Here(p) = Here(m) /\ GetArray(p) = GetArray(m)
              /\ (Good(m) => Good(p)) /\ (One(m) => One(p))
<1> DEFINE p == Popped(m)
<1>1. /\ MemOK(p) /\ Depth(p) = Depth(m) - 1 /\ p.heap = m.heap /\ p.shared = m.shared
      /\ p.plain = m.plain /\ p.deleted = m.deleted /\ p.cursors = m.cursors /\ p.pkg = m.pkg
      /\ \A d \in 1 .. Depth(p) : p.frames[d] = m.frames[d]
      /\ Lexical(p) = Lexical(m)
  BY PoppedFacts
<1> HIDE DEF p
<1>2. Here(p) = Here(m)
  BY <1>1 DEF Here, Place, Cells
<1>3. CursorKey(p) = CursorKey(m)
  BY <1>1 DEF CursorKey
<1>4. \A q : IsPlace(p, q) => At(p, q) = At(m, q)
  <2>1. ASSUME NEW q, IsPlace(p, q) PROVE At(p, q) = At(m, q)
    <3>1. q.kind = "frame" => q.key \in 1 .. Depth(p)
      BY <2>1 DEF IsPlace, Frames, Cell, Plain, Lexical
    <3> QED BY <1>1, <3>1 DEF At
  <2> QED BY <2>1
<1>5. GetArray(p) = GetArray(m)
  <2>1. IsPlace(p, Here(p)) /\ IsPlace(p, Plain("main"))
    BY <1>1, GetFacts, PackageFacts DEF IsPlace
  <2> QED BY <1>2, <1>4, <2>1 DEF GetArray, ArrayAt, Here
<1>6. (Good(m) => Good(p)) /\ (One(m) => One(p))
  BY <1>1, <1>2, <1>3, <1>5 DEF Good, DeniedOK, EachOK, One
<1> QED BY <1>2, <1>5, <1>6 DEF p

LEMMA AlikeOne ==
    ASSUME NEW m, MemOK(m), NEW n, Alike(m, n)
    PROVE  Here(n) = Here(m) /\ Bare(n) = Bare(m) /\ (One(m) => One(n))
<1>1. Here(n) = Here(m) /\ Bare(n) = Bare(m) /\ Lexical(n) = Lexical(m)
  BY AlikePlaces, PackageFacts DEF Here, Bare, Alike
<1> QED BY <1>1 DEF One, Alike

LEMMA KeepsGood ==
    ASSUME NEW m, MemOK(m), NEW n, Keeps(m, n), Good(m), One(m)
    PROVE  MemOK(n) /\ Good(n) /\ One(n) /\ Here(n) = Here(m)
BY AlikeOne, OneBare DEF Keeps

LEMMA CloseSingle ==
    ASSUME MemOK(mem), Depth(mem) > 1, SingleInv, single, NEW op, Same(op, CloseBlock(mem)),
           Last(mem.frames).whole = <<>>
    PROVE  Good(CloseBlock(mem)) /\ One(CloseBlock(mem))
<1> DEFINE d == Depth(mem)
           top == mem.frames[d]
           p == Popped(mem)
           u == Undone(mem)
           l == Closing(mem)
           n == CloseBlock(mem)
<1>1. /\ top \in Scopes /\ n = Elsewhere(l, top.back)
      /\ (top.whole = <<>> => Outer(mem) = p)
      /\ Leaves(Outer(mem), u) /\ Leaves(u, l)
      /\ MemOK(n) /\ Depth(n) = d - 1
  BY CloseFacts
<1>2. Last(mem.frames) = top
  BY DEF Last, Depth
<1>3. Keeps(p, u) /\ Keeps(u, l) /\ top.back \in Packages
  BY <1>1, <1>2 DEF Scopes, Leaves
<1>4. /\ MemOK(p) /\ p.shared = mem.shared /\ p.deleted = mem.deleted /\ p.cursors = mem.cursors
      /\ Lexical(p) = Lexical(mem) \ {d} /\ p.pkg = mem.pkg
  BY PoppedFacts
<1>5. /\ Good(mem) /\ One(mem) /\ Bare(mem) = Here(mem)
      /\ home = Nowhere => Fresh(mem)
      /\ home # Nowhere => home = Here(mem)
  BY OneBare DEF SingleInv
<1>6. /\ Here(n) # Plain("P")
      /\ home = Here(mem) => Here(n) = Here(mem)
  BY <1>1, SameFacts
<1>7. d \notin Lexical(mem)
  <2> SUFFICES ASSUME d \in Lexical(mem) PROVE FALSE
    OBVIOUS
  <2>1. ~ Fresh(mem)
    BY DEF Fresh
  <2>2. Here(n) = Here(mem)
    BY <1>5, <1>6, <2>1
  <2>3. d \in Nat /\ CursorKey(mem) = d
    <3>1. CursorKey(mem) \in Lexical(mem) /\ d <= CursorKey(mem) /\ Lexical(mem) \subseteq 1 .. d
          /\ d \in 1 .. MaxDepth
      BY LexicalFacts
    <3> QED BY <3>1
  <2>4. Here(mem) = Frames(d)
    BY <2>3, PlaceFacts, PackageFacts DEF Here
  <2>5. \E e \in Lexical(n) : Frames(d) = Frames(e)
    <3>1. IsPlace(n, Here(n)) /\ Here(n).kind = "frame"
      BY <1>1, <2>2, <2>4, GetFacts DEF Frames
    <3> QED BY <2>2, <2>4, <3>1, PlaceKinds
  <2>6. d \in Lexical(n)
    BY <2>5 DEF Frames
  <2>7. Lexical(n) \subseteq 1 .. d - 1
    BY <1>1 DEF Lexical
  <2> QED BY <2>3, <2>6, <2>7
<1> HIDE DEF n, l, u, p, top, d
<1>8. Good(p) /\ One(p) /\ Here(p) = Here(mem)
  BY <1>5, <1>7, PoppedGood DEF p, d
<1>9. MemOK(u) /\ Good(u) /\ One(u) /\ Here(u) = Here(p)
  BY <1>3, <1>4, <1>8, KeepsGood
<1>10. MemOK(l) /\ Good(l) /\ One(l) /\ Here(l) = Here(p)
  BY <1>3, <1>9, KeepsGood
<1>11. n.shared = l.shared /\ Lexical(n) = Lexical(l)
  BY <1>1, <1>3, <1>10, ElsewhereFacts
<1>12. One(n)
  BY <1>6, <1>10, <1>11 DEF One
<1>13. CASE ~ Fresh(mem)
  <2>1. Here(n) = Here(l)
    BY <1>5, <1>6, <1>8, <1>10, <1>13
  <2>2. Good(n)
    BY <1>1, <1>3, <1>10, <2>1, SwitchGood
  <2> QED BY <1>12, <2>2 DEF n
<1>14. CASE Fresh(mem)
  <2>1. Here(l) = Plain("main") /\ Lexical(l) = {} /\ top.back = "main"
    <3>1. Here(mem) = Plain("main")
      BY <1>14, FreshFacts
    <3>2. Lexical(mem) = {} /\ mem.frames[d] = Frame("main")
      BY <1>14, LexicalFacts DEF Fresh, d
    <3>3. Lexical(l) = Lexical(p)
      BY <1>3, AlikePlaces DEF Keeps
    <3> QED BY <1>4, <1>8, <1>10, <3>1, <3>2, <3>3 DEF top, Frame
  <2>2. l.pkg = "main" /\ l \in Mem
    BY <1>3, <1>4, <1>10, <1>14 DEF Keeps, Alike, Fresh, MemOK
  <2>3. n = l
    BY <1>1, <2>1, <2>2 DEF Elsewhere, Mem
  <2> QED BY <1>10, <1>12, <2>3 DEF n
<1> QED BY <1>13, <1>14

LEMMA PushedGood ==
    ASSUME NEW m, MemOK(m), Depth(m) < MaxDepth
    PROVE  LET n == Pushed(m)
           IN /\ MemOK(n) /\ Here(n) = Here(m) /\ GetArray(n) = GetArray(m)
              /\ (Good(m) => Good(n)) /\ (One(m) => One(n)) /\ (Fresh(m) => Fresh(n))
<1> DEFINE n == Pushed(m)
<1>1. /\ MemOK(n) /\ Depth(n) = Depth(m) + 1 /\ n.heap = m.heap /\ n.shared = m.shared
      /\ n.plain = m.plain /\ n.deleted = m.deleted /\ n.cursors = m.cursors /\ n.pkg = m.pkg
      /\ \A d \in 1 .. Depth(m) : n.frames[d] = m.frames[d]
      /\ n.frames[Depth(m) + 1] = Frame(m.pkg)
      /\ Lexical(n) = Lexical(m)
  BY PushedFacts
<1> HIDE DEF n
<1>2. Here(n) = Here(m) /\ CursorKey(n) = CursorKey(m)
  BY <1>1 DEF Here, Place, Cells, CursorKey
<1>3. \A q : IsPlace(m, q) => At(n, q) = At(m, q)
  <2>1. ASSUME NEW q, IsPlace(m, q) PROVE At(n, q) = At(m, q)
    <3>1. q.kind = "frame" => q.key \in 1 .. Depth(m)
      BY <2>1 DEF IsPlace, Frames, Cell, Plain, Lexical
    <3> QED BY <1>1, <3>1 DEF At
  <2> QED BY <2>1
<1>4. GetArray(n) = GetArray(m)
  <2>1. IsPlace(m, Here(m)) /\ IsPlace(m, Plain("main"))
    BY GetFacts, PackageFacts DEF IsPlace
  <2> QED BY <1>2, <1>3, <2>1 DEF GetArray, ArrayAt, Here
<1>5. (Good(m) => Good(n)) /\ (One(m) => One(n))
  BY <1>1, <1>2, <1>4 DEF Good, DeniedOK, EachOK, One
<1>6. ASSUME Fresh(m) PROVE Fresh(n)
  <2>1. Depth(m) \in Nat
    BY LexicalFacts
  <2>2. \A d \in 1 .. Depth(n) : d \in 1 .. Depth(m) \/ d = Depth(m) + 1
    BY <1>1, <2>1
  <2>3. \A d \in 1 .. Depth(n) : n.frames[d] = Frame("main")
    BY <1>1, <1>6, <2>2 DEF Fresh
  <2> QED BY <1>1, <1>6, <2>3 DEF Fresh
<1> QED BY <1>1, <1>2, <1>4, <1>5, <1>6 DEF n

LEMMA SingleInit == Init => SingleInv
<1> SUFFICES ASSUME Init PROVE SingleInv
  OBVIOUS
<1>1. MemOK(mem)
  BY InitType DEF TypeInv
<1>2. /\ mem.frames = <<Frame("main")>> /\ mem.shared = [p \in Names |-> 0]
      /\ mem.deleted = {} /\ mem.cursors = NoCursors /\ mem.pkg = "main" /\ home = Nowhere
  BY DEF Init, NoCursors
<1>3. mem.shared["P"] = 0 /\ mem.shared["main"] = 0
  BY <1>2 DEF Names
<1> DEFINE f == Frame("main")
<1>4. f.a = Absent
  BY DEF Frame
<1> HIDE DEF f
<1>5. mem.frames = <<f>>
  BY <1>2 DEF f
<1>6. Depth(mem) = 1 /\ mem.frames[1] = f
  BY <1>5 DEF Depth
<1>7. Lexical(mem) = {}
  BY <1>4, <1>6 DEF Lexical
<1>8. Fresh(mem)
  BY <1>2, <1>3, <1>6, <1>7 DEF Fresh, f
<1> QED BY <1>1, <1>2, <1>8, FreshFacts DEF SingleInv

LEMMA SingleStep == TypeInv /\ SingleInv /\ [Next]_vars => SingleInv'
<1> SUFFICES ASSUME TypeInv, SingleInv, [Next]_vars, single' PROVE SingleInv'
  BY DEF SingleInv
<1>1. MemOK(mem)
  BY DEF TypeInv
<1>2. CASE Builtin
  <2>1. PICK op, n : Effect(op, n) /\ Change(op, mem, n)
    BY <1>1, <1>2, BuiltinChange
  <2>2. mem' = n /\ home' = Here(n) /\ single /\ Same(op, n)
    BY <2>1 DEF Effect, Here
  <2>3. Good(n) /\ One(n)
    BY <1>1, <2>1, <2>2, ChangeSingle
  <2>4. MemOK(n)
    BY <1>1, <2>1, ChangeType
  <2>5. Here(n) # Nowhere
    BY <2>4, GetFacts, PlaceKinds
  <2> QED BY <2>2, <2>3, <2>5, SinglePrimed
<1>3. CASE OpenBlock
  <2> DEFINE n == Pushed(mem)
  <2>1. mem' = n /\ home' = home /\ single /\ Depth(mem) < MaxDepth
    BY <1>3 DEF OpenBlock, Pushed
  <2>2. Good(n) /\ One(n) /\ Here(n) = Here(mem) /\ (home = Nowhere => Fresh(n))
        /\ (home # Nowhere => home = Here(n))
    BY <1>1, <2>1, PushedGood DEF SingleInv
  <2> HIDE DEF n
  <2> QED BY <2>1, <2>2, SinglePrimed
<1>4. CASE EndBlock
  <2> DEFINE n == CloseBlock(mem)
  <2>1. /\ mem' = n /\ home' = Place(mem', mem'.pkg) /\ single /\ Depth(mem) > 1
        /\ Same("end", mem') /\ Last(mem.frames).whole = <<>>
    BY <1>4 DEF EndBlock
  <2>2. home' = Here(n) /\ Same("end", n)
    BY <2>1 DEF Here, Same, Place, Lexical, Depth, Cells
  <2>3. Good(n) /\ One(n)
    BY <1>1, <2>1, <2>2, CloseSingle
  <2>4. MemOK(n)
    BY <1>1, <2>1, CloseFacts
  <2> HIDE DEF n
  <2>5. Here(n) # Nowhere
    BY <2>4, GetFacts, PlaceKinds
  <2> QED BY <2>1, <2>2, <2>3, <2>5, SinglePrimed
<1>5. CASE Over \/ UNCHANGED vars
  <2>1. mem' = mem /\ home' = home /\ single
    BY <1>5 DEF Over, vars
  <2> QED BY <2>1, SinglePrimed DEF SingleInv
<1> QED BY <1>2, <1>3, <1>4, <1>5 DEF Next

LEMMA SingleHolds == Spec => [](TypeInv /\ SingleInv)
<1>1. Init => TypeInv /\ SingleInv
  BY InitType, SingleInit
<1>2. TypeInv /\ SingleInv /\ [Next]_vars => TypeInv' /\ SingleInv'
  BY TypeStep, SingleStep
<1> QED BY <1>1, <1>2, PTL DEF Spec

\* However delete, $#a, splice, assignments, `local` and `delete local` follow one another
\* and whatever blocks they end: while the name stands for one array, a slot that `exists`
\* denies is undef, though the marks are kept apart from the values and by name.
THEOREM DeniedUndef == Spec => []DeniedIsUndef
<1>1. TypeInv /\ SingleInv => DeniedIsUndef
  <2> SUFFICES ASSUME TypeInv, SingleInv, single, NEW i \in 1 .. Len(GetArray(mem)),
                      GetArray(mem)[i] # Undef
               PROVE  Exists(mem, i - 1)
    BY DEF DeniedIsUndef
  <2>1. i - 1 \notin mem.deleted
    BY DEF SingleInv, Good, DeniedOK
  <2>2. Len(GetArray(mem)) \in Nat
    BY GetFacts, ArrSeq DEF TypeInv
  <2> QED BY <2>1, <2>2 DEF Exists
<1> QED BY <1>1, SingleHolds, PTL

\* And `each` leaves out no element: an iteration in progress took down at least as many
\* indices as there are elements.
THEOREM EachKnowsAll == Spec => []EachComplete
<1>1. SingleInv => EachComplete
  BY DEF SingleInv, EachComplete, Good, EachOK
<1> QED BY <1>1, SingleHolds, PTL

-----------------------------------------------------------------------------
(* What `local` did to elements is undone.                                 *)

ViewSeqs == {b \in Seq(Values \cup {Absent}) : Len(b) <= MaxLen}
Present(b, i) == i < Len(b) /\ b[i + 1] # Absent
\* The slot i is as in b, or undef beyond it.
SlotKept(b, i, seen) ==
    /\ Present(b, i) => i < Len(seen) /\ seen[i + 1] = b[i + 1]
    /\ i >= Len(b) /\ i < Len(seen) => seen[i + 1] = Undef
\* The save says what was in b, or is of no slot of it.
SaveOf(b, save) ==
    /\ Present(b, save.i) => save.old = b[save.i + 1]
    /\ save.i >= Len(b) => save.old \in {Absent, Undef}
FirstOf(saves, k) == \A j \in 1 .. k - 1 : saves[j].i # saves[k].i
\* With the first k saves: what changed of b since has been saved, in its first save.
Kept(b, saves, k, seen) ==
    /\ \A j \in 1 .. k : saves[j].i \in 0 .. MaxLen - 1
    /\ \A j \in 1 .. k : FirstOf(saves, j) => SaveOf(b, saves[j])
    /\ \A i \in 0 .. MaxLen - 1 : (\A j \in 1 .. k : saves[j].i # i) => SlotKept(b, i, seen)

LEMMA ViewDomain ==
    ASSUME NEW b \in ViewSeqs PROVE DOMAIN b = 1 .. Len(b) /\ Len(b) \in Nat
BY LenProperties DEF ViewSeqs

LEMMA SeenSeq ==
    ASSUME NEW m, MemOK(m)
    PROVE  /\ Seen(m) \in ViewSeqs /\ Len(Seen(m)) = Len(GetArray(m)) /\ Len(Seen(m)) \in 0 .. MaxLen
           /\ \A i \in 1 .. Len(GetArray(m)) :
                 Seen(m)[i] = IF i - 1 \in m.deleted THEN Absent ELSE GetArray(m)[i]
<1> DEFINE arr == GetArray(m)
           t == [i \in 1 .. Len(arr) |-> IF i - 1 \in m.deleted THEN Absent ELSE arr[i]]
<1>1. arr \in Seq(Values) /\ Len(arr) \in 0 .. MaxLen /\ Len(arr) \in Nat /\ Len(arr) <= MaxLen
  <2>1. arr \in Seq(Values) /\ Len(arr) \in Nat /\ Len(arr) <= MaxLen /\ MaxLen \in Nat
    BY GetFacts, ArrSeq, NotAbsent
  <2> QED BY <2>1
<1>2. Seen(m) = t
  <2>1. \A i \in 1 .. Len(arr) : i - 1 < Len(arr)
    BY <1>1
  <2> QED BY <2>1 DEF Seen, Exists
<1>3. t \in [1 .. Len(arr) -> Values \cup {Absent}] /\ DOMAIN t = 1 .. Len(arr)
  <2> HIDE DEF arr
  <2>1. \A i \in 1 .. Len(arr) : arr[i] \in Values
    BY <1>1, ElementOfSeq
  <2> QED BY <2>1
<1>4. t \in Seq(Values \cup {Absent}) /\ Len(t) = Len(arr)
  <2> DEFINE x == Len(arr)
  <2>1. x \in Nat /\ t \in [1 .. x -> Values \cup {Absent}] /\ DOMAIN t = 1 .. x
    BY <1>1, <1>3
  <2> HIDE DEF t, x
  <2>2. t \in Seq(Values \cup {Absent})
    BY <2>1
  <2>3. Len(t) = x
    BY <2>1, <2>2, LenProperties
  <2> QED BY <2>2, <2>3 DEF x
<1> QED BY <1>1, <1>2, <1>3, <1>4 DEF ViewSeqs

\* An undo that leaves the other slots, and gives the slot what the save says.
LEMMA UndoneSlots ==
    ASSUME NEW arr \in Arr, NEW save \in Elems, save.i \in 0 .. MaxLen - 1
    PROVE  LET t == Undoing(arr, save)
           IN /\ t \in Arr
              /\ \A i \in 0 .. MaxLen - 1 : i # save.i /\ i < Len(arr) /\ i < Len(t) => t[i + 1] = arr[i + 1]
              /\ \A i \in 0 .. MaxLen - 1 : i # save.i /\ i < Len(arr) => i < Len(t)
              /\ \A i \in 0 .. MaxLen - 1 : i # save.i /\ i >= Len(arr) /\ i < Len(t) => t[i + 1] = Undef
              /\ save.old # Absent => save.i < Len(t) /\ t[save.i + 1] = save.old
              /\ save.old = Absent /\ save.i < Len(t) => t[save.i + 1] = Undef
<1> DEFINE at == save.i
           t == Undoing(arr, save)
<1>1. /\ Len(arr) \in Nat /\ Len(arr) <= MaxLen /\ MaxLen \in Nat /\ at \in Nat
      /\ save.old \in Values \cup {Absent} /\ Resolve(at, Len(arr)) = at
  BY ArrSeq, NotAbsent DEF Elems, Resolve
<1>2. CASE save.old # Absent
  <2>1. t = SetSlot(arr, at, save.old) /\ save.old \in Values
    BY <1>1, <1>2 DEF Undoing
  <2> HIDE DEF t, at
  <2>2. /\ t \in Arr /\ Len(t) = (IF Len(arr) >= at + 1 THEN Len(arr) ELSE at + 1)
        /\ t[at + 1] = save.old
        /\ \A j \in 1 .. Len(t) : j # at + 1 => t[j] = IF j <= Len(arr) THEN arr[j] ELSE Undef
    BY <2>1, SetSlotFacts DEF at
  <2>3. \A i \in 0 .. MaxLen - 1 : i # at /\ i < Len(arr) => i < Len(t)
    BY <1>1, <2>2
  <2>4. at < Len(t)
    BY <1>1, <2>2
  <2>5. \A i \in 0 .. MaxLen - 1 : i # at /\ i < Len(t) =>
            t[i + 1] = IF i + 1 <= Len(arr) THEN arr[i + 1] ELSE Undef
    <3>1. ASSUME NEW i \in 0 .. MaxLen - 1, i # at, i < Len(t)
          PROVE  i + 1 \in 1 .. Len(t) /\ i + 1 # at + 1
      BY <1>1, <2>2, <3>1
    <3> QED BY <2>2, <3>1
  <2>6. \A i \in 0 .. MaxLen - 1 : (i < Len(arr) <=> i + 1 <= Len(arr)) /\ (i >= Len(arr) <=> ~ (i + 1 <= Len(arr)))
    BY <1>1
  <2> QED BY <1>2, <2>2, <2>3, <2>4, <2>5, <2>6 DEF t, at
<1>3. CASE save.old = Absent
  <2> DEFINE blank == IF at < Len(arr) THEN SetSlot(arr, at, Undef) ELSE arr
  <2>1. t = Trim(blank, {at})
    BY <1>1, <1>3 DEF Undoing
  <2> HIDE DEF t, at
  <2>2. /\ blank \in Arr /\ Len(blank) = Len(arr)
        /\ \A j \in 1 .. Len(blank) : blank[j] = IF j = at + 1 THEN Undef ELSE arr[j]
    <3>1. CASE at < Len(arr)
      <4> DEFINE u == SetSlot(arr, at, Undef)
      <4>1. Len(arr) >= at + 1 /\ at \in 0 .. MaxLen - 1 /\ Undef \in Values
        BY <1>1, <3>1, NotAbsent DEF at
      <4>2. /\ u \in Arr /\ Len(u) = (IF Len(arr) >= at + 1 THEN Len(arr) ELSE at + 1) /\ u[at + 1] = Undef
            /\ \A j \in 1 .. Len(u) : j # at + 1 => u[j] = IF j <= Len(arr) THEN arr[j] ELSE Undef
        BY <4>1, SetSlotFacts
      <4>3. blank = u
        BY <3>1
      <4> HIDE DEF u, blank
      <4> QED BY <1>1, <4>1, <4>2, <4>3
    <3>2. CASE ~ (at < Len(arr))
      BY <1>1, <3>2
    <3> QED BY <3>1, <3>2
  <2> HIDE DEF blank
  <2>3. /\ t \in Arr /\ Len(t) \in 0 .. Len(arr) /\ \A j \in 1 .. Len(t) : t[j] = blank[j]
        /\ \A j \in 1 .. Len(arr) : j > Len(t) => j - 1 \in {at}
    BY <2>1, <2>2, TrimFacts
  <2>4. \A i \in 0 .. MaxLen - 1 : i < Len(arr) => i + 1 \in 1 .. Len(arr) /\ (i + 1) - 1 = i
    BY <1>1
  <2>5. \A i \in 0 .. MaxLen - 1 : i # at /\ i < Len(arr) => i < Len(t)
    <3>1. ASSUME NEW i \in 0 .. MaxLen - 1, i # at, i < Len(arr) PROVE i < Len(t)
      <4>1. i + 1 \in 1 .. Len(arr) /\ (i + 1) - 1 = i
        BY <2>4, <3>1
      <4>2. ~ (i + 1 > Len(t))
        BY <2>3, <3>1, <4>1
      <4> QED BY <1>1, <2>3, <4>1, <4>2
    <3> QED BY <3>1
  <2>6. \A i \in 0 .. MaxLen - 1 : i < Len(t) =>
            /\ t[i + 1] = IF i = at THEN Undef ELSE arr[i + 1]
            /\ i < Len(arr)
    <3>1. ASSUME NEW i \in 0 .. MaxLen - 1, i < Len(t)
          PROVE  i + 1 \in 1 .. Len(t) /\ i < Len(arr) /\ i + 1 \in 1 .. Len(blank) /\ (i + 1 = at + 1 <=> i = at)
      BY <1>1, <2>2, <2>3, <3>1
    <3> QED BY <2>2, <2>3, <3>1
  <2>7. \A i \in 0 .. MaxLen - 1 : ~ (i >= Len(arr) /\ i < Len(arr))
    BY <1>1
  <2> QED BY <1>3, <2>3, <2>5, <2>6, <2>7 DEF t, at
<1> QED BY <1>2, <1>3

\* Undoing the last of k saves.
LEMMA UndoKept ==
    ASSUME NEW m, MemOK(m), NEW b \in ViewSeqs, NEW saves \in Seq(Elems), NEW k \in 1 .. Len(saves),
           Kept(b, saves, k, Seen(m))
    PROVE  LET n == RestoreElem(m, saves[k])
           IN Kept(b, saves, k - 1, Seen(n)) /\ n.deleted = {}
<1> DEFINE arr == GetArray(m)
           save == saves[k]
           at == save.i
           n == RestoreElem(m, save)
           t == Undoing(arr, save)
           seen == Seen(m)
           then == Seen(n)
<1>1. /\ k \in Nat /\ k - 1 \in Nat /\ save \in Elems /\ at \in 0 .. MaxLen - 1 /\ MaxLen \in Nat
      /\ Len(b) \in Nat
  <2>1. Len(saves) \in Nat /\ save \in Elems
    BY ElementOfSeq
  <2>2. k \in 1 .. k
    BY <2>1
  <2> QED BY <2>1, <2>2, NotAbsent DEF Kept, ViewSeqs
<1>2. arr \in Arr /\ Len(arr) \in Nat /\ Resolve(at, Len(arr)) >= 0
  BY <1>1, GetFacts, ArrSeq DEF Resolve
<1>3. MemOK(n) /\ GetArray(n) = t /\ n.deleted = {}
  BY <1>1, <1>2, RestoreFacts DEF Leaves, Keeps
<1> HIDE DEF n
<1>4. /\ t \in Arr
      /\ \A i \in 0 .. MaxLen - 1 : i # at /\ i < Len(arr) /\ i < Len(t) => t[i + 1] = arr[i + 1]
      /\ \A i \in 0 .. MaxLen - 1 : i # at /\ i < Len(arr) => i < Len(t)
      /\ \A i \in 0 .. MaxLen - 1 : i # at /\ i >= Len(arr) /\ i < Len(t) => t[i + 1] = Undef
      /\ save.old # Absent => at < Len(t) /\ t[at + 1] = save.old
      /\ save.old = Absent /\ at < Len(t) => t[at + 1] = Undef
  BY <1>1, <1>2, UndoneSlots
<1>5. Len(t) \in Nat
  BY <1>4, ArrSeq
<1>6. Len(seen) = Len(arr) /\ \A i \in 1 .. Len(arr) : seen[i] = IF i - 1 \in m.deleted THEN Absent ELSE arr[i]
  BY SeenSeq
<1>7. Len(then) = Len(t) /\ \A i \in 1 .. Len(t) : then[i] = t[i]
  BY <1>3, SeenSeq
<1> HIDE DEF t, arr, then, seen
<1>8. ASSUME NEW i \in 0 .. MaxLen - 1, i # at, SlotKept(b, i, seen) PROVE SlotKept(b, i, then)
  <2>1. i < Len(t) => i + 1 \in 1 .. Len(t) /\ then[i + 1] = t[i + 1]
    BY <1>5, <1>7
  <2>2. i < Len(arr) => i + 1 \in 1 .. Len(arr) /\ (seen[i + 1] = Absent \/ seen[i + 1] = arr[i + 1])
    BY <1>2, <1>6
  <2>3. ASSUME Present(b, i) PROVE i < Len(then) /\ then[i + 1] = b[i + 1]
    <3>1. i < Len(arr) /\ seen[i + 1] = b[i + 1] /\ b[i + 1] # Absent
      BY <1>6, <1>8, <2>3 DEF SlotKept, Present
    <3>2. i < Len(t) /\ arr[i + 1] = b[i + 1]
      BY <1>4, <1>8, <2>2, <3>1
    <3>3. t[i + 1] = arr[i + 1]
      BY <1>4, <1>8, <3>1, <3>2
    <3> QED BY <1>7, <2>1, <3>2, <3>3
  <2>4. ASSUME i >= Len(b), i < Len(then) PROVE then[i + 1] = Undef
    <3>1. i < Len(t) /\ then[i + 1] = t[i + 1]
      BY <1>7, <2>1, <2>4
    <3>2. CASE i < Len(arr)
      <4>1. seen[i + 1] = Undef
        BY <1>6, <1>8, <2>4, <3>2 DEF SlotKept
      <4>2. arr[i + 1] = Undef
        BY <2>2, <3>2, <4>1, ArraysAssumption
      <4> QED BY <1>4, <1>8, <3>1, <3>2, <4>2
    <3>3. CASE ~ (i < Len(arr))
      <4>1. i >= Len(arr)
        BY <1>2, <3>3
      <4> QED BY <1>4, <1>8, <3>1, <4>1
    <3> QED BY <3>2, <3>3
  <2> QED BY <2>3, <2>4 DEF SlotKept
<1>9. ASSUME \A j \in 1 .. k - 1 : saves[j].i # at PROVE SlotKept(b, at, then)
  <2>1. SaveOf(b, save)
    <3>1. FirstOf(saves, k) /\ k \in 1 .. k
      BY <1>1, <1>9 DEF FirstOf
    <3> QED BY <3>1 DEF Kept
  <2>2. at < Len(t) => at + 1 \in 1 .. Len(t) /\ then[at + 1] = t[at + 1]
    BY <1>1, <1>5, <1>7
  <2>3. ASSUME Present(b, at) PROVE at < Len(then) /\ then[at + 1] = b[at + 1]
    <3>1. save.old = b[at + 1] /\ save.old # Absent
      BY <2>1, <2>3 DEF SaveOf, Present
    <3> QED BY <1>4, <1>7, <2>2, <3>1
  <2>4. ASSUME at >= Len(b), at < Len(then) PROVE then[at + 1] = Undef
    <3>1. save.old \in {Absent, Undef}
      BY <2>1, <2>4 DEF SaveOf
    <3> QED BY <1>4, <1>7, <2>2, <2>4, <3>1, ArraysAssumption
  <2> QED BY <2>3, <2>4 DEF SlotKept
<1>10. Kept(b, saves, k - 1, then)
  <2>1. \A j \in 1 .. k - 1 : j \in 1 .. k
    BY <1>1
  <2>2. \A j \in 1 .. k : j = k \/ j \in 1 .. k - 1
    BY <1>1
  <2>3. ASSUME NEW i \in 0 .. MaxLen - 1, \A j \in 1 .. k - 1 : saves[j].i # i
        PROVE  SlotKept(b, i, then)
    <3>1. CASE i = at
      BY <1>9, <2>3, <3>1
    <3>2. CASE i # at
      <4>1. \A j \in 1 .. k : saves[j].i # i
        BY <2>2, <2>3, <3>2
      <4>2. SlotKept(b, i, seen)
        BY <4>1 DEF Kept, seen
      <4> QED BY <1>8, <3>2, <4>2
    <3> QED BY <3>1, <3>2
  <2> QED BY <2>1, <2>3 DEF Kept
<1> QED BY <1>3, <1>10 DEF n, then

\* A `local` saves what it changes.
LEMMA LocalSlots ==
    ASSUME NEW m, MemOK(m), NEW i \in Ends, i >= 0, NEW n, IsLocal(m, n, i)
    PROVE  /\ Keeps(m, n) /\ Saving(m, n, i) /\ i \in 0 .. MaxLen - 1
           /\ Old(m, i) = IF i < Len(Seen(m)) THEN Seen(m)[i + 1] ELSE Absent
           /\ \A j \in 0 .. MaxLen - 1 : j # i =>
                 /\ j < Len(Seen(m)) /\ Seen(m)[j + 1] # Absent =>
                        j < Len(Seen(n)) /\ Seen(n)[j + 1] = Seen(m)[j + 1]
                 /\ j >= Len(Seen(m)) /\ j < Len(Seen(n)) => Seen(n)[j + 1] = Undef
<1> DEFINE arr == GetArray(m)
           t == GetArray(n)
           seen == Seen(m)
           then == Seen(n)
<1>1. /\ i \in 0 .. MaxLen - 1 /\ MaxLen \in Nat /\ arr \in Arr /\ Len(arr) \in Nat
      /\ Resolve(i, Len(arr)) = i /\ Reachable(m, i)
  BY GetFacts, ArrSeq, NotAbsent DEF IsLocal, Ends, Resolve
<1>2. Len(seen) = Len(arr) /\ \A j \in 1 .. Len(arr) : seen[j] = IF j - 1 \in m.deleted THEN Absent ELSE arr[j]
  BY SeenSeq
<1>3. Old(m, i) = IF i < Len(seen) THEN seen[i + 1] ELSE Absent
  <2>1. Old(m, i) = IF i \in 0 .. Len(arr) - 1 /\ i \notin m.deleted THEN arr[i + 1] ELSE Absent
    BY <1>1 DEF Old
  <2> HIDE DEF arr, seen
  <2>2. i < Len(arr) => i + 1 \in 1 .. Len(arr) /\ (i + 1) - 1 = i /\ i \in 0 .. Len(arr) - 1
    BY <1>1
  <2> QED BY <1>1, <1>2, <2>1, <2>2
<1> DEFINE Rest == \A j \in 0 .. MaxLen - 1 : j # i =>
                 /\ j < Len(seen) /\ seen[j + 1] # Absent => j < Len(then) /\ then[j + 1] = seen[j + 1]
                 /\ j >= Len(seen) /\ j < Len(then) => then[j + 1] = Undef
<1>4. CASE \E v \in Values : n = LocalElem(m, i, v)
  <2>1. PICK v \in Values : n = LocalElem(m, i, v)
    BY <1>4
  <2>2. Keeps(m, n) /\ Saving(m, n, i) /\ n.deleted = {} /\ t = SetSlot(arr, i, v)
    BY <1>1, <2>1, LocalFacts
  <2>3. MemOK(n)
    BY <2>2 DEF Keeps
  <2>4. Len(then) = Len(t) /\ \A j \in 1 .. Len(t) : then[j] = t[j]
    BY <2>2, <2>3, SeenSeq
  <2> HIDE DEF t, arr, seen, then
  <2>5. /\ Len(t) = (IF Len(arr) >= i + 1 THEN Len(arr) ELSE i + 1)
        /\ \A j \in 1 .. Len(t) : j # i + 1 => t[j] = IF j <= Len(arr) THEN arr[j] ELSE Undef
    BY <1>1, <2>2, SetSlotFacts
  <2>6. Rest
    <3> SUFFICES ASSUME NEW j \in 0 .. MaxLen - 1, j # i
                 PROVE  /\ j < Len(seen) /\ seen[j + 1] # Absent => j < Len(then) /\ then[j + 1] = seen[j + 1]
                        /\ j >= Len(seen) /\ j < Len(then) => then[j + 1] = Undef
      OBVIOUS
    <3>1. /\ j + 1 # i + 1 /\ (j < Len(t) => j + 1 \in 1 .. Len(t)) /\ (j < Len(arr) => j + 1 \in 1 .. Len(arr) /\ j < Len(t))
          /\ (j < Len(arr) <=> j + 1 <= Len(arr)) /\ (j >= Len(arr) <=> ~ (j + 1 <= Len(arr)))
      BY <1>1, <2>5
    <3>2. j < Len(t) => then[j + 1] = IF j + 1 <= Len(arr) THEN arr[j + 1] ELSE Undef
      BY <2>4, <2>5, <3>1
    <3>3. j < Len(arr) => seen[j + 1] = Absent \/ seen[j + 1] = arr[j + 1]
      BY <1>2, <3>1
    <3> QED BY <1>2, <2>4, <3>1, <3>2, <3>3
  <2> QED BY <1>1, <1>3, <2>2, <2>6 DEF seen, then
<1>5. CASE n = DeleteLocal(m, i)
  <2> DEFINE blank == IF i < Len(arr) THEN SetSlot(arr, i, Undef) ELSE arr
  <2>1. /\ Keeps(m, n) /\ Saving(m, n, i) /\ n.deleted = m.deleted \cup {i}
        /\ t \in {arr, Trim(blank, n.deleted)}
    BY <1>1, <1>5, DeleteLocalFacts
  <2>2. MemOK(n)
    BY <2>1 DEF Keeps
  <2>3. Len(then) = Len(t) /\ \A j \in 1 .. Len(t) : then[j] = IF j - 1 \in n.deleted THEN Absent ELSE t[j]
    BY <2>2, SeenSeq
  <2> HIDE DEF t, arr, seen, then
  <2>4. /\ blank \in Arr /\ Len(blank) = Len(arr)
        /\ \A j \in 1 .. Len(blank) : j # i + 1 => blank[j] = arr[j]
    <3>1. CASE i < Len(arr)
      <4> DEFINE u == SetSlot(arr, i, Undef)
      <4>1. Len(arr) >= i + 1 /\ Undef \in Values
        BY <1>1, <3>1, NotAbsent
      <4>2. /\ u \in Arr /\ Len(u) = (IF Len(arr) >= i + 1 THEN Len(arr) ELSE i + 1)
            /\ \A j \in 1 .. Len(u) : j # i + 1 => u[j] = IF j <= Len(arr) THEN arr[j] ELSE Undef
        BY <1>1, <4>1, SetSlotFacts
      <4>3. blank = u
        BY <3>1
      <4> HIDE DEF u, blank
      <4> QED BY <1>1, <4>1, <4>2, <4>3
    <3>2. CASE ~ (i < Len(arr))
      BY <1>1, <3>2
    <3> QED BY <3>1, <3>2
  <2> HIDE DEF blank
  <2>5. /\ Len(t) \in 0 .. Len(arr)
        /\ \A j \in 1 .. Len(t) : j # i + 1 => t[j] = arr[j]
        /\ \A j \in 1 .. Len(arr) : j > Len(t) => j - 1 \in n.deleted
    <3> DEFINE u == Trim(blank, n.deleted)
    <3>1. /\ Len(u) \in 0 .. Len(blank) /\ \A j \in 1 .. Len(u) : u[j] = blank[j]
          /\ \A j \in 1 .. Len(blank) : j > Len(u) => j - 1 \in n.deleted
      BY <2>4, TrimFacts
    <3> HIDE DEF u
    <3>2. CASE t = u
      <4>1. \A j \in 1 .. Len(u) : j \in 1 .. Len(blank)
        BY <1>1, <2>4, <3>1
      <4> QED BY <2>4, <3>1, <3>2, <4>1
    <3>3. CASE t = arr
      BY <1>1, <3>3
    <3> QED BY <2>1, <3>2, <3>3 DEF u
  <2>6. Rest
    <3> SUFFICES ASSUME NEW j \in 0 .. MaxLen - 1, j # i
                 PROVE  /\ j < Len(seen) /\ seen[j + 1] # Absent => j < Len(then) /\ then[j + 1] = seen[j + 1]
                        /\ j >= Len(seen) /\ j < Len(then) => then[j + 1] = Undef
      OBVIOUS
    <3>1. /\ j + 1 # i + 1 /\ (j + 1) - 1 = j /\ (j < Len(t) => j + 1 \in 1 .. Len(t) /\ j < Len(arr))
          /\ (j < Len(arr) => j + 1 \in 1 .. Len(arr)) /\ (~ (j < Len(t)) => j + 1 > Len(t))
          /\ ~ (j < Len(arr) /\ j >= Len(arr))
      BY <1>1, <2>5
    <3>2. ASSUME j < Len(seen), seen[j + 1] # Absent PROVE j < Len(then) /\ then[j + 1] = seen[j + 1]
      <4>1. j \notin m.deleted /\ seen[j + 1] = arr[j + 1]
        BY <1>2, <3>1, <3>2
      <4>2. j \notin n.deleted
        BY <2>1, <3>1, <4>1
      <4>3. j < Len(t)
        BY <1>2, <2>5, <3>1, <3>2, <4>2
      <4>4. t[j + 1] = arr[j + 1]
        BY <2>5, <3>1, <4>3
      <4> QED BY <2>3, <3>1, <4>1, <4>2, <4>3, <4>4
    <3> QED BY <1>2, <2>3, <3>1, <3>2
  <2> QED BY <1>1, <1>3, <2>1, <2>6 DEF seen, then
<1> QED BY <1>4, <1>5 DEF IsLocal

\* What is kept of a slot is kept when one change more leaves it alone, but for what is
\* absent from it.
LEMMA SlotAgain ==
    ASSUME NEW b \in ViewSeqs, NEW j \in 0 .. MaxLen - 1, NEW seen \in ViewSeqs,
           NEW then \in ViewSeqs, SlotKept(b, j, seen),
           j < Len(seen) /\ seen[j + 1] # Absent => j < Len(then) /\ then[j + 1] = seen[j + 1],
           j >= Len(seen) /\ j < Len(then) => then[j + 1] = Undef
    PROVE  SlotKept(b, j, then)
<1>1. Len(b) \in Nat /\ Len(seen) \in Nat /\ Len(then) \in Nat /\ MaxLen \in Nat /\ j \in Nat
  BY NotAbsent, LenProperties DEF ViewSeqs
<1>2. ASSUME Present(b, j) PROVE j < Len(then) /\ then[j + 1] = b[j + 1]
  <2>1. j < Len(seen) /\ seen[j + 1] = b[j + 1] /\ b[j + 1] # Absent
    BY <1>2 DEF SlotKept, Present
  <2> QED BY <2>1
<1>3. ASSUME j >= Len(b), j < Len(then) PROVE then[j + 1] = Undef
  <2>1. CASE j < Len(seen)
    <3>1. seen[j + 1] = Undef /\ Undef # Absent
      BY <1>3, <2>1, NotAbsent, ArraysAssumption DEF SlotKept
    <3> QED BY <2>1, <3>1
  <2>2. CASE ~ (j < Len(seen))
    BY <1>1, <1>3, <2>2
  <2> QED BY <2>1, <2>2
<1> QED BY <1>2, <1>3 DEF SlotKept

\* One more save.
LEMMA LocalKept ==
    ASSUME NEW m, MemOK(m), NEW i \in Ends, i >= 0, NEW n, IsLocal(m, n, i), NEW b \in ViewSeqs,
           NEW saves \in Seq(Elems), Kept(b, saves, Len(saves), Seen(m)), NEW save \in Elems,
           save.i = i, save.old = Old(m, i)
    PROVE  Kept(b, Append(saves, save), Len(saves) + 1, Seen(n))
<1> DEFINE k == Len(saves)
           s == Append(saves, save)
           seen == Seen(m)
           then == Seen(n)
<1>1. /\ Keeps(m, n) /\ i \in 0 .. MaxLen - 1
      /\ Old(m, i) = IF i < Len(seen) THEN seen[i + 1] ELSE Absent
      /\ \A j \in 0 .. MaxLen - 1 : j # i =>
            /\ j < Len(seen) /\ seen[j + 1] # Absent => j < Len(then) /\ then[j + 1] = seen[j + 1]
            /\ j >= Len(seen) /\ j < Len(then) => then[j + 1] = Undef
  BY LocalSlots
<1>2. /\ k \in Nat /\ Len(seen) \in Nat /\ Len(b) \in Nat /\ MaxLen \in Nat
      /\ seen \in ViewSeqs /\ then \in ViewSeqs
  <2>1. seen \in ViewSeqs /\ then \in ViewSeqs
    BY <1>1, SeenSeq DEF Keeps
  <2> QED BY <2>1, NotAbsent, LenProperties DEF ViewSeqs
<1>3. s[k + 1] = save /\ \A j \in 1 .. k : s[j] = saves[j]
  BY AppendToSeq
<1>4. \A j \in 1 .. k + 1 : j = k + 1 \/ j \in 1 .. k
  BY <1>2
<1>5. \A j \in 1 .. k : j \in 1 .. k + 1 /\ (\A l \in 1 .. j - 1 : l \in 1 .. k)
  BY <1>2
<1>6. Kept(b, saves, k, seen)
  OBVIOUS
<1> HIDE DEF k, s, seen, then
<1>7. ASSUME NEW j \in 0 .. MaxLen - 1, \A l \in 1 .. k + 1 : s[l].i # j PROVE SlotKept(b, j, then)
  <2>1. \A l \in 1 .. k : saves[l].i # j
    BY <1>3, <1>5, <1>7
  <2>2. SlotKept(b, j, seen)
    BY <1>6, <2>1 DEF Kept
  <2>3. k + 1 \in 1 .. k + 1
    BY <1>2
  <2>4. j # i
    BY <1>3, <1>7, <2>3
  <2>5. /\ j < Len(seen) /\ seen[j + 1] # Absent => j < Len(then) /\ then[j + 1] = seen[j + 1]
        /\ j >= Len(seen) /\ j < Len(then) => then[j + 1] = Undef
    BY <1>1, <2>4
  <2> QED BY <1>2, <2>2, <2>5, SlotAgain
<1>8. ASSUME NEW j \in 1 .. k, FirstOf(s, j) PROVE SaveOf(b, s[j])
  <2>1. FirstOf(saves, j)
    BY <1>3, <1>5, <1>8 DEF FirstOf
  <2> QED BY <1>3, <1>6, <2>1 DEF Kept
<1>9. ASSUME FirstOf(s, k + 1) PROVE SaveOf(b, save)
  <2>1. (k + 1) - 1 = k
    BY <1>2
  <2>2. \A l \in 1 .. k : saves[l].i # i
    BY <1>3, <1>9, <2>1 DEF FirstOf
  <2>3. SlotKept(b, i, seen)
    BY <1>1, <1>6, <2>2 DEF Kept
  <2>4. SaveOf(b, save) <=> /\ Present(b, i) => Old(m, i) = b[i + 1]
                            /\ i >= Len(b) => Old(m, i) \in {Absent, Undef}
    BY DEF SaveOf
  <2> QED BY <1>1, <2>3, <2>4 DEF SlotKept
<1>10. \A j \in 1 .. k + 1 : s[j].i \in 0 .. MaxLen - 1
  BY <1>1, <1>3, <1>4, <1>6 DEF Kept
<1>11. \A j \in 1 .. k + 1 : FirstOf(s, j) => SaveOf(b, s[j])
  BY <1>3, <1>4, <1>8, <1>9
<1>12. Kept(b, s, k + 1, then)
  BY <1>7, <1>10, <1>11 DEF Kept
<1> QED BY <1>12 DEF k, s, then

\* The length that the end of the block goes back to.
LenKept(b, saves, len, seen) ==
    /\ saves = <<>> <=> len = -1
    /\ saves # <<>> => \A i \in 0 .. MaxLen - 1 : Present(b, i) => i < len
    /\ Dense(b) => IF saves = <<>> THEN Len(seen) = Len(b) ELSE len = Len(b)
AllKept(b, seen) == \A i \in 0 .. MaxLen - 1 : SlotKept(b, i, seen)

LEMMA NoSaves ==
    ASSUME NEW b, NEW saves, NEW seen PROVE Kept(b, saves, 0, seen) <=> AllKept(b, seen)
<1>1. 1 .. 0 = {}
  OBVIOUS
<1> QED BY <1>1 DEF Kept, AllKept

LEMMA LenAgain ==
    ASSUME NEW b \in ViewSeqs, NEW seen \in ViewSeqs, NEW saves \in Seq(Elems), NEW save \in Elems,
           NEW len \in -1 .. MaxLen, Kept(b, saves, Len(saves), seen), LenKept(b, saves, len, seen),
           NEW then
    PROVE  LenKept(b, Append(saves, save), IF len = -1 THEN Len(seen) ELSE len, then)
<1> DEFINE s == Append(saves, save)
           n == IF len = -1 THEN Len(seen) ELSE len
<1>1. Len(seen) \in Nat /\ MaxLen \in Nat
  BY NotAbsent, LenProperties DEF ViewSeqs
<1>2. s # <<>> /\ n # -1
  BY <1>1, AppendToSeq
<1>3. ASSUME NEW i \in 0 .. MaxLen - 1, Present(b, i) PROVE i < n
  <2>1. CASE saves = <<>>
    <3>1. Kept(b, saves, 0, seen) /\ len = -1
      BY <2>1 DEF LenKept
    <3>2. SlotKept(b, i, seen)
      BY <3>1, NoSaves DEF AllKept
    <3> QED BY <1>3, <3>1, <3>2 DEF SlotKept
  <2>2. CASE saves # <<>>
    BY <1>3, <2>2 DEF LenKept
  <2> QED BY <2>1, <2>2
<1>4. Dense(b) => n = Len(b)
  BY DEF LenKept
<1> HIDE DEF n, s
<1> QED BY <1>2, <1>3, <1>4 DEF LenKept, s, n

\* All saves are undone, the last first.
LEMMA ElemsBackKept ==
    ASSUME NEW m, MemOK(m), NEW b \in ViewSeqs, NEW saves \in Seq(Elems),
           Kept(b, saves, Len(saves), Seen(m))
    PROVE  LET n == ElemsBack(m, saves)
           IN AllKept(b, Seen(n)) /\ (saves # <<>> => n.deleted = {})
<1> DEFINE s == Reverse(saves)
           n == Len(saves)
<1>1. s \in Seq(Elems) /\ Len(s) = n /\ n \in Nat /\ \A i \in 1 .. n : s[i] = saves[n - i + 1]
  BY ReverseOfSeq, LenProperties
<1>2. ElemsBack(m, saves) = InTurn(RestoreElem, m, s)
  BY DEF ElemsBack, Undo
<1>3. saves # <<>> <=> n # 0
  OBVIOUS
<1>4. Kept(b, saves, n, Seen(m))
  OBVIOUS
<1> HIDE DEF s
<1>5. PICK r : /\ r[0] = m /\ InTurn(RestoreElem, m, s) = r[Len(s)]
               /\ \A i \in 1 .. Len(s) : r[i] = RestoreElem(r[i - 1], s[i])
               /\ \A i \in 0 .. Len(s) : Leaves(m, r[i])
  BY <1>1, ElemsRun
<1> DEFINE T == {i \in 0 .. n : Kept(b, saves, n - i, Seen(r[i])) /\ (i # 0 => r[i].deleted = {})}
<1>6. 0 \in T
  <2>1. n - 0 = n /\ 0 \in 0 .. n
    BY <1>1
  <2> QED BY <1>4, <1>5, <2>1
<1>7. ASSUME NEW i \in 1 .. n, i - 1 \in T PROVE i \in T
  <2> DEFINE x == r[i - 1]
             k == n - i + 1
  <2>1. i - 1 \in 0 .. n /\ k \in 1 .. n /\ n - (i - 1) = k /\ k - 1 = n - i /\ i \in 0 .. n /\ i \in 1 .. Len(s)
        /\ i - 1 \in 0 .. Len(s)
    BY <1>1
  <2>2. MemOK(x)
    BY <1>5, <2>1 DEF Leaves, Keeps
  <2>3. Kept(b, saves, k, Seen(x)) /\ r[i] = RestoreElem(x, saves[k])
    BY <1>1, <1>5, <1>7, <2>1
  <2>4. k \in 1 .. Len(saves)
    BY <2>1
  <2> HIDE DEF x, k, n
  <2>5. Kept(b, saves, k - 1, Seen(r[i])) /\ r[i].deleted = {}
    BY <2>2, <2>3, <2>4, UndoKept
  <2> QED BY <2>1, <2>5
<1> HIDE DEF T
<1>8. \A i \in 0 .. n : i \in T
  BY <1>1, <1>6, <1>7, CountUp
<1>9. n \in T /\ n - n = 0
  BY <1>1, <1>8
<1>10. Kept(b, saves, 0, Seen(r[n])) /\ (n # 0 => r[n].deleted = {})
  BY <1>9 DEF T
<1> QED BY <1>1, <1>2, <1>3, <1>5, <1>10, NoSaves

\* A dense view of which every slot is kept, and the length, is there again.
LEMMA SameView ==
    ASSUME NEW b \in ViewSeqs, NEW seen \in ViewSeqs, Dense(b), AllKept(b, seen), Len(seen) = Len(b)
    PROVE  seen = b
<1>1. Len(b) \in Nat /\ Len(b) <= MaxLen /\ MaxLen \in Nat /\ DOMAIN b = 1 .. Len(b)
      /\ b \in Seq(Values \cup {Absent}) /\ seen \in Seq(Values \cup {Absent})
  BY NotAbsent, LenProperties DEF ViewSeqs
<1>2. ASSUME NEW j \in 1 .. Len(b) PROVE seen[j] = b[j]
  <2>1. j - 1 \in 0 .. MaxLen - 1 /\ j - 1 < Len(b) /\ (j - 1) + 1 = j
    BY <1>1
  <2>2. Present(b, j - 1)
    BY <1>1, <2>1 DEF Present, Dense
  <2>3. SlotKept(b, j - 1, seen)
    BY <2>1 DEF AllKept
  <2> QED BY <2>1, <2>2, <2>3 DEF SlotKept
<1> QED BY <1>1, <1>2

LEMMA DenseLast ==
    ASSUME NEW b \in ViewSeqs, Dense(b), Len(b) # 0, NEW j, j = Len(b) - 1
    PROVE  j \in 0 .. MaxLen - 1 /\ j < Len(b) /\ Present(b, j)
<1>1. DOMAIN b = 1 .. Len(b) /\ Len(b) \in Nat
  BY ViewDomain
<1>2. Len(b) <= MaxLen /\ MaxLen \in Nat
  BY NotAbsent DEF ViewSeqs
<1>3. j \in 0 .. MaxLen - 1 /\ j < Len(b) /\ j + 1 \in DOMAIN b
  BY <1>1, <1>2
<1> QED BY <1>3 DEF Dense, Present

\* Then what an assignment beyond the end added is taken off.
LEMMA RestoreLenKept ==
    ASSUME NEW m, MemOK(m), NEW b \in ViewSeqs, NEW len \in -1 .. MaxLen, AllKept(b, Seen(m)),
           len # -1 => m.deleted = {} /\ \A i \in 0 .. MaxLen - 1 : Present(b, i) => i < len,
           Dense(b) => IF len = -1 THEN Len(Seen(m)) = Len(b) ELSE len = Len(b)
    PROVE  LET n == RestoreLen(m, len)
           IN AllKept(b, Seen(n)) /\ (Dense(b) => Seen(n) = b)
<1> DEFINE n == RestoreLen(m, len)
           arr == GetArray(m)
           t == GetArray(n)
           seen == Seen(m)
           then == Seen(n)
           marks == {i \in len .. Len(arr) - 1 : arr[i + 1] = Undef}
<1>1. /\ Leaves(m, n) /\ t = Shortened(arr, m.deleted, len)
      /\ n.deleted = IF len = -1 THEN m.deleted ELSE {}
  BY RestoreLenFacts
<1>2. MemOK(n) /\ arr \in Arr /\ Len(arr) \in Nat
  BY <1>1, GetFacts, ArrSeq DEF Leaves, Keeps
<1>3. /\ seen \in ViewSeqs /\ Len(seen) = Len(arr)
      /\ \A i \in 1 .. Len(arr) : seen[i] = IF i - 1 \in m.deleted THEN Absent ELSE arr[i]
  BY SeenSeq
<1>4. /\ then \in ViewSeqs /\ Len(then) = Len(t)
      /\ \A i \in 1 .. Len(t) : then[i] = IF i - 1 \in n.deleted THEN Absent ELSE t[i]
  BY <1>2, SeenSeq
<1>5. CASE len = -1
  <2>1. n = m
    BY <1>5 DEF RestoreLen
  <2> QED BY <1>3, <1>5, <2>1, SameView
<1>6. CASE len # -1
  <2>1. m.deleted = {} /\ n.deleted = {} /\ t = Trim(arr, marks)
    BY <1>1, <1>6 DEF Shortened
  <2>2. /\ Len(b) \in Nat /\ Len(b) <= MaxLen /\ MaxLen \in Nat /\ len \in Nat /\ len <= MaxLen
    BY <1>6, NotAbsent, LenProperties DEF ViewSeqs
  <2> HIDE DEF n, t, seen, then
  <2>3. /\ t \in Arr /\ Len(t) \in 0 .. Len(arr) /\ \A j \in 1 .. Len(t) : t[j] = arr[j]
        /\ \A j \in 1 .. Len(arr) : j > Len(t) => j - 1 \in marks
        /\ Len(t) = 0 \/ Len(t) - 1 \notin marks
    <3> HIDE DEF marks, arr
    <3> QED BY <1>2, <2>1, TrimFacts
  <2>4. ASSUME NEW i \in 0 .. MaxLen - 1 PROVE SlotKept(b, i, then)
    <3>1. SlotKept(b, i, seen)
      BY DEF AllKept, seen
    <3>2. ASSUME i < Len(arr) PROVE i + 1 \in 1 .. Len(arr) /\ (i + 1) - 1 = i /\ seen[i + 1] = arr[i + 1]
      <4>1. i + 1 \in 1 .. Len(arr) /\ (i + 1) - 1 = i
        BY <1>2, <3>2
      <4> QED BY <1>3, <2>1, <4>1
    <3>3. ASSUME i < Len(t) PROVE i < Len(arr) /\ then[i + 1] = arr[i + 1]
      <4>1. i + 1 \in 1 .. Len(t) /\ i < Len(arr)
        BY <1>2, <2>3, <3>3
      <4> QED BY <1>4, <2>1, <2>3, <4>1
    <3>4. ASSUME Present(b, i) PROVE i < Len(then) /\ then[i + 1] = b[i + 1]
      <4>1. i < Len(arr) /\ arr[i + 1] = b[i + 1] /\ i < len
        BY <1>3, <1>6, <3>1, <3>2, <3>4 DEF SlotKept
      <4>2. i \notin marks
        BY <2>2, <4>1
      <4>3. ~ (i + 1 > Len(t))
        BY <2>3, <3>2, <4>1, <4>2
      <4>4. i < Len(t)
        BY <1>2, <2>3, <4>3
      <4> QED BY <1>4, <3>3, <4>1, <4>4
    <3>5. ASSUME i >= Len(b), i < Len(then) PROVE then[i + 1] = Undef
      BY <1>3, <1>4, <3>1, <3>2, <3>3, <3>5 DEF SlotKept
    <3> QED BY <3>4, <3>5 DEF SlotKept
  <2>5. AllKept(b, then)
    BY <2>4 DEF AllKept
  <2>6. ASSUME Dense(b) PROVE Len(then) = Len(b)
    <3>1. len = Len(b)
      BY <1>6, <2>6
    <3>2. Len(t) >= Len(b)
      <4>1. CASE Len(b) = 0
        BY <1>2, <2>3, <4>1
      <4>2. CASE Len(b) # 0
        <5> DEFINE j == Len(b) - 1
        <5>1. j \in 0 .. MaxLen - 1 /\ j < Len(b) /\ Present(b, j)
          BY <2>6, <4>2, DenseLast
        <5>2. j < Len(then)
          BY <2>4, <5>1 DEF SlotKept
        <5> QED BY <1>2, <1>4, <2>2, <2>3, <5>2
      <4> QED BY <4>1, <4>2
    <3>3. ASSUME Len(t) > Len(b) PROVE FALSE
      <4> DEFINE j == Len(t) - 1
      <4>1. /\ j \in 0 .. MaxLen - 1 /\ j >= Len(b) /\ j < Len(t) /\ j + 1 \in 1 .. Len(t) /\ Len(t) # 0
            /\ j \in len .. Len(arr) - 1
        <5>1. Len(arr) <= MaxLen
          BY <1>2, ArrSeq
        <5> QED BY <1>2, <2>2, <2>3, <3>1, <3>3, <5>1
      <4>2. then[j + 1] = Undef
        BY <1>4, <2>4, <4>1 DEF SlotKept
      <4>3. arr[j + 1] = Undef
        BY <1>4, <2>1, <2>3, <4>1, <4>2
      <4>4. j \in marks
        BY <4>1, <4>3
      <4> QED BY <2>3, <4>1, <4>4
    <3> QED BY <1>2, <1>4, <2>2, <2>3, <3>2, <3>3
  <2> QED BY <1>4, <2>5, <2>6, SameView DEF then, n
<1> QED BY <1>5, <1>6

\* The end of a block that `local`s alone have touched.
LocalsOnly(m) ==
    LET top == m.frames[Depth(m)]
    IN top.a = Absent /\ top.whole = <<>> /\ top.back = m.pkg
LEMMA CloseKept ==
    ASSUME NEW m, MemOK(m), Depth(m) > 1, LocalsOnly(m), NEW b \in ViewSeqs, NEW saves, NEW len,
           saves = m.frames[Depth(m)].elems, len = m.frames[Depth(m)].len,
           Kept(b, saves, Len(saves), Seen(m)), LenKept(b, saves, len, Seen(m))
    PROVE  LET n == CloseBlock(m)
           IN /\ AllKept(b, Seen(n)) /\ (Dense(b) => Seen(n) = b) /\ n.pkg = m.pkg
              /\ \A d \in 1 .. Depth(m) - 1 :
                    /\ n.frames[d].a = Absent <=> m.frames[d].a = Absent
                    /\ n.frames[d].back = m.frames[d].back /\ n.frames[d].elems = m.frames[d].elems
                    /\ n.frames[d].len = m.frames[d].len /\ n.frames[d].whole = m.frames[d].whole
<1> DEFINE d == Depth(m)
           p == Popped(m)
           e == Undone(m)
           l == Closing(m)
           n == CloseBlock(m)
           top == m.frames[d]
<1>1. /\ top \in Scopes /\ n = Elsewhere(l, m.pkg) /\ Outer(m) = p
      /\ Leaves(p, e) /\ Leaves(e, l) /\ MemOK(n)
  BY CloseFacts DEF LocalsOnly
<1>2. saves \in Seq(Elems) /\ len \in -1 .. MaxLen
  BY <1>1 DEF Scopes
<1>3. d \notin Lexical(m)
  BY DEF Lexical, LocalsOnly
<1>4. Here(p) = Here(m) /\ GetArray(p) = GetArray(m)
  BY <1>3, PoppedGood
<1>5. /\ MemOK(p) /\ Depth(p) = d - 1 /\ p.deleted = m.deleted /\ p.pkg = m.pkg
      /\ \A c \in 1 .. d - 1 : p.frames[c] = m.frames[c]
  BY PoppedFacts
<1>6. e = ElemsBack(p, saves) /\ l = RestoreLen(e, len)
  BY <1>1 DEF Undone, Closing
<1>7. Seen(p) = Seen(m)
  BY <1>4, <1>5 DEF Seen, Exists
<1>8. l.pkg = m.pkg /\ MemOK(l) /\ MemOK(e)
  BY <1>1, <1>5 DEF Leaves, Keeps, Alike
<1>9. n = l
  BY <1>1, <1>8 DEF Elsewhere, MemOK, Mem
<1> HIDE DEF p, e, l, n
<1>10. Kept(b, saves, Len(saves), Seen(p))
  BY <1>7
<1>11. AllKept(b, Seen(e)) /\ (saves # <<>> => e.deleted = {})
  BY <1>2, <1>5, <1>6, <1>10, ElemsBackKept
<1>12. /\ len # -1 => e.deleted = {} /\ \A i \in 0 .. MaxLen - 1 : Present(b, i) => i < len
       /\ Dense(b) => IF len = -1 THEN Len(Seen(e)) = Len(b) ELSE len = Len(b)
  <2>1. saves = <<>> => e = p
    BY <1>2, <1>5, <1>6, ElemsBackFacts
  <2> QED BY <1>7, <1>11, <2>1 DEF LenKept
<1>13. AllKept(b, Seen(l)) /\ (Dense(b) => Seen(l) = b)
  BY <1>2, <1>6, <1>8, <1>11, <1>12, RestoreLenKept
<1>14. \A c \in 1 .. d - 1 :
          /\ l.frames[c].a = Absent <=> m.frames[c].a = Absent
          /\ l.frames[c].back = m.frames[c].back /\ l.frames[c].elems = m.frames[c].elems
          /\ l.frames[c].len = m.frames[c].len /\ l.frames[c].whole = m.frames[c].whole
  <2>1. Depth(p) = d - 1 /\ Depth(e) = d - 1
    BY <1>1, <1>5 DEF Leaves, Keeps, Alike
  <2> QED BY <1>1, <1>5, <2>1 DEF Leaves, Keeps, Alike, SameSaves
<1> QED BY <1>8, <1>9, <1>13, <1>14 DEF n

\* What a block keeps, the block inside it gives back.
LEMMA KeptAgain ==
    ASSUME NEW b \in ViewSeqs, NEW c \in ViewSeqs, NEW seen \in ViewSeqs, NEW saves \in Seq(Elems),
           NEW len, Kept(b, saves, Len(saves), c), LenKept(b, saves, len, c), AllKept(c, seen),
           Dense(c) => seen = c
    PROVE  Kept(b, saves, Len(saves), seen) /\ LenKept(b, saves, len, seen)
<1>1. /\ Len(b) \in Nat /\ Len(c) \in Nat /\ Len(seen) \in Nat /\ MaxLen \in Nat /\ Len(b) <= MaxLen
      /\ DOMAIN b = 1 .. Len(b) /\ DOMAIN c = 1 .. Len(c)
  BY NotAbsent, LenProperties DEF ViewSeqs
<1>2. ASSUME NEW i \in 0 .. MaxLen - 1, SlotKept(b, i, c) PROVE SlotKept(b, i, seen)
  <2>1. SlotKept(c, i, seen)
    BY DEF AllKept
  <2>2. /\ i < Len(c) /\ c[i + 1] # Absent => i < Len(seen) /\ seen[i + 1] = c[i + 1]
        /\ i >= Len(c) /\ i < Len(seen) => seen[i + 1] = Undef
    BY <2>1 DEF SlotKept, Present
  <2> QED BY <1>2, <2>2, SlotAgain
<1>3. Kept(b, saves, Len(saves), seen)
  BY <1>2 DEF Kept
<1>4. ASSUME Dense(b), saves = <<>> PROVE Len(seen) = Len(b)
  <2>1. Len(c) = Len(b) /\ Kept(b, saves, 0, c)
    BY <1>4 DEF LenKept
  <2>2. AllKept(b, c)
    BY <2>1, NoSaves
  <2>3. c = b
    BY <1>4, <2>1, <2>2, SameView
  <2> QED BY <1>4, <2>3
<1>5. LenKept(b, saves, len, seen)
  BY <1>4 DEF LenKept
<1> QED BY <1>3, <1>5

\* What an open block sees at its end, or the one inside it found.
SeenIn(d) == IF d = Depth(mem) THEN Seen(mem) ELSE before[d + 1]
\* A block that only localized has no array, no `local @a` and no package of its own, nor
\* have the blocks in it; and what changed since it began is in its saves.
BlockKept(d) ==
    LET f == mem.frames[d]
    IN /\ before[d] \in ViewSeqs
       /\ f.a = Absent /\ f.whole = <<>> /\ f.back = mem.pkg
       /\ \A e \in d .. Depth(mem) : ~ tainted[e]
       /\ Kept(before[d], f.elems, Len(f.elems), SeenIn(d))
       /\ LenKept(before[d], f.elems, f.len, SeenIn(d))
BlocksKept == \A d \in 2 .. Depth(mem) : ~ tainted[d] => BlockKept(d)

\* The same for a block: what it says of the next state's frames and histories.
LEMMA KeptPrimed ==
    ASSUME NEW d
    PROVE  LET b == before'[d]
               g == mem'.frames[d]
           IN BlockKept(d)' <=> /\ b \in ViewSeqs /\ g.a = Absent /\ g.whole = <<>> /\ g.back = mem'.pkg
                                /\ \A e \in d .. Depth(mem') : ~ tainted'[e]
                                /\ Kept(b, g.elems, Len(g.elems), SeenIn(d)')
                                /\ LenKept(b, g.elems, g.len, SeenIn(d)')
BY DEF BlockKept, Kept, LenKept, FirstOf, SaveOf, SlotKept, Present, Dense, ViewSeqs, Values, Depth
LEMMA SeenInPrimed ==
    ASSUME NEW d
    PROVE  SeenIn(d)' = IF d = Depth(mem') THEN Seen(mem') ELSE before'[d + 1]
BY SeenPrimed DEF SeenIn, Depth

LEMMA KeptInit == Init => BlocksKept
<1> SUFFICES ASSUME Init PROVE BlocksKept
  OBVIOUS
<1>1. Depth(mem) = 1
  BY DEF Init, Depth
<1> QED BY <1>1 DEF BlocksKept

LEMMA ElemsOf ==
    ASSUME NEW m, MemOK(m), NEW d \in 1 .. Depth(m)
    PROVE  /\ m.frames[d] \in Scopes /\ m.frames[d].elems \in Seq(Elems)
           /\ m.frames[d].len \in -1 .. MaxLen
<1>1. m.frames[d] \in Scopes
  BY Parts DEF MemOK
<1> QED BY <1>1 DEF Scopes

\* A `local` of an element.
LEMMA KeptLocal ==
    ASSUME TypeInv, BlocksKept, NEW i \in Ends, i >= 0, IsLocal(mem, mem', i),
           before' = before, tainted' = tainted
    PROVE  BlocksKept'
<1> DEFINE m == mem
           n == mem'
           D == Depth(m)
<1>1. MemOK(m) /\ D \in Nat
  BY Parts DEF TypeInv, MemOK
<1>2. Keeps(m, n) /\ Saving(m, n, i) /\ i \in 0 .. MaxLen - 1
  BY <1>1, LocalSlots
<1>3. /\ MemOK(n) /\ Depth(n) = D /\ n.pkg = m.pkg
      /\ \A d \in 1 .. D : m.frames[d].a = Absent <=> n.frames[d].a = Absent
  BY <1>2 DEF Keeps, Alike
<1>4. Seen(m) \in ViewSeqs /\ Len(Seen(m)) = Len(GetArray(m))
  BY <1>1, SeenSeq
<1> SUFFICES ASSUME NEW d \in 2 .. D, ~ tainted[d] PROVE BlockKept(d)'
  BY <1>3 DEF BlocksKept, Depth
<1> DEFINE f == m.frames[d]
           g == n.frames[d]
           b == before[d]
<1>5. /\ b \in ViewSeqs /\ f.a = Absent /\ f.whole = <<>> /\ f.back = m.pkg
      /\ \A e \in d .. D : ~ tainted[e]
      /\ Kept(b, f.elems, Len(f.elems), SeenIn(d)) /\ LenKept(b, f.elems, f.len, SeenIn(d))
  BY DEF BlocksKept, BlockKept
<1>6. d \in 1 .. D /\ g.a = Absent /\ g.whole = <<>> /\ g.back = n.pkg
  <2>1. d \in 1 .. D
    BY <1>1
  <2> QED BY <1>2, <1>3, <1>5, <2>1 DEF Saving
<1>7. /\ SeenIn(d) = IF d = D THEN Seen(m) ELSE before[d + 1]
      /\ SeenIn(d)' = IF d = D THEN Seen(n) ELSE before[d + 1]
  BY <1>3, SeenInPrimed DEF SeenIn
<1>8. BlockKept(d)' <=> /\ b \in ViewSeqs /\ g.a = Absent /\ g.whole = <<>> /\ g.back = n.pkg
                        /\ \A e \in d .. Depth(n) : ~ tainted[e]
                        /\ Kept(b, g.elems, Len(g.elems), SeenIn(d)')
                        /\ LenKept(b, g.elems, g.len, SeenIn(d)')
  BY KeptPrimed
<1>9. CASE d # D
  <2>1. g.elems = f.elems /\ g.len = f.len
    BY <1>2, <1>6, <1>9 DEF Saving
  <2> QED BY <1>3, <1>5, <1>6, <1>7, <1>8, <1>9, <2>1
<1>10. CASE d = D
  <2> DEFINE save == [i |-> i, old |-> Old(m, i)]
  <2>1. /\ g.elems = Append(f.elems, save)
        /\ g.len = IF f.len = -1 THEN Len(Seen(m)) ELSE f.len
    BY <1>2, <1>4, <1>10 DEF Saving
  <2>2. f.elems \in Seq(Elems) /\ f.len \in -1 .. MaxLen /\ g.elems \in Seq(Elems)
    BY <1>1, <1>3, <1>6, ElemsOf
  <2>3. save \in Elems /\ save.i = i /\ save.old = Old(m, i)
    <3> DEFINE xs == f.elems
               ys == g.elems
    <3>1. xs \in Seq(Elems) /\ ys = Append(xs, save) /\ save.i = i /\ save.old = Old(m, i)
      BY <2>1, <2>2
    <3> HIDE DEF xs, ys, save
    <3>2. Len(ys) = Len(xs) + 1 /\ ys[Len(xs) + 1] = save /\ Len(xs) \in Nat
      BY <3>1
    <3>3. Len(g.elems) \in 1 .. Len(g.elems) /\ g.elems[Len(f.elems) + 1] = save /\ Len(g.elems) = Len(f.elems) + 1
      BY <3>2 DEF xs, ys
    <3>4. g.elems[Len(g.elems)] \in Elems
      BY <2>2, <3>3, ElementOfSeq
    <3> QED BY <3>1, <3>3, <3>4
  <2> DEFINE saves == f.elems
             k == Len(saves)
             len == f.len
  <2>4. Len(g.elems) = k + 1
    BY <2>1, <2>2
  <2>5. Kept(b, saves, Len(saves), Seen(m)) /\ LenKept(b, saves, len, Seen(m))
    BY <1>5, <1>7, <1>10
  <2> HIDE DEF save, saves, len, b, m, n
  <2>6. Kept(b, Append(saves, save), Len(saves) + 1, Seen(n))
    BY <1>1, <1>5, <2>2, <2>3, <2>5, LocalKept DEF m, n, saves
  <2>7. LenKept(b, Append(saves, save), IF len = -1 THEN Len(Seen(m)) ELSE len, Seen(n))
    BY <1>4, <1>5, <2>2, <2>3, <2>5, LenAgain DEF saves, len
  <2> QED BY <1>3, <1>5, <1>6, <1>7, <1>8, <1>10, <2>1, <2>4, <2>6, <2>7 DEF saves, len
<1> QED BY <1>9, <1>10

\* The innermost block opens or closes, and the others are as they were.
LEMMA KeptPush ==
    ASSUME TypeInv, BlocksKept, OpenBlock
    PROVE  BlocksKept'
<1> DEFINE m == mem
           n == Pushed(mem)
           D == Depth(m)
           v == Seen(m)
<1>1. MemOK(m) /\ D \in Nat /\ D >= 1
  BY Parts, LexicalFacts DEF TypeInv, MemOK
<1>2. /\ mem' = n /\ before' = Append(before, v) /\ tainted' = Append(tainted, FALSE)
      /\ Depth(m) < MaxDepth
  BY DEF OpenBlock, Pushed
<1>3. /\ MemOK(n) /\ Depth(n) = D + 1 /\ n.pkg = m.pkg /\ n.deleted = m.deleted /\ n.heap = m.heap
      /\ n.plain = m.plain /\ n.shared = m.shared /\ Lexical(n) = Lexical(m)
      /\ \A d \in 1 .. D : n.frames[d] = m.frames[d]
      /\ n.frames[D + 1] = Frame(m.pkg)
  BY <1>1, <1>2, PushedFacts
<1>4. v \in ViewSeqs
  BY <1>1, SeenSeq
<1>5. /\ before'[D + 1] = v /\ tainted'[D + 1] = FALSE
      /\ \A d \in 1 .. D : before'[d] = before[d] /\ tainted'[d] = tainted[d]
  <2>1. /\ before \in Seq(Views) /\ Len(before) = D /\ v \in Views
        /\ tainted \in Seq(BOOLEAN) /\ Len(tainted) = D /\ FALSE \in BOOLEAN
    BY <1>1, SeenType DEF TypeInv
  <2> HIDE DEF v, D
  <2>2. before'[D + 1] = v /\ \A d \in 1 .. D : before'[d] = before[d]
    BY <1>2, <2>1, AppendToSeq
  <2>3. tainted'[D + 1] = FALSE /\ \A d \in 1 .. D : tainted'[d] = tainted[d]
    <3> DEFINE no == FALSE
    <3>1. no \in BOOLEAN /\ tainted' = Append(tainted, no)
      BY <1>2
    <3>2. no = FALSE
      OBVIOUS
    <3> HIDE DEF no
    <3>3. tainted'[D + 1] = no /\ \A d \in 1 .. D : tainted'[d] = tainted[d]
      BY <2>1, <3>1, AppendToSeq
    <3> QED BY <3>2, <3>3
  <2> QED BY <2>2, <2>3
<1>6. Seen(n) = v
  <2>1. Here(n) = Here(m)
    BY <1>3 DEF Here, Place, Cells
  <2>2. At(n, Here(m)) = At(m, Here(m)) /\ At(n, Plain("main")) = At(m, Plain("main"))
    <3>1. IsPlace(m, Here(m))
      BY <1>1, GetFacts
    <3>2. Here(m).kind = "frame" => Here(m).key \in 1 .. D
      BY <3>1 DEF IsPlace, Frames, Cell, Plain, Lexical
    <3> QED BY <1>3, <3>2 DEF At, Plain
  <2>3. GetArray(n) = GetArray(m)
    BY <2>1, <2>2 DEF GetArray, ArrayAt, Here
  <2> QED BY <1>3, <2>3 DEF Seen, Exists
<1> HIDE DEF n, v
<1>7. SUFFICES ASSUME NEW d \in 2 .. D + 1, ~ tainted'[d] PROVE BlockKept(d)'
  BY <1>2, <1>3 DEF BlocksKept, Depth
<1> DEFINE g == n.frames[d]
           b == before'[d]
           c == IF d = D + 1 THEN v ELSE before'[d + 1]
<1>8. SeenIn(d)' = c
  <2>1. Seen(mem') = Seen(n) /\ Depth(mem') = D + 1
    BY <1>2, <1>3
  <2>2. SeenIn(d)' = IF d = Depth(mem') THEN Seen(mem') ELSE before'[d + 1]
    BY SeenInPrimed
  <2> QED BY <1>6, <2>1, <2>2
<1>9. BlockKept(d)' <=> /\ b \in ViewSeqs /\ g.a = Absent /\ g.whole = <<>> /\ g.back = n.pkg
                        /\ \A e \in d .. D + 1 : ~ tainted'[e]
                        /\ Kept(b, g.elems, Len(g.elems), SeenIn(d)')
                        /\ LenKept(b, g.elems, g.len, SeenIn(d)')
  <2>1. mem' = n /\ Depth(mem') = D + 1
    BY <1>2, <1>3
  <2> HIDE DEF D
  <2> QED BY <2>1, KeptPrimed
<1>10. CASE d = D + 1
  <2>1. b = v /\ c = v /\ g = Frame(n.pkg)
    BY <1>3, <1>5, <1>10
  <2>2. g.a = Absent /\ g.whole = <<>> /\ g.back = n.pkg /\ g.elems = <<>> /\ g.len = -1
    BY <2>1 DEF Frame
  <2>3. AllKept(v, v)
    <3>1. Len(v) \in Nat
      BY <1>4, LenProperties DEF ViewSeqs
    <3>2. \A i \in 0 .. MaxLen - 1 : SlotKept(v, i, v)
      <4>1. MaxLen \in Nat
        BY NotAbsent
      <4> QED BY <3>1, <4>1 DEF SlotKept, Present
    <3> QED BY <3>2 DEF AllKept
  <2>4. Kept(v, g.elems, Len(g.elems), v)
    <3>1. Len(g.elems) = 0
      BY <2>2
    <3> QED BY <2>3, <3>1, NoSaves
  <2>5. LenKept(v, g.elems, g.len, v)
    BY <2>2 DEF LenKept
  <2>6. \A e \in d .. D + 1 : ~ tainted'[e]
    BY <1>1, <1>5, <1>10
  <2> QED BY <1>4, <1>8, <1>9, <2>1, <2>2, <2>4, <2>5, <2>6
<1>11. CASE d # D + 1
  <2>1. d \in 2 .. D /\ d \in 1 .. D /\ ~ tainted[d] /\ d + 1 \in 2 .. D + 1
    BY <1>1, <1>5, <1>7, <1>11
  <2>2. BlockKept(d)
    BY <2>1 DEF BlocksKept
  <2>3. g = m.frames[d] /\ b = before[d]
    BY <1>3, <1>5, <2>1
  <2>4. c = SeenIn(d)
    <3>1. CASE d = D
      BY <1>5, <1>11, <3>1 DEF SeenIn, v
    <3>2. CASE d # D
      <4>1. d + 1 \in 1 .. D
        BY <1>1, <2>1, <3>2
      <4> QED BY <1>5, <1>11, <3>2, <4>1 DEF SeenIn
    <3> QED BY <3>1, <3>2
  <2>5. \A e \in d .. D + 1 : ~ tainted'[e]
    <3>1. \A e \in d .. D + 1 : e = D + 1 \/ (e \in d .. D /\ e \in 1 .. D)
      BY <1>1, <2>1
    <3>2. \A e \in d .. D : ~ tainted[e]
      BY <2>2 DEF BlockKept
    <3> QED BY <1>5, <3>1, <3>2
  <2> HIDE DEF c, b, g
  <2>6. /\ b \in ViewSeqs /\ g.a = Absent /\ g.whole = <<>> /\ g.back = n.pkg
        /\ Kept(b, g.elems, Len(g.elems), c) /\ LenKept(b, g.elems, g.len, c)
    BY <1>3, <2>2, <2>3, <2>4 DEF BlockKept
  <2> QED BY <1>8, <1>9, <2>5, <2>6 DEF c, b, g
<1> QED BY <1>10, <1>11

\* What holds of the innermost block when it ends.
LEMMA LastKept ==
    ASSUME TypeInv, BlocksKept, Depth(mem) > 1, ~ tainted[Depth(mem)]
    PROVE  LET D == Depth(mem)
               n == CloseBlock(mem)
           IN /\ before[D] \in ViewSeqs /\ AllKept(before[D], Seen(n)) /\ Seen(n) \in ViewSeqs
              /\ (Dense(before[D]) => Seen(n) = before[D]) /\ n.pkg = mem.pkg
              /\ \A d \in 1 .. D - 1 :
                    /\ n.frames[d].a = Absent <=> mem.frames[d].a = Absent
                    /\ n.frames[d].back = mem.frames[d].back /\ n.frames[d].elems = mem.frames[d].elems
                    /\ n.frames[d].len = mem.frames[d].len /\ n.frames[d].whole = mem.frames[d].whole
<1> DEFINE D == Depth(mem)
           f == mem.frames[D]
           n == CloseBlock(mem)
<1>1. MemOK(mem) /\ D \in Nat /\ D \in 2 .. D
  BY Parts DEF TypeInv, MemOK
<1>2. BlockKept(D)
  BY <1>1 DEF BlocksKept
<1>3. /\ before[D] \in ViewSeqs /\ LocalsOnly(mem)
      /\ Kept(before[D], f.elems, Len(f.elems), Seen(mem))
      /\ LenKept(before[D], f.elems, f.len, Seen(mem))
  BY <1>2 DEF BlockKept, LocalsOnly, SeenIn
<1>4. MemOK(n)
  BY <1>1, CloseFacts
<1>5. Seen(n) \in ViewSeqs
  BY <1>4, SeenSeq
<1> HIDE DEF n
<1> QED BY <1>1, <1>3, <1>5, CloseKept DEF n

LEMMA KeptPop ==
    ASSUME TypeInv, BlocksKept, EndBlock
    PROVE  BlocksKept' /\ (OnlyLocals => Seen(mem') = Last(before))
<1> DEFINE D == Depth(mem)
           n == CloseBlock(mem)
           v == Seen(n)
<1>1. MemOK(mem) /\ D \in Nat /\ D > 1
  BY Parts DEF TypeInv, MemOK, EndBlock
<1>2. mem' = n /\ before' = Front(before) /\ tainted' = Front(tainted)
  BY DEF EndBlock
<1>3. /\ before \in Seq(Views) /\ Len(before) = D /\ tainted \in Seq(BOOLEAN) /\ Len(tainted) = D
      /\ before # <<>> /\ tainted # <<>>
  BY <1>1 DEF TypeInv
<1>4. MemOK(n) /\ Depth(n) = D - 1
  BY <1>1, CloseFacts
<1>5. Last(before) = before[D] /\ Last(tainted) = tainted[D]
  BY <1>3 DEF Last
<1>6. \A d \in 1 .. D - 1 : before'[d] = before[d] /\ tainted'[d] = tainted[d]
  <2>1. \A d \in 1 .. D - 1 : before'[d] = before[d]
    BY <1>2, <1>3, FrontOfSeq
  <2>2. \A d \in 1 .. D - 1 : tainted'[d] = tainted[d]
    BY <1>2, <1>3, FrontOfSeq
  <2> QED BY <2>1, <2>2
<1>7. ASSUME ~ tainted[D]
      PROVE  /\ before[D] \in ViewSeqs /\ AllKept(before[D], v) /\ v \in ViewSeqs
             /\ (Dense(before[D]) => v = before[D]) /\ n.pkg = mem.pkg
             /\ \A d \in 1 .. D - 1 :
                   /\ n.frames[d].a = Absent <=> mem.frames[d].a = Absent
                   /\ n.frames[d].back = mem.frames[d].back /\ n.frames[d].elems = mem.frames[d].elems
                   /\ n.frames[d].len = mem.frames[d].len /\ n.frames[d].whole = mem.frames[d].whole
  BY <1>1, <1>7, LastKept
<1>8. OnlyLocals => v = Last(before)
  BY <1>5, <1>7 DEF OnlyLocals
<1>9. Seen(mem') = v
  BY <1>2
<1> HIDE DEF n, v
<1>10. ASSUME NEW d \in 2 .. D - 1, ~ tainted'[d] PROVE BlockKept(d)'
  <2> DEFINE f == mem.frames[d]
             g == n.frames[d]
             b == before'[d]
             c == before[d + 1]
             w == IF d = D - 1 THEN v ELSE before'[d + 1]
  <2>1. SeenIn(d)' = w
    <3>1. Depth(mem') = D - 1
      BY <1>2, <1>4
    <3>2. SeenIn(d)' = IF d = Depth(mem') THEN Seen(mem') ELSE before'[d + 1]
      BY SeenInPrimed
    <3> QED BY <1>9, <3>1, <3>2
  <2>2. BlockKept(d)' <=> /\ b \in ViewSeqs /\ g.a = Absent /\ g.whole = <<>> /\ g.back = n.pkg
                        /\ \A e \in d .. D - 1 : ~ tainted'[e]
                        /\ Kept(b, g.elems, Len(g.elems), SeenIn(d)')
                        /\ LenKept(b, g.elems, g.len, SeenIn(d)')
    <3>1. mem' = n /\ Depth(mem') = D - 1
      BY <1>2, <1>4
    <3> HIDE DEF D
    <3> QED BY <3>1, KeptPrimed
  <2>3. d \in 2 .. D /\ d \in 1 .. D - 1 /\ d \in 1 .. D /\ d # D /\ D \in d .. D /\ d + 1 \in 2 .. D
        /\ (\A e \in d .. D - 1 : e \in 1 .. D - 1 /\ e \in d .. D)
    BY <1>1
  <2>4. BlockKept(d)
    BY <1>6, <1>10, <2>3 DEF BlocksKept
  <2>5. ~ tainted[D] /\ \A e \in d .. D - 1 : ~ tainted'[e]
    BY <1>6, <2>3, <2>4 DEF BlockKept
  <2>6. /\ b \in ViewSeqs /\ b = before[d] /\ f.a = Absent /\ f.whole = <<>> /\ f.back = mem.pkg
        /\ Kept(b, f.elems, Len(f.elems), c) /\ LenKept(b, f.elems, f.len, c)
    BY <1>6, <2>3, <2>4 DEF BlockKept, SeenIn
  <2>7. g.a = Absent /\ g.whole = <<>> /\ g.back = n.pkg /\ g.elems = f.elems /\ g.len = f.len
    BY <1>7, <2>3, <2>5, <2>6
  <2>8. f.elems \in Seq(Elems)
    BY <1>1, <2>3, ElemsOf
  <2>9. Kept(b, f.elems, Len(f.elems), w) /\ LenKept(b, f.elems, f.len, w)
    <3>1. CASE d = D - 1
      <4>1. c = before[D] /\ w = v
        BY <1>1, <3>1
      <4>2. c \in ViewSeqs /\ AllKept(c, v) /\ v \in ViewSeqs /\ (Dense(c) => v = c)
        BY <1>7, <2>5, <4>1
      <4> DEFINE saves == f.elems
                 len == f.len
      <4>3. /\ Kept(b, saves, Len(saves), c) /\ LenKept(b, saves, len, c) /\ saves \in Seq(Elems)
            /\ b \in ViewSeqs
        BY <2>6, <2>8
      <4> HIDE DEF saves, len, b, c
      <4>4. Kept(b, saves, Len(saves), v) /\ LenKept(b, saves, len, v)
        BY <4>2, <4>3, KeptAgain
      <4> QED BY <4>1, <4>4 DEF saves, len
    <3>2. CASE d # D - 1
      <4>1. d + 1 \in 1 .. D - 1
        BY <1>1, <2>3, <3>2
      <4>2. w = c
        BY <1>6, <3>2, <4>1
      <4> QED BY <2>6, <4>2
    <3> QED BY <3>1, <3>2
  <2> HIDE DEF b, f, g, w, c
  <2> QED BY <2>1, <2>2, <2>5, <2>6, <2>7, <2>9
<1>11. BlocksKept'
  <2>1. Depth(mem') = D - 1
    BY <1>2, <1>4
  <2> QED BY <1>10, <2>1 DEF BlocksKept, Depth
<1> QED BY <1>8, <1>9, <1>11

LEMMA KeptStep == TypeInv /\ BlocksKept /\ [Next]_vars => BlocksKept'
<1> SUFFICES ASSUME TypeInv, BlocksKept, [Next]_vars PROVE BlocksKept'
  OBVIOUS
<1>1. MemOK(mem) /\ Depth(mem) \in Nat
  BY Parts DEF TypeInv, MemOK
<1>2. CASE Builtin
  <2>1. PICK op, n : /\ Effect(op, n) /\ Change(op, mem, n)
                     /\ \/ tainted' = Tainted
                        \/ tainted' = tainted /\ \E i \in Ends : i >= 0 /\ IsLocal(mem, n, i)
    BY <1>1, <1>2, BuiltinChange
  <2>2. mem' = n /\ before' = before
    BY <2>1 DEF Effect
  <2>3. CASE tainted' = Tainted
    <3>1. Depth(mem') = Depth(mem)
      BY <1>1, <2>1, <2>2, ChangeType
    <3>2. DOMAIN tainted = 1 .. Depth(mem)
      BY LenProperties DEF TypeInv
    <3>3. \A d \in 2 .. Depth(mem) : tainted'[d]
      BY <1>1, <2>3, <3>2 DEF Tainted
    <3> QED BY <3>1, <3>3 DEF BlocksKept, Depth
  <2>4. CASE tainted' = tainted /\ \E i \in Ends : i >= 0 /\ IsLocal(mem, n, i)
    <3>1. PICK i \in Ends : i >= 0 /\ IsLocal(mem, n, i)
      BY <2>4
    <3>2. IsLocal(mem, mem', i)
      BY <2>2, <3>1
    <3> QED BY <2>2, <2>4, <3>1, <3>2, KeptLocal
  <2> QED BY <2>1, <2>3, <2>4
<1>3. CASE Over \/ UNCHANGED vars
  <2>1. mem' = mem /\ before' = before /\ tainted' = tainted
    BY <1>3 DEF Over, vars
  <2>2. ASSUME NEW d PROVE BlockKept(d)' <=> BlockKept(d)
    <3>1. SeenIn(d)' = SeenIn(d)
      BY <2>1, SeenInPrimed DEF SeenIn
    <3>2. BlockKept(d)' <=>
             LET f == mem.frames[d]
             IN /\ before[d] \in ViewSeqs
                /\ f.a = Absent /\ f.whole = <<>> /\ f.back = mem.pkg
                /\ \A e \in d .. Depth(mem) : ~ tainted[e]
                /\ Kept(before[d], f.elems, Len(f.elems), SeenIn(d)')
                /\ LenKept(before[d], f.elems, f.len, SeenIn(d)')
      BY <2>1, KeptPrimed
    <3> QED BY <3>1, <3>2 DEF BlockKept
  <2> QED BY <2>1, <2>2 DEF BlocksKept, Depth
<1> QED BY <1>2, <1>3, KeptPush, KeptPop DEF Next

\* Only the end of a block makes them fewer.
LEMMA OnlyEnds ==
    ASSUME TypeInv, [Next]_vars, Depth(mem') < Depth(mem) PROVE EndBlock
<1>1. MemOK(mem) /\ Depth(mem) \in Nat
  BY Parts DEF TypeInv, MemOK
<1>2. ASSUME Builtin PROVE FALSE
  <2>1. PICK op, n : Effect(op, n) /\ Change(op, mem, n)
    BY <1>1, <1>2, BuiltinChange
  <2>2. Depth(mem') = Depth(mem)
    BY <1>1, <2>1, ChangeType DEF Effect
  <2> QED BY <1>1, <2>2
<1>3. ASSUME OpenBlock PROVE FALSE
  <2>1. mem' = Pushed(mem) /\ Depth(mem) < MaxDepth
    BY <1>3 DEF OpenBlock, Pushed
  <2>2. Depth(mem') = Depth(mem) + 1
    BY <1>1, <2>1, PushedFacts
  <2> QED BY <1>1, <2>2
<1>4. ASSUME Over \/ UNCHANGED vars PROVE FALSE
  <2>1. Depth(mem') = Depth(mem)
    BY <1>4 DEF Over, vars, Depth
  <2> QED BY <1>1, <2>1
<1> QED BY <1>2, <1>3, <1>4 DEF Next

\* A block that `local $a[i]` and `delete local $a[i]` alone have touched, in any order,
\* repeatedly, beyond the end, and in blocks inside it too, leaves the array as it found
\* it: restore_locals undoes the saves last first and takes off what they added.
THEOREM LocalsUndone == Spec => LocalUndone
<1>1. Init => TypeInv /\ BlocksKept
  BY InitType, KeptInit
<1>2. TypeInv /\ BlocksKept /\ [Next]_vars => (TypeInv /\ BlocksKept)'
  BY TypeStep, KeptStep
<1>3. TypeInv /\ BlocksKept /\ [Next]_vars =>
          [Depth(mem') < Depth(mem) /\ OnlyLocals => Seen(mem') = Last(before)]_vars
  BY OnlyEnds, KeptPop
<1> QED BY <1>1, <1>2, <1>3, PTL DEF Spec, LocalUndone
===============================================================================
