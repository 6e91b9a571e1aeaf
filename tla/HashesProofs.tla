----------------------------- MODULE HashesProofs -----------------------------
(***************************************************************************)
(* What Hashes promises, for every set of keys, values and packages and    *)
(* every depth: types, what is read after a list assignment, that the loop *)
(* of the assignment comes nearer its end with each entry, and that a      *)
(* block puts the elements it localized back.                              *)
(*                                                                         *)
(* The end of a block undoes saves one by one, the last first, and each    *)
(* step looks for the hash anew.  UndoElems and UndoWholes unroll it into  *)
(* the run of memories it goes through; by induction over that run no step *)
(* does more than write to hashes (Writes), and in main the run leads to   *)
(* what the first save of each key says (UndoGives).  The invariant        *)
(* ChainInv says that this is what the block found, for every open block   *)
(* that has done nothing but localize.                                     *)
(***************************************************************************)
EXTENDS Hashes, SequenceLemmas

Sound(m) ==
    /\ m \in Mem /\ m.frames # <<>>
    /\ \A p \in Packages : m.shared[p] <= Len(m.heap)
Places(m) ==
    {Frames(d) : d \in 1 .. Depth(m)} \cup {Plain(p) : p \in Packages}
        \cup {Cells(m, p) : p \in {q \in Packages : m.shared[q] # 0}}
\* What writing to a hash leaves alone.
Alike(m, n) ==
    /\ n.shared = m.shared /\ n.pkg = m.pkg /\ Len(n.frames) = Len(m.frames)
    /\ \A d \in 1 .. Len(m.frames) :
          /\ n.frames[d].back = m.frames[d].back /\ n.frames[d].elems = m.frames[d].elems
          /\ n.frames[d].whole = m.frames[d].whole
-----------------------------------------------------------------------------
\* The parts of a sound memory.
LEMMA SoundFields ==
    ASSUME NEW m, Sound(m)
    PROVE  /\ m.frames \in Seq(Block) /\ Depth(m) \in Nat /\ Depth(m) >= 1
           /\ \A d \in 1 .. Depth(m) : m.frames[d] \in Block
           /\ m.heap \in Seq(Hash) /\ Len(m.heap) \in Nat
           /\ \A i \in 1 .. Len(m.heap) : m.heap[i] \in Hash
           /\ m.shared \in [Packages -> Nat]
           /\ m.plain \in [Packages -> Hash \cup {NoHash}]
           /\ m.cursor \in Cursor /\ m.pkg \in Packages /\ "main" \in Packages
           /\ \A p \in Packages : m.shared[p] # 0 => m.shared[p] \in 1 .. Len(m.heap)
<1>1. m.frames \in Seq(Block) /\ m.frames # <<>> /\ m.heap \in Seq(Hash)
  BY DEF Sound, Mem
<1>2. Len(m.frames) \in Nat /\ Len(m.frames) >= 1 /\ Len(m.heap) \in Nat
  BY <1>1, LastOfSeq
<1>3. /\ \A d \in 1 .. Len(m.frames) : m.frames[d] \in Block
      /\ \A i \in 1 .. Len(m.heap) : m.heap[i] \in Hash
  BY <1>1, ElementOfSeq
<1>4. /\ m.shared \in [Packages -> Nat] /\ m.plain \in [Packages -> Hash \cup {NoHash}]
      /\ m.cursor \in Cursor /\ m.pkg \in Packages
  BY DEF Sound, Mem
<1>5. ASSUME NEW p \in Packages, m.shared[p] # 0 PROVE m.shared[p] \in 1 .. Len(m.heap)
  <2>1. m.shared[p] \in Nat /\ m.shared[p] <= Len(m.heap)
    BY <1>4 DEF Sound
  <2> QED BY <1>2, <1>5, <2>1
<1> QED BY <1>1, <1>2, <1>3, <1>4, <1>5, HashesAssumption DEF Depth

\* The innermost lexical.
LEMMA Innermost ==
    ASSUME NEW m, Sound(m), Lexical(m) # {}
    PROVE  /\ Max(Lexical(m)) \in 1 .. Depth(m) /\ m.frames[Max(Lexical(m))].h # NoHash
           /\ \A d \in 1 .. Depth(m) : m.frames[d].h # NoHash => d <= Max(Lexical(m))
<1> DEFINE L == Lexical(m)
<1>1. L \subseteq 1 .. Depth(m) /\ L # {} /\ Depth(m) \in Nat
  BY SoundFields DEF Lexical
<1>2. \A d \in 1 .. Depth(m) : d \in L <=> m.frames[d].h # NoHash
  BY DEF Lexical
<1>3. \E i \in L : \A j \in L : j <= i
  <2> HIDE DEF L
  <2> QED BY <1>1, Extremes
<1>4. Max(L) \in L /\ \A j \in L : j <= Max(L)
  <2> HIDE DEF L
  <2>1. PICK i \in L : \A j \in L : j <= i
    BY <1>3
  <2>2. \A j \in L : j \in Int
    BY <1>1
  <2>3. \A j \in L : i >= j
    BY <2>1, <2>2
  <2>4. Max(L) = CHOOSE x \in L : \A y \in L : x >= y
    BY DEF Max
  <2>5. Max(L) \in L /\ \A y \in L : Max(L) >= y
    BY <2>3, <2>4
  <2> QED BY <2>2, <2>5
<1> HIDE DEF L
<1>5. Max(L) \in 1 .. Depth(m)
  BY <1>1, <1>4
<1> QED BY <1>2, <1>4, <1>5 DEF L

\* Where the interpreter looks is a place there is.
LEMMA PlaceOrTyped ==
    ASSUME NEW m, Sound(m), NEW p \in Packages
    PROVE  PlaceOr(m, Plain(p)) \in Places(m)
<1>1. CASE Lexical(m) # {}
  <2>1. Max(Lexical(m)) \in 1 .. Depth(m)
    BY <1>1, Innermost
  <2> QED BY <1>1, <2>1 DEF PlaceOr, Places
<1>2. CASE Lexical(m) = {}
  <2>1. m.pkg \in Packages /\ "main" \in Packages
    BY SoundFields
  <2> QED BY <1>2, <2>1 DEF PlaceOr, Places
<1> QED BY <1>1, <1>2

\* What is found at a place.
LEMMA AtTyped ==
    ASSUME NEW m, Sound(m), NEW place \in Places(m)
    PROVE  /\ At(m, place) \in Hash \cup {NoHash} /\ HashAt(m, place) \in Hash
           /\ place.kind = "cell" => At(m, place) \in Hash
<1>0. Empty \in Hash
  BY DEF Empty, Hash
<1>1. CASE \E d \in 1 .. Depth(m) : place = Frames(d)
  <2>1. PICK d \in 1 .. Depth(m) : place = Frames(d)
    BY <1>1
  <2>2. m.frames[d] \in Block
    BY SoundFields
  <2>3. m.frames[d].h \in Hash \cup {NoHash}
    BY <2>2 DEF Block
  <2>4. place.kind = "frame" /\ At(m, place) = m.frames[d].h
    BY <2>1 DEF At, Frames
  <2> QED BY <1>0, <2>3, <2>4 DEF HashAt
<1>2. CASE \E p \in Packages : place = Plain(p)
  <2>1. PICK p \in Packages : place = Plain(p)
    BY <1>2
  <2>2. m.plain[p] \in Hash \cup {NoHash}
    BY SoundFields
  <2>3. place.kind = "plain" /\ At(m, place) = m.plain[p]
    BY <2>1 DEF At, Plain
  <2> QED BY <1>0, <2>2, <2>3 DEF HashAt
<1>3. CASE \E p \in Packages : m.shared[p] # 0 /\ place = Cells(m, p)
  <2>1. PICK p \in Packages : m.shared[p] # 0 /\ place = Cells(m, p)
    BY <1>3
  <2>2. m.shared[p] \in 1 .. Len(m.heap)
    BY <2>1, SoundFields
  <2>3. m.heap[m.shared[p]] \in Hash
    BY <2>2, SoundFields
  <2>4. place.kind = "cell" /\ At(m, place) = m.heap[m.shared[p]]
    BY <2>1 DEF At, Cells
  <2> QED BY <1>0, <2>3, <2>4 DEF HashAt
<1> QED BY <1>1, <1>2, <1>3 DEF Places

\* Writing a hash somewhere changes that place only.
LEMMA PutSound ==
    ASSUME NEW m, Sound(m), NEW place \in Places(m), NEW hash \in Hash
    PROVE  /\ Sound(Put(m, place, hash)) /\ Alike(m, Put(m, place, hash))
           /\ Len(Put(m, place, hash).heap) = Len(m.heap)
           /\ Put(m, place, hash).cursor = m.cursor
           /\ place.kind # "frame" => Put(m, place, hash).frames = m.frames
           /\ place.kind # "plain" => Put(m, place, hash).plain = m.plain
           /\ place.kind # "cell" => Put(m, place, hash).heap = m.heap
           /\ At(Put(m, place, hash), place) = hash
           /\ \A d \in 1 .. Depth(m) :
                 Put(m, place, hash).frames[d].h = IF place = Frames(d) THEN hash ELSE m.frames[d].h
<1> DEFINE n == Put(m, place, hash)
<1>0. m \in Mem /\ m.frames # <<>> /\ \A p \in Packages : m.shared[p] <= Len(m.heap)
  BY DEF Sound
<1>1. CASE \E d \in 1 .. Depth(m) : place = Frames(d)
  <2>1. PICK d \in 1 .. Depth(m) : place = Frames(d)
    BY <1>1
  <2> DEFINE b == [m.frames[d] EXCEPT !.h = hash]
             f == [m.frames EXCEPT ![d] = b]
  <2>2. m.frames \in Seq(Block) /\ m.frames[d] \in Block /\ d \in 1 .. Len(m.frames)
    BY SoundFields DEF Depth
  <2>3. b \in Block /\ b.h = hash /\ b.back = m.frames[d].back /\ b.elems = m.frames[d].elems
        /\ b.whole = m.frames[d].whole
    BY <2>2 DEF Block
  <2>4. place.kind = "frame" /\ place.key = d /\ n = [m EXCEPT !.frames = f]
    BY <2>1 DEF Put, Frames
  <2> HIDE DEF b
  <2>5. /\ f \in Seq(Block) /\ Len(f) = Len(m.frames) /\ f[d] = b
        /\ \A e \in 1 .. Len(m.frames) : e # d => f[e] = m.frames[e]
    BY <2>2, <2>3, ExceptSeq
  <2> HIDE DEF f, n
  <2>6. f # <<>>
    BY <1>0, <2>5, <2>2, EmptySeq
  <2>7. /\ n \in Mem /\ n.frames = f /\ n.heap = m.heap /\ n.shared = m.shared
        /\ n.plain = m.plain /\ n.cursor = m.cursor /\ n.pkg = m.pkg
    BY <1>0, <2>4, <2>5 DEF Mem
  <2>8. Sound(n)
    BY <1>0, <2>6, <2>7 DEF Sound
  <2>9. Alike(m, n)
    BY <2>3, <2>5, <2>7 DEF Alike
  <2>10. At(n, place) = hash
    BY <2>3, <2>4, <2>5, <2>7 DEF At
  <2>11. \A e \in 1 .. Depth(m) : place = Frames(e) <=> e = d
    BY <2>1 DEF Frames
  <2>12. \A e \in 1 .. Depth(m) : n.frames[e].h = IF place = Frames(e) THEN hash ELSE m.frames[e].h
    BY <2>3, <2>5, <2>7, <2>11 DEF Depth
  <2> QED BY <2>4, <2>7, <2>8, <2>9, <2>10, <2>12 DEF n
<1>2. CASE \E p \in Packages : place = Plain(p)
  <2>1. PICK p \in Packages : place = Plain(p)
    BY <1>2
  <2> DEFINE f == [m.plain EXCEPT ![p] = hash]
  <2>2. m.plain \in [Packages -> Hash \cup {NoHash}]
    BY SoundFields
  <2>3. f \in [Packages -> Hash \cup {NoHash}] /\ f[p] = hash
    BY <2>2
  <2>4. place.kind = "plain" /\ place.key = p /\ n = [m EXCEPT !.plain = f]
    BY <2>1 DEF Put, Plain
  <2> HIDE DEF f, n
  <2>5. /\ n \in Mem /\ n.frames = m.frames /\ n.heap = m.heap /\ n.shared = m.shared
        /\ n.plain = f /\ n.cursor = m.cursor /\ n.pkg = m.pkg
    BY <1>0, <2>3, <2>4 DEF Mem
  <2>6. Sound(n) /\ Alike(m, n)
    BY <1>0, <2>5 DEF Sound, Alike
  <2>7. At(n, place) = hash
    BY <2>3, <2>4, <2>5 DEF At
  <2>8. \A e \in 1 .. Depth(m) : place # Frames(e)
    BY <2>1 DEF Frames, Plain
  <2> QED BY <2>4, <2>5, <2>6, <2>7, <2>8 DEF n
<1>3. CASE \E p \in Packages : m.shared[p] # 0 /\ place = Cells(m, p)
  <2>1. PICK p \in Packages : m.shared[p] # 0 /\ place = Cells(m, p)
    BY <1>3
  <2> DEFINE i == m.shared[p]
             f == [m.heap EXCEPT ![i] = hash]
  <2>2. m.heap \in Seq(Hash) /\ i \in 1 .. Len(m.heap)
    BY <2>1, SoundFields
  <2>3. place.kind = "cell" /\ place.key = i /\ n = [m EXCEPT !.heap = f]
    BY <2>1 DEF Put, Cells
  <2> HIDE DEF i
  <2>4. f \in Seq(Hash) /\ f[i] = hash /\ Len(f) = Len(m.heap)
    BY <2>2, ExceptSeq
  <2> HIDE DEF f, n
  <2>5. /\ n \in Mem /\ n.frames = m.frames /\ n.heap = f /\ n.shared = m.shared
        /\ n.plain = m.plain /\ n.cursor = m.cursor /\ n.pkg = m.pkg
    BY <1>0, <2>3, <2>4 DEF Mem
  <2>6. Sound(n) /\ Alike(m, n)
    BY <1>0, <2>4, <2>5 DEF Sound, Alike
  <2>7. At(n, place) = hash
    BY <2>3, <2>4, <2>5 DEF At
  <2>8. \A e \in 1 .. Depth(m) : place # Frames(e)
    BY <2>1 DEF Frames, Cells
  <2> QED BY <2>3, <2>4, <2>5, <2>6, <2>7, <2>8 DEF n
<1> QED BY <1>1, <1>2, <1>3 DEF Places

\* The hash with no entries.
LEMMA EmptyTyped ==
    Empty \in Hash
BY DEF Empty, Hash

\* With a key there is a difference between a hash and none.
LEMMA HashIsSome ==
    ASSUME NEW h \in Hash, NEW k \in Keys
    PROVE  h # NoHash
<1>1. DOMAIN h = Keys /\ DOMAIN NoHash = {}
  BY DEF Hash, NoHash
<1> QED BY <1>1

\* One entry of a hash is set.
LEMMA WithKey ==
    ASSUME NEW h \in Hash, NEW k \in Keys, NEW v \in Items \cup {Absent}
    PROVE  /\ [h EXCEPT ![k] = v] \in Hash /\ [h EXCEPT ![k] = v] # NoHash
           /\ [h EXCEPT ![k] = v][k] = v
           /\ \A j \in Keys : j # k => [h EXCEPT ![k] = v][j] = h[j]
<1>1. [h EXCEPT ![k] = v] \in Hash
  BY DEF Hash
<1>2. [h EXCEPT ![k] = v] # NoHash
  BY <1>1, HashIsSome
<1>3. h \in [Keys -> Items \cup {Absent}]
  BY DEF Hash
<1> QED BY <1>1, <1>2, <1>3

\* What is read is a hash.
LEMMA GetHashTyped ==
    ASSUME NEW m, Sound(m)
    PROVE  GetHash(m) \in Hash
<1>1. m.pkg \in Packages /\ "main" \in Packages
  BY SoundFields
<1>2. PlaceOr(m, Plain(m.pkg)) \in Places(m)
  BY <1>1, PlaceOrTyped
<1>3. At(m, PlaceOr(m, Plain(m.pkg))) \in Hash \cup {NoHash}
  BY <1>2, AtTyped
<1>4. Plain("main") \in Places(m)
  BY <1>1 DEF Places
<1>5. HashAt(m, Plain("main")) \in Hash
  BY <1>4, AtTyped
<1> QED BY <1>3, <1>5 DEF GetHash

\* What an operation on elements leaves alone: also which blocks have a `my %h`.
Writes(m, n) ==
    /\ Sound(n) /\ Alike(m, n)
    /\ \A d \in 1 .. Depth(m) : n.frames[d].h = NoHash <=> m.frames[d].h = NoHash
    /\ Len(n.heap) = Len(m.heap)

\* A frame that is found has a `my %h`.
LEMMA FoundFrame ==
    ASSUME NEW m, Sound(m), NEW p \in Packages, NEW d \in 1 .. Depth(m),
           PlaceOr(m, Plain(p)) = Frames(d)
    PROVE  m.frames[d].h # NoHash
<1>1. Lexical(m) # {}
  BY DEF PlaceOr, Frames, Cells, Plain
<1>2. PlaceOr(m, Plain(p)) = Frames(Max(Lexical(m)))
  BY <1>1 DEF PlaceOr
<1>3. d = Max(Lexical(m))
  BY <1>2 DEF Frames
<1> QED BY <1>1, <1>3, Innermost

\* Writing to a hash that is there.
LEMMA PutWrites ==
    ASSUME NEW m, Sound(m), NEW place \in Places(m), NEW hash \in Hash, hash # NoHash,
           \A d \in 1 .. Depth(m) : place = Frames(d) => m.frames[d].h # NoHash
    PROVE  Writes(m, Put(m, place, hash))
BY PutSound DEF Writes

\* set_hash_element.
LEMMA SetElemWrites ==
    ASSUME NEW m, Sound(m), NEW k \in Keys, NEW v \in Items \cup {Absent}
    PROVE  Writes(m, SetElem(m, k, v))
<1> DEFINE to == PlaceOr(m, Plain(m.pkg))
           hash == [HashAt(m, to) EXCEPT ![k] = v]
<1>1. m.pkg \in Packages
  BY SoundFields
<1>2. to \in Places(m)
  BY <1>1, PlaceOrTyped
<1>3. \A d \in 1 .. Depth(m) : to = Frames(d) => m.frames[d].h # NoHash
  BY <1>1, FoundFrame
<1>4. HashAt(m, to) \in Hash
  BY <1>2, AtTyped
<1>5. hash \in Hash /\ hash # NoHash
  BY <1>4, WithKey
<1>6. SetElem(m, k, v) = Put(m, to, hash)
  BY DEF SetElem
<1> HIDE DEF to, hash
<1> QED BY <1>2, <1>3, <1>5, <1>6, PutWrites

\* Main's global is set.
LEMMA PlainWrites ==
    ASSUME NEW m, Sound(m), NEW hash \in Hash
    PROVE  /\ Writes(m, [m EXCEPT !.plain["main"] = hash])
           /\ [m EXCEPT !.plain["main"] = hash].plain["main"] = hash
           /\ [m EXCEPT !.plain["main"] = hash].frames = m.frames
           /\ [m EXCEPT !.plain["main"] = hash].heap = m.heap
<1>1. Plain("main") \in Places(m)
  BY SoundFields DEF Places
<1>2. Put(m, Plain("main"), hash) = [m EXCEPT !.plain["main"] = hash]
  BY DEF Put, Plain
<1> DEFINE n == Put(m, Plain("main"), hash)
<1>3. Plain("main").kind = "plain" /\ \A d \in 1 .. Depth(m) : Plain("main") # Frames(d)
  BY DEF Plain, Frames
<1>4. /\ Sound(n) /\ Alike(m, n) /\ Len(n.heap) = Len(m.heap) /\ n.frames = m.frames
      /\ n.heap = m.heap /\ At(n, Plain("main")) = hash
  BY <1>1, <1>3, PutSound
<1>5. At(n, Plain("main")) = n.plain["main"]
  BY DEF At, Plain
<1> HIDE DEF n
<1>6. Writes(m, n) /\ n.plain["main"] = hash
  BY <1>4, <1>5 DEF Writes
<1> QED BY <1>2, <1>4, <1>6 DEF n

\* What delete local leaves.
LEMMA LessKeyWrites ==
    ASSUME NEW m, Sound(m), NEW k \in Keys
    PROVE  Writes(m, LessKey(m, k))
<1> DEFINE hash == [GetHash(m) EXCEPT ![k] = Absent]
<1>1. hash \in Hash
  BY GetHashTyped, WithKey
<1>2. LessKey(m, k) = [m EXCEPT !.plain["main"] = hash]
  BY DEF LessKey
<1> HIDE DEF hash
<1> QED BY <1>1, <1>2, PlainWrites

\* One write after another.
LEMMA WritesCompose ==
    ASSUME NEW l, NEW m, NEW n, Sound(l), Writes(l, m), Writes(m, n)
    PROVE  Writes(l, n)
<1>1. Depth(m) = Depth(l)
  BY DEF Writes, Alike, Depth
<1> QED BY <1>1 DEF Writes, Alike, Depth

\* No write at all.
LEMMA WritesItself ==
    ASSUME NEW m, Sound(m)
    PROVE  Writes(m, m)
BY DEF Writes, Alike

\* delete.
LEMMA DeleteWrites ==
    ASSUME NEW m, Sound(m), NEW k \in Keys
    PROVE  Writes(m, Delete(m, k))
<1> DEFINE from == PlaceOr(m, Plain("main"))
           hash == [At(m, from) EXCEPT ![k] = Absent]
<1>1. "main" \in Packages
  BY SoundFields
<1>2. from \in Places(m)
  BY <1>1, PlaceOrTyped
<1>3. \A d \in 1 .. Depth(m) : from = Frames(d) => m.frames[d].h # NoHash
  BY <1>1, FoundFrame
<1>4. At(m, from) \in Hash \cup {NoHash}
  BY <1>2, AtTyped
<1>5. CASE At(m, from) = NoHash
  BY <1>5, WritesItself DEF Delete
<1>6. CASE At(m, from) # NoHash
  <2>1. hash \in Hash /\ hash # NoHash
    BY <1>4, <1>6, WithKey
  <2>2. Delete(m, k) = Put(m, from, hash)
    BY <1>6 DEF Delete
  <2> HIDE DEF from, hash
  <2> QED BY <1>2, <1>3, <2>1, <2>2, PutWrites
<1> QED BY <1>5, <1>6

\* An entry is taken out by a list assignment.
LEMMA TakeWrites ==
    ASSUME NEW m, Sound(m), NEW k \in Keys
    PROVE  Writes(m, Take(m, k))
<1>0. "main" \in Packages
  BY SoundFields
<1>1. CASE Lexical(m) # {}
  <2> DEFINE d == Max(Lexical(m))
             hash == [At(m, Frames(d)) EXCEPT ![k] = Absent]
  <2>1. d \in 1 .. Depth(m) /\ m.frames[d].h # NoHash
    BY <1>1, Innermost
  <2>2. Take(m, k) = Put(m, Frames(d), hash)
    BY <1>1 DEF Take
  <2> HIDE DEF d
  <2>3. Frames(d) \in Places(m) /\ At(m, Frames(d)) = m.frames[d].h
    BY <2>1 DEF Places, At, Frames
  <2>4. At(m, Frames(d)) \in Hash
    BY <2>1, <2>3, AtTyped
  <2>5. hash \in Hash /\ hash # NoHash
    BY <2>4, WithKey
  <2>6. \A e \in 1 .. Depth(m) : Frames(d) = Frames(e) => m.frames[e].h # NoHash
    BY <2>1 DEF Frames
  <2> HIDE DEF hash
  <2> QED BY <2>2, <2>3, <2>5, <2>6, PutWrites
<1>2. CASE Lexical(m) = {} /\ m.shared["main"] # 0
  <2> DEFINE place == Cells(m, "main")
             hash == [At(m, place) EXCEPT ![k] = Absent]
  <2>1. Take(m, k) = Put(m, place, hash)
    BY <1>2 DEF Take
  <2>2. place \in Places(m) /\ place.kind = "cell" /\ \A e \in 1 .. Depth(m) : place # Frames(e)
    BY <1>0, <1>2 DEF Places, Cells, Frames
  <2> HIDE DEF place
  <2>3. At(m, place) \in Hash
    BY <2>2, AtTyped
  <2>4. hash \in Hash /\ hash # NoHash
    BY <2>3, WithKey
  <2> HIDE DEF hash
  <2> QED BY <2>1, <2>2, <2>4, PutWrites
<1>3. CASE Lexical(m) = {} /\ m.shared["main"] = 0
  BY <1>3, WritesItself DEF Take
<1> QED BY <1>1, <1>2, <1>3

\* One element is put back.
LEMMA RestoreElemWrites ==
    ASSUME NEW m, Sound(m), NEW save \in Save
    PROVE  Writes(m, RestoreElem(m, save))
<1>1. save.k \in Keys /\ save.old \in Items \cup {Absent}
  BY DEF Save
<1>2. Writes(m, SetElem(m, save.k, save.old)) /\ Writes(m, LessKey(m, save.k))
  BY <1>1, SetElemWrites, LessKeyWrites
<1> QED BY <1>2 DEF RestoreElem

\* A whole hash is put back.
LEMMA RestoreWholeWrites ==
    ASSUME NEW m, Sound(m), NEW old \in Hash
    PROVE  Writes(m, RestoreWhole(m, old))
BY PlainWrites DEF RestoreWhole

\* Undoing saves is a run of restoring steps, the last save first.
Undoing(r, m, s, last) ==
    r = [i \in 0 .. Len(s) |-> IF i = 0 THEN m ELSE RestoreElem(r[i - 1], last[i])]
UndoingWhole(r, m, s, last) ==
    r = [i \in 0 .. Len(s) |-> IF i = 0 THEN m ELSE RestoreWhole(r[i - 1], last[i])]

\* Undoing the saves of elements goes through such a run.
LEMMA UndoElems ==
    ASSUME NEW m, Sound(m), NEW s \in Seq(Save)
    PROVE  \E r : /\ r[0] = m /\ Undo(RestoreElem, m, s) = r[Len(s)]
                  /\ \A i \in 1 .. Len(s) : r[i] = RestoreElem(r[i - 1], Reverse(s)[i])
                  /\ \A i \in 0 .. Len(s) : Writes(m, r[i])
<1> DEFINE n == Len(s)
           last == Reverse(s)
           X == {x \in Mem : Sound(x)}
           F == [i \in 1 .. n |-> [x \in X |-> RestoreElem(x, last[i])]]
<1>1. n \in Nat /\ last \in Seq(Save) /\ Len(last) = n
  BY ReverseOfSeq
<1>2. \A i \in 1 .. n : last[i] \in Save
  <2> HIDE DEF last, n
  <2> QED BY <1>1, ElementOfSeq
<1>3. \A i \in 1 .. n : \A x \in X : RestoreElem(x, last[i]) \in X
  <2> HIDE DEF last, n
  <2>1. \A x : Sound(x) => x \in Mem
    BY DEF Sound
  <2>2. \A i \in 1 .. n : \A x \in X : Writes(x, RestoreElem(x, last[i]))
    BY <1>2, RestoreElemWrites
  <2> QED BY <2>1, <2>2 DEF Writes
<1>4. m \in X
  BY DEF Sound
<1>5. \A i \in 1 .. n : \A x \in X : F[i][x] = RestoreElem(x, last[i])
  <2> HIDE DEF last, n, X
  <2> QED OBVIOUS
<1>6. PICK f : f \in [0 .. n -> X] /\ f[0] = m /\ \A i \in 1 .. n : f[i] = F[i][f[i - 1]]
  <2>1. Steps(F, n, X)
    <3> HIDE DEF X, last, n
    <3> QED BY <1>3 DEF Steps
  <2> HIDE DEF X, F, last, n
  <2>2. PICK f : Path(f, F, n, m, X)
    BY <1>1, <1>4, <2>1, Unrolled
  <2> QED BY <2>2 DEF Path
<1>7. \A i \in 1 .. n : f[i] = RestoreElem(f[i - 1], last[i])
  <2> HIDE DEF X, F, last, n
  <2>1. ASSUME NEW i \in 1 .. n PROVE f[i] = RestoreElem(f[i - 1], last[i])
    <3>1. i - 1 \in 0 .. n
      BY <1>1
    <3>2. f[i - 1] \in X
      BY <1>6, <3>1
    <3> QED BY <1>5, <1>6, <3>2
  <2> QED BY <2>1
<1>8. Undoing(f, m, s, last)
  <2> HIDE DEF X, F, last
  <2>1. \A i \in 0 .. n : f[i] = IF i = 0 THEN m ELSE RestoreElem(f[i - 1], last[i])
    <3>1. \A i \in 0 .. n : i = 0 \/ i \in 1 .. n
      BY <1>1
    <3> HIDE DEF n
    <3>2. \A i \in 1 .. n : i # 0
      BY <1>1
    <3> QED BY <1>6, <1>7, <3>1, <3>2
  <2>2. f = [i \in 0 .. n |-> f[i]]
    BY <1>6
  <2> QED BY <2>1, <2>2 DEF Undoing
<1> DEFINE r == CHOOSE g : Undoing(g, m, s, last)
<1>9. Undoing(r, m, s, last)
  <2> HIDE DEF last
  <2> QED BY <1>8
<1>10. Undo(RestoreElem, m, s) = r[n]
  BY DEF Undo, Undoing
<1> HIDE DEF r, X, F
<1>11. r[0] = m /\ \A i \in 1 .. n : r[i] = RestoreElem(r[i - 1], last[i])
  <2> HIDE DEF last
  <2>1. 0 \in 0 .. n /\ \A i \in 1 .. n : i \in 0 .. n /\ i # 0
    BY <1>1
  <2>2. r = [i \in 0 .. n |-> IF i = 0 THEN m ELSE RestoreElem(r[i - 1], last[i])]
    BY <1>9 DEF Undoing
  <2> HIDE DEF n
  <2>3. \A i \in 0 .. n : r[i] = IF i = 0 THEN m ELSE RestoreElem(r[i - 1], last[i])
    BY <2>2
  <2> QED BY <2>1, <2>3
<1>12. \A i \in 0 .. n : Writes(m, r[i])
  <2> HIDE DEF last, n
  <2> DEFINE T == {i \in 0 .. n : Writes(m, r[i])}
  <2>1. 0 \in T
    BY <1>1, <1>11, WritesItself
  <2>2. ASSUME NEW i \in 1 .. n, i - 1 \in T PROVE i \in T
    <3>1. Writes(m, r[i - 1])
      BY <2>2
    <3>2. Sound(r[i - 1])
      BY <3>1 DEF Writes
    <3>3. Writes(r[i - 1], r[i])
      BY <1>2, <1>11, <3>2, RestoreElemWrites
    <3>4. Writes(m, r[i])
      BY <3>1, <3>3, WritesCompose
    <3>5. i \in 0 .. n
      BY <1>1
    <3> QED BY <3>4, <3>5
  <2> HIDE DEF T
  <2>3. \A i \in 0 .. n : i \in T
    BY <1>1, <2>1, <2>2, CountUp
  <2> QED BY <2>3 DEF T
<1> QED BY <1>10, <1>11, <1>12

\* So does undoing those of whole hashes.
LEMMA UndoWholes ==
    ASSUME NEW m, Sound(m), NEW s \in Seq(Hash)
    PROVE  \E r : /\ r[0] = m /\ Undo(RestoreWhole, m, s) = r[Len(s)]
                  /\ \A i \in 1 .. Len(s) : r[i] = RestoreWhole(r[i - 1], Reverse(s)[i])
                  /\ \A i \in 0 .. Len(s) : Writes(m, r[i])
<1> DEFINE n == Len(s)
           last == Reverse(s)
           X == {x \in Mem : Sound(x)}
           F == [i \in 1 .. n |-> [x \in X |-> RestoreWhole(x, last[i])]]
<1>1. n \in Nat /\ last \in Seq(Hash) /\ Len(last) = n
  BY ReverseOfSeq
<1>2. \A i \in 1 .. n : last[i] \in Hash
  <2> HIDE DEF last, n
  <2> QED BY <1>1, ElementOfSeq
<1>3. \A i \in 1 .. n : \A x \in X : RestoreWhole(x, last[i]) \in X
  <2> HIDE DEF last, n
  <2>1. \A x : Sound(x) => x \in Mem
    BY DEF Sound
  <2>2. \A i \in 1 .. n : \A x \in X : Writes(x, RestoreWhole(x, last[i]))
    BY <1>2, RestoreWholeWrites
  <2> QED BY <2>1, <2>2 DEF Writes
<1>4. m \in X
  BY DEF Sound
<1>5. \A i \in 1 .. n : \A x \in X : F[i][x] = RestoreWhole(x, last[i])
  <2> HIDE DEF last, n, X
  <2> QED OBVIOUS
<1>6. PICK f : f \in [0 .. n -> X] /\ f[0] = m /\ \A i \in 1 .. n : f[i] = F[i][f[i - 1]]
  <2>1. Steps(F, n, X)
    <3> HIDE DEF X, last, n
    <3> QED BY <1>3 DEF Steps
  <2> HIDE DEF X, F, last, n
  <2>2. PICK f : Path(f, F, n, m, X)
    BY <1>1, <1>4, <2>1, Unrolled
  <2> QED BY <2>2 DEF Path
<1>7. \A i \in 1 .. n : f[i] = RestoreWhole(f[i - 1], last[i])
  <2> HIDE DEF X, F, last, n
  <2>1. ASSUME NEW i \in 1 .. n PROVE f[i] = RestoreWhole(f[i - 1], last[i])
    <3>1. i - 1 \in 0 .. n
      BY <1>1
    <3>2. f[i - 1] \in X
      BY <1>6, <3>1
    <3> QED BY <1>5, <1>6, <3>2
  <2> QED BY <2>1
<1>8. UndoingWhole(f, m, s, last)
  <2> HIDE DEF X, F, last
  <2>1. \A i \in 0 .. n : f[i] = IF i = 0 THEN m ELSE RestoreWhole(f[i - 1], last[i])
    <3>1. \A i \in 0 .. n : i = 0 \/ i \in 1 .. n
      BY <1>1
    <3> HIDE DEF n
    <3>2. \A i \in 1 .. n : i # 0
      BY <1>1
    <3> QED BY <1>6, <1>7, <3>1, <3>2
  <2>2. f = [i \in 0 .. n |-> f[i]]
    BY <1>6
  <2> QED BY <2>1, <2>2 DEF UndoingWhole
<1> DEFINE r == CHOOSE g : UndoingWhole(g, m, s, last)
<1>9. UndoingWhole(r, m, s, last)
  <2> HIDE DEF last
  <2> QED BY <1>8
<1>10. Undo(RestoreWhole, m, s) = r[n]
  BY DEF Undo, UndoingWhole
<1> HIDE DEF r, X, F
<1>11. r[0] = m /\ \A i \in 1 .. n : r[i] = RestoreWhole(r[i - 1], last[i])
  <2> HIDE DEF last
  <2>1. 0 \in 0 .. n /\ \A i \in 1 .. n : i \in 0 .. n /\ i # 0
    BY <1>1
  <2>2. r = [i \in 0 .. n |-> IF i = 0 THEN m ELSE RestoreWhole(r[i - 1], last[i])]
    BY <1>9 DEF UndoingWhole
  <2> HIDE DEF n
  <2>3. \A i \in 0 .. n : r[i] = IF i = 0 THEN m ELSE RestoreWhole(r[i - 1], last[i])
    BY <2>2
  <2> QED BY <2>1, <2>3
<1>12. \A i \in 0 .. n : Writes(m, r[i])
  <2> HIDE DEF last, n
  <2> DEFINE T == {i \in 0 .. n : Writes(m, r[i])}
  <2>1. 0 \in T
    BY <1>1, <1>11, WritesItself
  <2>2. ASSUME NEW i \in 1 .. n, i - 1 \in T PROVE i \in T
    <3>1. Writes(m, r[i - 1])
      BY <2>2
    <3>2. Sound(r[i - 1])
      BY <3>1 DEF Writes
    <3>3. Writes(r[i - 1], r[i])
      BY <1>2, <1>11, <3>2, RestoreWholeWrites
    <3>4. Writes(m, r[i])
      BY <3>1, <3>3, WritesCompose
    <3>5. i \in 0 .. n
      BY <1>1
    <3> QED BY <3>4, <3>5
  <2> HIDE DEF T
  <2>3. \A i \in 0 .. n : i \in T
    BY <1>1, <2>1, <2>2, CountUp
  <2> QED BY <2>3 DEF T
<1> QED BY <1>10, <1>11, <1>12

-----------------------------------------------------------------------------
\* What `local` adds to the innermost block.
LEMMA TopReplaced ==
    ASSUME NEW m, Sound(m), NEW b \in Block
    PROVE  LET n == [m EXCEPT !.frames = [m.frames EXCEPT ![Depth(m)] = b]]
           IN /\ Sound(n) /\ Depth(n) = Depth(m) /\ n.frames[Depth(m)] = b
              /\ \A d \in 1 .. Depth(m) - 1 : n.frames[d] = m.frames[d]
              /\ n.plain = m.plain /\ n.heap = m.heap /\ n.shared = m.shared /\ n.pkg = m.pkg
<1> DEFINE D == Depth(m)
           f == [m.frames EXCEPT ![D] = b]
           n == [m EXCEPT !.frames = f]
<1>1. m.frames \in Seq(Block) /\ D \in 1 .. Len(m.frames) /\ D = Len(m.frames) /\ D \in Nat
  BY SoundFields DEF Depth
<1> HIDE DEF D
<1>2. /\ f \in Seq(Block) /\ Len(f) = Len(m.frames) /\ f[D] = b
      /\ \A d \in 1 .. Len(m.frames) : d # D => f[d] = m.frames[d]
  BY <1>1, ExceptSeq
<1> HIDE DEF f
<1>3. f # <<>>
  BY <1>1, <1>2, EmptySeq
<1>4. m \in Mem /\ \A p \in Packages : m.shared[p] <= Len(m.heap)
  BY DEF Sound
<1>5. /\ n \in Mem /\ n.frames = f /\ n.heap = m.heap /\ n.shared = m.shared
      /\ n.plain = m.plain /\ n.cursor = m.cursor /\ n.pkg = m.pkg
  BY <1>2, <1>4 DEF Mem
<1> HIDE DEF n
<1>6. Sound(n) /\ Depth(n) = D
  BY <1>1, <1>2, <1>3, <1>4, <1>5 DEF Sound, Depth
<1>7. \A d \in 1 .. D - 1 : n.frames[d] = m.frames[d]
  BY <1>1, <1>2, <1>5
<1> QED BY <1>2, <1>5, <1>6, <1>7 DEF n, f, D

\* local %h saves what is read.
LEMMA SaveWholeSound ==
    ASSUME NEW m, Sound(m)
    PROVE  Sound(SaveWhole(m)) /\ Depth(SaveWhole(m)) = Depth(m)
<1> DEFINE D == Depth(m)
           b == [m.frames[D] EXCEPT !.whole = Append(@, GetHash(m))]
           n == [m EXCEPT !.frames = [m.frames EXCEPT ![D] = b]]
<1>1. m.frames[D] \in Block
  BY SoundFields
<1>2. Append(m.frames[D].whole, GetHash(m)) \in Seq(Hash)
  BY <1>1, GetHashTyped, AppendToSeq DEF Block
<1>3. b \in Block
  BY <1>1, <1>2 DEF Block
<1>4. SaveWhole(m) = n
  BY DEF SaveWhole
<1> HIDE DEF b
<1>5. Sound(n) /\ Depth(n) = Depth(m)
  BY <1>3, TopReplaced
<1> QED BY <1>4, <1>5

\* Saving an element changes nothing that can be read.
LEMMA SaveElemSaves ==
    ASSUME NEW m, Sound(m), NEW k \in Keys
    PROVE  LET n == SaveElem(m, k)
               D == Depth(m)
           IN /\ Sound(n) /\ Depth(n) = D
              /\ \A d \in 1 .. D - 1 : n.frames[d] = m.frames[d]
              /\ n.frames[D].h = m.frames[D].h /\ n.frames[D].back = m.frames[D].back
              /\ n.frames[D].whole = m.frames[D].whole
              /\ n.frames[D].elems = Append(m.frames[D].elems, [k |-> k, old |-> GetHash(m)[k]])
              /\ n.plain = m.plain /\ n.heap = m.heap /\ n.shared = m.shared /\ n.pkg = m.pkg
<1> DEFINE D == Depth(m)
           save == [k |-> k, old |-> GetHash(m)[k]]
           e == Append(m.frames[D].elems, save)
           b == [m.frames[D] EXCEPT !.elems = e]
           n == [m EXCEPT !.frames = [m.frames EXCEPT ![D] = b]]
<1>1. m.frames[D] \in Block
  BY SoundFields
<1>2. save \in Save
  BY GetHashTyped DEF Save, Hash
<1>3. e \in Seq(Save)
  <2> HIDE DEF save
  <2> QED BY <1>1, <1>2, AppendToSeq DEF Block
<1>4. SaveElem(m, k) = n
  BY DEF SaveElem
<1> HIDE DEF e
<1>5. /\ b \in Block /\ b.h = m.frames[D].h /\ b.back = m.frames[D].back
      /\ b.whole = m.frames[D].whole /\ b.elems = e
  BY <1>1, <1>3 DEF Block
<1> HIDE DEF b
<1>6. /\ Sound(n) /\ Depth(n) = Depth(m) /\ n.frames[Depth(m)] = b
      /\ \A d \in 1 .. Depth(m) - 1 : n.frames[d] = m.frames[d]
      /\ n.plain = m.plain /\ n.heap = m.heap /\ n.shared = m.shared /\ n.pkg = m.pkg
  BY <1>5, TopReplaced
<1> HIDE DEF n
<1> QED BY <1>4, <1>5, <1>6 DEF e

\* A new Rc.
LEMMA NewCellSound ==
    ASSUME NEW m, Sound(m), NEW hash \in Hash
    PROVE  /\ Sound(NewCell(m, hash)) /\ NewCell(m, hash).frames = m.frames
           /\ NewCell(m, hash).heap = Append(m.heap, hash)
           /\ Len(NewCell(m, hash).heap) = Len(m.heap) + 1
           /\ NewCell(m, hash).shared = m.shared /\ NewCell(m, hash).plain = m.plain
<1> DEFINE f == Append(m.heap, hash)
           n == [m EXCEPT !.heap = f]
<1>1. m.heap \in Seq(Hash) /\ Len(m.heap) \in Nat /\ m.shared \in [Packages -> Nat]
  BY SoundFields
<1>2. f \in Seq(Hash) /\ Len(f) = Len(m.heap) + 1
  BY <1>1, AppendToSeq
<1>3. NewCell(m, hash) = n
  BY DEF NewCell
<1>4. m \in Mem /\ m.frames # <<>> /\ \A p \in Packages : m.shared[p] <= Len(m.heap)
  BY DEF Sound
<1> HIDE DEF f
<1>5. /\ n \in Mem /\ n.frames = m.frames /\ n.heap = f /\ n.shared = m.shared
      /\ n.plain = m.plain
  BY <1>2, <1>4 DEF Mem
<1>6. \A p \in Packages : m.shared[p] <= Len(f)
  BY <1>1, <1>2, <1>4
<1> HIDE DEF n
<1>7. Sound(n)
  BY <1>4, <1>5, <1>6 DEF Sound
<1> QED BY <1>2, <1>3, <1>5, <1>7 DEF f

\* The tables of main's and the packages' hashes.
LEMMA TablesSound ==
    ASSUME NEW m, Sound(m), NEW plain \in [Packages -> Hash \cup {NoHash}],
           NEW shared \in [Packages -> Nat], \A p \in Packages : shared[p] <= Len(m.heap)
    PROVE  /\ Sound([m EXCEPT !.plain = plain, !.shared = shared])
           /\ [m EXCEPT !.plain = plain, !.shared = shared].frames = m.frames
<1> DEFINE n == [m EXCEPT !.plain = plain, !.shared = shared]
<1>1. m \in Mem /\ m.frames # <<>>
  BY DEF Sound
<1>2. n \in Mem /\ n.frames = m.frames /\ n.heap = m.heap /\ n.shared = shared
  BY <1>1 DEF Mem
<1> HIDE DEF n
<1>3. Sound(n)
  BY <1>1, <1>2 DEF Sound
<1> QED BY <1>2, <1>3 DEF n

\* our %h.
LEMMA OurSound ==
    ASSUME NEW m, Sound(m), NEW hash \in Hash
    PROVE  Sound(Our(m, hash)) /\ Depth(Our(m, hash)) = Depth(m)
<1> DEFINE p == m.pkg
           i == m.shared[p]
<1>1. /\ p \in Packages /\ "main" \in Packages /\ m.shared \in [Packages -> Nat]
      /\ m.plain \in [Packages -> Hash \cup {NoHash}] /\ m.heap \in Seq(Hash)
      /\ Len(m.heap) \in Nat /\ i \in Nat /\ (i # 0 => i \in 1 .. Len(m.heap))
      /\ \A q \in Packages : m.shared[q] <= Len(m.heap)
  BY SoundFields DEF Sound
<1>2. CASE i # 0
  <2> DEFINE c == [m EXCEPT !.heap = [m.heap EXCEPT ![i] = hash]]
             s == [m.shared EXCEPT !["main"] = i]
  <2>1. Our(m, hash) = [c EXCEPT !.plain = m.plain, !.shared = s]
    <3>1. m \in Mem
      BY DEF Sound
    <3> QED BY <1>2, <3>1 DEF Our, Mem
  <2>2. c = Put(m, Cells(m, p), hash) /\ Cells(m, p) \in Places(m) /\ Cells(m, p).kind # "frame"
    BY <1>1, <1>2 DEF Put, Cells, Places
  <2> HIDE DEF c
  <2>3. Sound(c) /\ c.frames = m.frames /\ Len(c.heap) = Len(m.heap)
    BY <2>2, PutSound
  <2>4. s \in [Packages -> Nat] /\ \A q \in Packages : s[q] <= Len(c.heap)
    BY <1>1, <1>2, <2>3
  <2> HIDE DEF s, p, i
  <2>5. /\ Sound([c EXCEPT !.plain = m.plain, !.shared = s])
        /\ [c EXCEPT !.plain = m.plain, !.shared = s].frames = m.frames
    BY <1>1, <2>3, <2>4, TablesSound, ZenonT(60)
  <2> QED BY <2>1, <2>5 DEF Depth
<1>3. CASE i = 0
  <2> DEFINE c == NewCell(m, hash)
             f == [m.plain EXCEPT ![p] = NoHash]
             s == [q \in Packages |-> IF q \in {"main", p} THEN Len(c.heap) ELSE m.shared[q]]
  <2>1. Sound(c) /\ c.frames = m.frames /\ Len(c.heap) = Len(m.heap) + 1 /\ c.plain = m.plain
    BY NewCellSound
  <2>2. Our(m, hash) = [c EXCEPT !.plain = f, !.shared = s]
    BY <1>3, <2>1 DEF Our
  <2> HIDE DEF c
  <2>3. f \in [Packages -> Hash \cup {NoHash}]
    BY <1>1
  <2>4. s \in [Packages -> Nat] /\ \A q \in Packages : s[q] <= Len(c.heap)
    BY <1>1, <2>1
  <2> HIDE DEF f, s
  <2>5. /\ Sound([c EXCEPT !.plain = f, !.shared = s])
        /\ [c EXCEPT !.plain = f, !.shared = s].frames = m.frames
    BY <2>1, <2>3, <2>4, TablesSound, ZenonT(60)
  <2> QED BY <2>2, <2>5 DEF Depth
<1> QED BY <1>2, <1>3

\* A reference to %h.
LEMMA RefSound ==
    ASSUME NEW m, Sound(m)
    PROVE  Sound(Ref(m)) /\ Depth(Ref(m)) = Depth(m)
<1> DEFINE p == m.pkg
           hash == HashAt(m, Plain(p))
           c == NewCell(m, hash)
           f == [m.plain EXCEPT ![p] = NoHash]
           s == [m.shared EXCEPT ![p] = Len(m.heap) + 1]
<1>1. /\ p \in Packages /\ m.shared \in [Packages -> Nat]
      /\ m.plain \in [Packages -> Hash \cup {NoHash}] /\ Len(m.heap) \in Nat
      /\ \A q \in Packages : m.shared[q] <= Len(m.heap)
  BY SoundFields DEF Sound
<1>2. Plain(p) \in Places(m)
  BY <1>1 DEF Places
<1>3. hash \in Hash
  BY <1>2, AtTyped
<1> HIDE DEF hash
<1>4. /\ Sound(c) /\ c.frames = m.frames /\ Len(c.heap) = Len(m.heap) + 1
      /\ c.plain = m.plain /\ c.shared = m.shared
  BY <1>3, NewCellSound
<1>5. Ref(m) = m \/ Ref(m) = [c EXCEPT !.plain = f, !.shared = s]
  BY <1>4 DEF Ref, hash
<1> HIDE DEF c
<1>6. f \in [Packages -> Hash \cup {NoHash}]
  BY <1>1
<1>7. s \in [Packages -> Nat] /\ \A q \in Packages : s[q] <= Len(c.heap)
  BY <1>1, <1>4
<1> HIDE DEF f, s
<1>8. /\ Sound([c EXCEPT !.plain = f, !.shared = s])
      /\ [c EXCEPT !.plain = f, !.shared = s].frames = m.frames
  BY <1>4, <1>6, <1>7, TablesSound
<1> QED BY <1>5, <1>8 DEF Depth

\* Cursor and package.
LEMMA FieldsSound ==
    ASSUME NEW m, Sound(m), NEW cursor \in Cursor, NEW pkg \in Packages
    PROVE  /\ Sound([m EXCEPT !.cursor = cursor]) /\ Depth([m EXCEPT !.cursor = cursor]) = Depth(m)
           /\ Sound([m EXCEPT !.pkg = pkg]) /\ Depth([m EXCEPT !.pkg = pkg]) = Depth(m)
BY DEF Sound, Mem, Depth

\* Where a list assignment installs its list.
LEMMA InstallSound ==
    ASSUME NEW m, Sound(m), NEW hash \in Hash
    PROVE  /\ Install(m) \in Places(m)
           /\ Sound(Put(m, Install(m), hash)) /\ Depth(Put(m, Install(m), hash)) = Depth(m)
<1>1. "main" \in Packages /\ Depth(m) \in 1 .. Depth(m)
  BY SoundFields
<1>2. Install(m) \in Places(m)
  BY <1>1 DEF Install, Places
<1> QED BY <1>2, PutSound DEF Alike, Depth

\* each.
LEMMA EachSound ==
    ASSUME NEW m, Sound(m), NEW n \in Each(m)
    PROVE  Sound(n) /\ Depth(n) = Depth(m)
<1> DEFINE left == IF m.cursor.on THEN m.cursor.left ELSE Held(GetHash(m))
<1>1. left \subseteq Keys
  BY SoundFields DEF Held, Cursor
<1>2. n = [m EXCEPT !.cursor = NoCursor]
      \/ \E k \in left : n = [m EXCEPT !.cursor = [on |-> TRUE, left |-> left \ {k}]]
  BY DEF Each
<1>3. NoCursor \in Cursor /\ \A k \in left : [on |-> TRUE, left |-> left \ {k}] \in Cursor
  BY <1>1 DEF NoCursor, Cursor
<1> HIDE DEF left
<1>4. m.pkg \in Packages
  BY SoundFields
<1>5. \A c \in Cursor : Sound([m EXCEPT !.cursor = c]) /\ Depth([m EXCEPT !.cursor = c]) = Depth(m)
  BY <1>4, FieldsSound
<1> QED BY <1>2, <1>3, <1>5

\* The innermost scope is popped.
LEMMA PoppedSound ==
    ASSUME NEW m, Sound(m), Depth(m) > 1
    PROVE  LET n == [m EXCEPT !.frames = Front(@)]
           IN /\ Sound(n) /\ Depth(n) = Depth(m) - 1
              /\ \A d \in 1 .. Depth(m) - 1 : n.frames[d] = m.frames[d]
              /\ n.plain = m.plain /\ n.heap = m.heap /\ n.shared = m.shared /\ n.pkg = m.pkg
              /\ Last(m.frames) = m.frames[Depth(m)] /\ Last(m.frames) \in Block
<1> DEFINE f == Front(m.frames)
           n == [m EXCEPT !.frames = f]
<1>1. m \in Mem /\ m.frames # <<>> /\ \A p \in Packages : m.shared[p] <= Len(m.heap)
  BY DEF Sound
<1>2. m.frames \in Seq(Block) /\ Depth(m) = Len(m.frames)
  BY SoundFields DEF Depth
<1>3. /\ f \in Seq(Block) /\ Len(f) = Len(m.frames) - 1
      /\ \A d \in 1 .. Len(m.frames) - 1 : f[d] = m.frames[d]
      /\ f = <<>> <=> Len(m.frames) = 1
  BY <1>1, <1>2, FrontOfSeq
<1>4. f # <<>>
  BY <1>2, <1>3
<1>5. Last(m.frames) = m.frames[Len(m.frames)] /\ m.frames[Len(m.frames)] \in Block
  BY <1>1, <1>2, LastOfSeq
<1> HIDE DEF f
<1>6. /\ n \in Mem /\ n.frames = f /\ n.heap = m.heap /\ n.shared = m.shared
      /\ n.plain = m.plain /\ n.pkg = m.pkg
  BY <1>1, <1>3 DEF Mem
<1> HIDE DEF n
<1>7. Sound(n) /\ Depth(n) = Depth(m) - 1
  BY <1>1, <1>2, <1>3, <1>4, <1>6 DEF Sound, Depth
<1> QED BY <1>2, <1>3, <1>5, <1>6, <1>7 DEF n, f

\* Leaving a block: what is popped, whole hashes put back, then elements.
LEMMA Closing ==
    ASSUME NEW m, Sound(m), Depth(m) > 1
    PROVE  \E popped, wholes, elems :
              /\ popped = [m EXCEPT !.frames = Front(@)]
              /\ wholes = Undo(RestoreWhole, popped, m.frames[Depth(m)].whole)
              /\ elems = Undo(RestoreElem, wholes, m.frames[Depth(m)].elems)
              /\ Writes(popped, wholes) /\ Writes(wholes, elems)
              /\ CloseBlock(m) = [elems EXCEPT !.pkg = m.frames[Depth(m)].back]
              /\ Sound(CloseBlock(m)) /\ Depth(CloseBlock(m)) = Depth(m) - 1
<1> DEFINE top == m.frames[Depth(m)]
           popped == [m EXCEPT !.frames = Front(@)]
           wholes == Undo(RestoreWhole, popped, top.whole)
           elems == Undo(RestoreElem, wholes, top.elems)
           n == [elems EXCEPT !.pkg = top.back]
<1>1. Sound(popped) /\ Depth(popped) = Depth(m) - 1 /\ Last(m.frames) = top /\ top \in Block
  BY PoppedSound
<1>2. CloseBlock(m) = n
  BY <1>1 DEF CloseBlock
<1>3. top.whole \in Seq(Hash) /\ top.elems \in Seq(Save) /\ top.back \in Packages
  BY <1>1 DEF Block
<1> HIDE DEF top, popped
<1>4. Writes(popped, wholes)
  <2>1. PICK r : wholes = r[Len(top.whole)]
                 /\ \A i \in 0 .. Len(top.whole) : Writes(popped, r[i])
    BY <1>1, <1>3, UndoWholes
  <2>2. Len(top.whole) \in 0 .. Len(top.whole)
    BY <1>3, LenProperties
  <2> HIDE DEF wholes
  <2> QED BY <2>1, <2>2
<1>5. Sound(wholes) /\ Depth(wholes) = Depth(popped)
  BY <1>4 DEF Writes, Alike, Depth
<1> HIDE DEF wholes
<1>6. Writes(wholes, elems)
  <2>1. PICK r : elems = r[Len(top.elems)]
                 /\ \A i \in 0 .. Len(top.elems) : Writes(wholes, r[i])
    BY <1>3, <1>5, UndoElems
  <2>2. Len(top.elems) \in 0 .. Len(top.elems)
    BY <1>3, LenProperties
  <2> HIDE DEF elems
  <2> QED BY <2>1, <2>2
<1>7. Sound(elems) /\ Depth(elems) = Depth(wholes)
  BY <1>6 DEF Writes, Alike, Depth
<1> HIDE DEF elems
<1>8. Sound(n) /\ Depth(n) = Depth(elems)
  <2>1. NoCursor \in Cursor
    BY DEF NoCursor, Cursor
  <2> QED BY <1>3, <1>7, <2>1, FieldsSound
<1> QED BY <1>1, <1>2, <1>4, <1>5, <1>6, <1>7, <1>8 DEF elems, wholes, popped, top
-----------------------------------------------------------------------------
\* What every operation but a block's begin and end does to the histories.
HistoryKept ==
    /\ UNCHANGED before
    /\ tainted' = tainted \/ tainted' = [d \in DOMAIN tainted |-> TRUE]

\* The histories keep their types.
LEMMA HistoryTyped ==
    ASSUME TypeOK, HistoryKept, Depth(mem') = Depth(mem)
    PROVE  /\ before' \in Seq(Hash) /\ tainted' \in Seq(BOOLEAN)
           /\ Len(before') = Depth(mem') /\ Len(tainted') = Depth(mem')
<1>1. tainted \in Seq(BOOLEAN) /\ Len(tainted) = Depth(mem) /\ DOMAIN tainted = 1 .. Len(tainted)
      /\ Len(tainted) \in Nat
  BY DEF TypeOK
<1>2. [d \in 1 .. Len(tainted) |-> TRUE] \in Seq(BOOLEAN)
      /\ Len([d \in 1 .. Len(tainted) |-> TRUE]) = Len(tainted)
  <2> DEFINE n == Len(tainted)
  <2>1. n \in Nat
    BY <1>1
  <2> HIDE DEF n
  <2>2. TRUE \in BOOLEAN
    OBVIOUS
  <2>3. [d \in 1 .. n |-> TRUE] \in Seq(BOOLEAN) /\ Len([d \in 1 .. n |-> TRUE]) = n
    BY <2>1, <2>2, SameThroughout
  <2> QED BY <2>3 DEF n
<1> QED BY <1>1, <1>2 DEF TypeOK, HistoryKept

SoundState == Sound(mem) /\ list \in Hash \cup {NoHash} /\ ops \in 0 .. MaxOps

\* The type invariant, as the lemmas about memories need it.
LEMMA TypeIsSound ==
    ASSUME TypeOK
    PROVE  Sound(mem) /\ SoundState
BY DEF TypeOK, Sound, SoundState

\* A step that keeps the number of scopes.
LEMMA StillTyped ==
    ASSUME TypeOK, SoundState', HistoryKept, Depth(mem') = Depth(mem)
    PROVE  TypeOK'
<1>1. /\ before' \in Seq(Hash) /\ tainted' \in Seq(BOOLEAN)
      /\ Len(before') = Depth(mem') /\ Len(tainted') = Depth(mem')
  BY HistoryTyped
<1> QED BY <1>1 DEF SoundState, Sound, TypeOK

\* The count of operations.
LEMMA StatementOps ==
    ASSUME ops \in 0 .. MaxOps, ops > 0
    PROVE  ops - 1 \in 0 .. MaxOps
BY HashesAssumption

\* A statement that is one operation.
LEMMA DoTyped ==
    ASSUME TypeOK, NEW op, NEW m, Do(op, m), Sound(m), Depth(m) = Depth(mem)
    PROVE  TypeOK'
<1>1. /\ mem' = m /\ list' = list /\ ops > 0 /\ ops' = ops - 1 /\ HistoryKept
  BY DEF Do, Statement, Taints, HistoryKept
<1>2. SoundState'
  BY <1>1, StatementOps, TypeIsSound DEF SoundState
<1> QED BY <1>1, <1>2, StillTyped

\* The statements.
LEMMA BuiltinTyped ==
    ASSUME TypeOK, Builtin
    PROVE  TypeOK'
<1>0. Sound(mem) /\ mem.pkg \in Packages
  BY TypeIsSound, SoundFields
<1>1. \A n : Writes(mem, n) => Sound(n) /\ Depth(n) = Depth(mem)
  BY DEF Writes, Alike, Depth
<1>2. ASSUME NEW k \in Keys, NEW v \in Items, Do("elem", SetElem(mem, k, v))
      PROVE TypeOK'
  <2>1. Writes(mem, SetElem(mem, k, v))
    BY <1>0, SetElemWrites
  <2> QED BY <1>1, <1>2, <2>1, DoTyped
<1>3. ASSUME NEW k \in Keys, NEW v \in Items, Do("local", LocalElem(mem, k, v))
      PROVE TypeOK'
  <2>1. Sound(SaveElem(mem, k)) /\ Depth(SaveElem(mem, k)) = Depth(mem)
    BY <1>0, SaveElemSaves
  <2>2. Writes(SaveElem(mem, k), LocalElem(mem, k, v))
    BY <2>1, SetElemWrites DEF LocalElem
  <2>3. Sound(LocalElem(mem, k, v)) /\ Depth(LocalElem(mem, k, v)) = Depth(mem)
    BY <2>1, <2>2 DEF Writes, Alike, Depth
  <2> QED BY <1>3, <2>3, DoTyped
<1>4. ASSUME NEW k \in Keys, Do("elem", Delete(mem, k))
      PROVE TypeOK'
  <2>1. Writes(mem, Delete(mem, k))
    BY <1>0, DeleteWrites
  <2> QED BY <1>1, <1>4, <2>1, DoTyped
<1>5. ASSUME NEW k \in Keys, Do("local", DeleteLocal(mem, k))
      PROVE TypeOK'
  <2>1. Sound(SaveElem(mem, k)) /\ Depth(SaveElem(mem, k)) = Depth(mem)
    BY <1>0, SaveElemSaves
  <2>2. Writes(SaveElem(mem, k), DeleteLocal(mem, k))
    BY <2>1, LessKeyWrites DEF DeleteLocal
  <2>3. Sound(DeleteLocal(mem, k)) /\ Depth(DeleteLocal(mem, k)) = Depth(mem)
    BY <2>1, <2>2 DEF Writes, Alike, Depth
  <2> QED BY <1>5, <2>3, DoTyped
<1>6. ASSUME NEW m \in Each(mem), Do("each", m)
      PROVE TypeOK'
  BY <1>0, <1>6, EachSound, DoTyped
<1>7. ASSUME Do("each", ResetEach(mem))
      PROVE TypeOK'
  <2>1. NoCursor \in Cursor
    BY DEF NoCursor, Cursor
  <2>2. Sound(ResetEach(mem)) /\ Depth(ResetEach(mem)) = Depth(mem)
    BY <1>0, <2>1, FieldsSound DEF ResetEach
  <2> QED BY <1>7, <2>2, DoTyped
<1>8. ASSUME Do("ref", Ref(mem))
      PROVE TypeOK'
  BY <1>0, <1>8, RefSound, DoTyped
<1>9. ASSUME NEW hash \in Hash, Do("our", Our(mem, hash))
      PROVE TypeOK'
  BY <1>0, <1>9, OurSound, DoTyped
<1>10. ASSUME NEW p \in Packages, Do("package", [mem EXCEPT !.pkg = p])
       PROVE TypeOK'
  <2>1. NoCursor \in Cursor
    BY DEF NoCursor, Cursor
  <2>2. Sound([mem EXCEPT !.pkg = p]) /\ Depth([mem EXCEPT !.pkg = p]) = Depth(mem)
    BY <1>0, <2>1, FieldsSound
  <2> QED BY <1>10, <2>2, DoTyped
<1> QED BY <1>2, <1>3, <1>4, <1>5, <1>6, <1>7, <1>8, <1>9, <1>10 DEF Builtin

\* A list assignment begins.
LEMMA BeginsTyped ==
    ASSUME TypeOK, NEW m, Sound(m), Depth(m) = Depth(mem), NEW hash \in Hash, NEW op,
           Statement(op), Begins(m, hash), Taints(op)
    PROVE  TypeOK'
<1>1. /\ mem' = Put(m, Install(m), GetHash(m)) /\ list' = hash /\ ops > 0 /\ ops' = ops - 1
      /\ HistoryKept
  BY DEF Begins, Statement, Taints, HistoryKept
<1>2. Sound(mem') /\ Depth(mem') = Depth(mem)
  BY <1>1, GetHashTyped, InstallSound
<1>3. SoundState'
  BY <1>1, <1>2, StatementOps, TypeIsSound DEF SoundState
<1> QED BY <1>1, <1>2, <1>3, StillTyped

\* The statements that begin one.
LEMMA AssignListTyped ==
    ASSUME TypeOK, AssignList
    PROVE  TypeOK'
<1>1. PICK hash \in Hash :
        \/ Statement("list") /\ Begins(mem, hash) /\ Taints("list")
        \/ Statement("localhash") /\ Begins(SaveWhole(mem), hash) /\ Taints("localhash")
        \/ Statement("our") /\ Begins(mem, hash) /\ Taints("our")
  BY DEF AssignList
<1>2. Sound(mem) /\ Sound(SaveWhole(mem)) /\ Depth(SaveWhole(mem)) = Depth(mem)
  BY TypeIsSound, SaveWholeSound
<1> QED BY <1>1, <1>2, BeginsTyped

\* An entry goes, its destructor may write.
LEMMA TakeEntryTyped ==
    ASSUME TypeOK, TakeEntry
    PROVE  TypeOK'
<1>0. Sound(mem)
  BY TypeIsSound
<1>1. PICK k \in Keys :
        LET taken == Take(mem, k)
        IN \/ mem' = taken /\ ops' = ops
           \/ ops > 0 /\ ops' = ops - 1 /\ \E j \in Keys, v \in Items : mem' = SetElem(taken, j, v)
  BY DEF TakeEntry, Held
<1>2. Writes(mem, Take(mem, k))
  BY <1>0, TakeWrites
<1>3. Sound(Take(mem, k))
  BY <1>2 DEF Writes
<1>4. Writes(mem, mem') /\ ops' \in 0 .. MaxOps
  <2>1. CASE mem' = Take(mem, k) /\ ops' = ops
    BY <1>2, <2>1, TypeIsSound DEF SoundState
  <2>2. CASE ops > 0 /\ ops' = ops - 1 /\ \E j \in Keys, v \in Items : mem' = SetElem(Take(mem, k), j, v)
    <3>1. Writes(Take(mem, k), mem')
      BY <1>3, <2>2, SetElemWrites
    <3>2. Writes(mem, mem')
      BY <1>0, <1>2, <3>1, WritesCompose
    <3> QED BY <2>2, <3>2, StatementOps, TypeIsSound DEF SoundState
  <2> QED BY <1>1, <2>1, <2>2
<1>5. Sound(mem') /\ Depth(mem') = Depth(mem)
  BY <1>4 DEF Writes, Alike, Depth
<1>6. SoundState' /\ HistoryKept
  BY <1>4, <1>5, TypeIsSound DEF TakeEntry, SoundState, HistoryKept
<1> QED BY <1>5, <1>6, StillTyped

\* A list assignment ends.
LEMMA InstallListTyped ==
    ASSUME TypeOK, InstallList
    PROVE  TypeOK'
<1>1. list \in Hash /\ mem' = Put(mem, Install(mem), list) /\ Sound(mem)
  BY TypeIsSound DEF InstallList, Clearing, SoundState
<1>2. Sound(mem') /\ Depth(mem') = Depth(mem)
  BY <1>1, InstallSound
<1>3. SoundState' /\ HistoryKept
  BY <1>2, TypeIsSound DEF InstallList, SoundState, HistoryKept
<1> QED BY <1>2, <1>3, StillTyped

\* What opening a block does.
LEMMA OpenBlockOpens ==
    ASSUME TypeOK, OpenBlock
    PROVE  /\ Sound(mem') /\ Depth(mem') = Depth(mem) + 1
           /\ \A d \in 1 .. Depth(mem) : mem'.frames[d] = mem.frames[d]
           /\ mem'.frames[Depth(mem) + 1] = Frame(mem.pkg)
           /\ mem'.plain = mem.plain /\ mem'.heap = mem.heap /\ mem'.shared = mem.shared
           /\ mem'.pkg = mem.pkg
<1> DEFINE f == Append(mem.frames, Frame(mem.pkg))
<1>0. Sound(mem) /\ mem \in Mem /\ \A p \in Packages : mem.shared[p] <= Len(mem.heap)
  BY TypeIsSound DEF Sound
<1>1. mem.frames \in Seq(Block) /\ mem.pkg \in Packages
  BY <1>0, SoundFields
<1>2. Frame(mem.pkg) \in Block
  BY <1>1 DEF Frame, Block
<1>3. /\ f \in Seq(Block) /\ Len(f) = Len(mem.frames) + 1 /\ f # <<>>
      /\ \A d \in 1 .. Len(mem.frames) : f[d] = mem.frames[d]
      /\ f[Len(mem.frames) + 1] = Frame(mem.pkg)
  BY <1>1, <1>2, AppendToSeq
<1>4. mem' = [mem EXCEPT !.frames = f]
  BY DEF OpenBlock
<1> HIDE DEF f
<1>5. /\ mem' \in Mem /\ mem'.frames = f /\ mem'.heap = mem.heap /\ mem'.shared = mem.shared
      /\ mem'.plain = mem.plain /\ mem'.pkg = mem.pkg
  BY <1>0, <1>3, <1>4 DEF Mem
<1>6. Sound(mem')
  BY <1>0, <1>3, <1>5 DEF Sound
<1> QED BY <1>3, <1>5, <1>6 DEF Depth

\* A block opens.
LEMMA OpenBlockTyped ==
    ASSUME TypeOK, OpenBlock
    PROVE  TypeOK'
<1>1. Sound(mem') /\ Depth(mem') = Depth(mem) + 1
  BY OpenBlockOpens
<1>2. before \in Seq(Hash) /\ tainted \in Seq(BOOLEAN) /\ Sound(mem)
  BY TypeIsSound DEF TypeOK
<1>3. before' \in Seq(Hash) /\ Len(before') = Len(before) + 1
  BY <1>2, GetHashTyped, AppendToSeq DEF OpenBlock
<1>4. tainted' \in Seq(BOOLEAN) /\ Len(tainted') = Len(tainted) + 1
  <2>1. FALSE \in BOOLEAN
    OBVIOUS
  <2>2. Append(tainted, FALSE) \in Seq(BOOLEAN) /\ Len(Append(tainted, FALSE)) = Len(tainted) + 1
    BY <1>2, <2>1, AppendToSeq
  <2> QED BY <2>2 DEF OpenBlock
<1>5. SoundState'
  BY <1>1, StatementOps, TypeIsSound DEF OpenBlock, SoundState
<1> QED BY <1>1, <1>3, <1>4, <1>5 DEF TypeOK, SoundState, Sound

\* A block ends.
LEMMA EndBlockTyped ==
    ASSUME TypeOK, EndBlock
    PROVE  TypeOK'
<1>1. Sound(mem') /\ Depth(mem') = Depth(mem) - 1
  BY Closing, TypeIsSound DEF EndBlock
<1>2. /\ before \in Seq(Hash) /\ tainted \in Seq(BOOLEAN) /\ Len(before) = Depth(mem)
      /\ Len(tainted) = Depth(mem) /\ Depth(mem) > 1
  BY DEF TypeOK, EndBlock
<1>3. before # <<>> /\ tainted # <<>>
  BY <1>2, EmptySeq
<1>4. before' \in Seq(Hash) /\ Len(before') = Len(before) - 1
  BY <1>2, <1>3, FrontOfSeq DEF EndBlock
<1>5. tainted' \in Seq(BOOLEAN) /\ Len(tainted') = Len(tainted) - 1
  BY <1>2, <1>3, FrontOfSeq DEF EndBlock
<1>6. SoundState'
  BY <1>1, TypeIsSound DEF EndBlock, SoundState
<1> QED BY <1>1, <1>2, <1>4, <1>5, <1>6 DEF TypeOK, SoundState, Sound

\* At the start.
LEMMA TypeInit ==
    ASSUME Init
    PROVE  TypeOK
<1>1. "main" \in Packages /\ Empty \in Hash /\ MaxOps \in Nat
  BY HashesAssumption, EmptyTyped
<1>2. Frame("main") \in Block
  BY <1>1 DEF Frame, Block
<1>3. /\ <<Frame("main")>> \in Seq(Block) /\ Len(<<Frame("main")>>) = 1 /\ <<Frame("main")>> # <<>>
  <2> DEFINE f == Frame("main")
  <2> HIDE DEF f
  <2>1. f \in Block
    BY <1>2 DEF f
  <2> QED BY <2>1 DEF f
<1>4. mem \in Mem /\ mem.frames = <<Frame("main")>> /\ mem.heap = <<>>
      /\ \A p \in Packages : mem.shared[p] = 0
  <2>1. NoCursor \in Cursor
    BY DEF NoCursor, Cursor
  <2> QED BY <1>1, <1>3, <2>1 DEF Init, Mem
<1>5. before \in Seq(Hash) /\ Len(before) = 1
  BY <1>1 DEF Init
<1>6. tainted \in Seq(BOOLEAN) /\ Len(tainted) = 1
  <2>1. FALSE \in BOOLEAN
    OBVIOUS
  <2> QED BY <2>1 DEF Init
<1> QED BY <1>1, <1>3, <1>4, <1>5, <1>6 DEF Init, TypeOK, Depth

\* Every step keeps the types.
LEMMA TypeStep ==
    ASSUME TypeOK, [Next]_vars
    PROVE  TypeOK'
<1>1. CASE UNCHANGED vars
  BY <1>1 DEF TypeOK, vars, Depth
<1>2. CASE Next
  <2>1. CASE Over
    BY <2>1 DEF Over, TypeOK, vars, Depth
  <2> QED BY <1>2, <2>1, AssignListTyped, BuiltinTyped, TakeEntryTyped, InstallListTyped,
             OpenBlockTyped, EndBlockTyped DEF Next
<1> QED BY <1>1, <1>2

\* The scopes, hashes, cursors and histories keep their types, every Rc that is
\* registered exists, and the last scope is never left, whatever destructors do.
THEOREM TypeCorrect == Spec => []TypeOK
<1>1. Init => TypeOK
  BY TypeInit
<1>2. TypeOK /\ [Next]_vars => TypeOK'
  BY TypeStep
<1> QED BY <1>1, <1>2, PTL DEF Spec
-----------------------------------------------------------------------------
\* A list assignment that ends is seen.
LEMMA InstallSeen ==
    ASSUME TypeOK, InstallList, ~Hidden, ~Torn
    PROVE  GetHash(mem') = list
<1> DEFINE D == Depth(mem)
<1>0. Sound(mem) /\ list \in Hash /\ list # NoHash /\ mem' = Put(mem, Install(mem), list)
  BY TypeIsSound DEF InstallList, Clearing, SoundState
<1>1. /\ Install(mem) \in Places(mem) /\ Sound(mem') /\ Depth(mem') = D
      /\ At(mem', Install(mem)) = list /\ mem'.shared = mem.shared /\ mem'.pkg = mem.pkg
      /\ (Install(mem).kind # "frame" => mem'.frames = mem.frames)
  BY <1>0, InstallSound, PutSound DEF Alike
<1>2. D \in 1 .. D /\ D \in Nat
  BY <1>0, SoundFields
<1>3. CASE Install(mem) = Frames(D)
  <2>1. mem'.frames[D].h = list
    BY <1>1, <1>3 DEF At, Frames
  <2>2. Lexical(mem') # {}
    BY <1>0, <1>1, <1>2, <2>1 DEF Lexical
  <2>3. Max(Lexical(mem')) = D
    <3> DEFINE x == Max(Lexical(mem'))
    <3>1. x \in 1 .. D /\ \A d \in 1 .. D : mem'.frames[d].h # NoHash => d <= x
      BY <1>1, <2>2, Innermost
    <3> HIDE DEF x
    <3>2. D <= x
      BY <1>0, <1>2, <2>1, <3>1
    <3> QED BY <1>2, <3>1, <3>2 DEF x
  <2>4. PlaceOr(mem', Plain(mem'.pkg)) = Frames(D)
    BY <2>2, <2>3 DEF PlaceOr
  <2> QED BY <1>0, <1>1, <1>3, <2>4 DEF GetHash
<1>4. CASE Install(mem) # Frames(D)
  <2>1. Install(mem) = Cells(mem, "main") /\ mem.shared["main"] # 0
    BY <1>4 DEF Install
  <2>2. Lexical(mem) = {}
    BY <2>1 DEF Hidden, Cells
  <2>3. Lexical(mem') = {}
    BY <1>1, <2>1, <2>2 DEF Lexical, Depth, Cells
  <2>4. mem.shared[mem.pkg] = 0 \/ mem.shared[mem.pkg] = mem.shared["main"]
    BY <2>2 DEF Torn
  <2>5. PlaceOr(mem', Plain(mem'.pkg)) = Cells(mem, "main")
    BY <1>1, <2>1, <2>3, <2>4 DEF PlaceOr, Cells
  <2> QED BY <1>0, <1>1, <2>1, <2>5 DEF GetHash
<1> QED BY <1>3, <1>4

\* However destructors refill the hash while a list assignment empties it, what is read
\* when it is over is the list, unless the Rc is hidden or torn.
THEOREM AssignmentIsSeen == Spec => AssignmentSeen
<1>1. TypeOK /\ [Next]_vars => [InstallList /\ ~Hidden /\ ~Torn => GetHash(mem') = list]_vars
  BY InstallSeen
<1> QED BY <1>1, TypeCorrect, PTL DEF Spec, AssignmentSeen
-----------------------------------------------------------------------------
(***************************************************************************)
(* What makes a list assignment end: every entry that is taken out is one  *)
(* that is read.                                                           *)
(***************************************************************************)
\* A list assignment first puts the hash where its entries are then taken from.
Reached == Clearing => Lexical(mem) # {} \/ mem.shared["main"] # 0

\* The loop of set_hash_from_list comes nearer its end with each entry: a destructor
\* has run, of which there are so many, or what is read has lost the entry that was
\* taken and no other.  The hash that is read is not torn from the one that is emptied
\* on the way.
EntriesGo ==
    [][TakeEntry /\ ~Torn =>
          /\ ~Torn'
          /\ \/ ops' < ops
             \/ /\ ops' = ops
                /\ \E k \in Held(GetHash(mem)) :
                      Held(GetHash(mem')) = Held(GetHash(mem)) \ {k}]_vars

\* Writing to hashes hides and uncovers none.
LEMMA WritesHideNothing ==
    ASSUME NEW m, NEW n, Sound(m), Writes(m, n)
    PROVE  Lexical(n) = Lexical(m) /\ n.shared = m.shared /\ n.pkg = m.pkg
BY DEF Writes, Alike, Lexical, Depth

\* The statements that begin a list assignment put the hash within reach.
LEMMA BeginsReach ==
    ASSUME NEW m, Sound(m), NEW hash \in Hash, Begins(m, hash)
    PROVE  Reached'
<1> DEFINE D == Depth(m)
           h == GetHash(m)
<1>1. mem' = Put(m, Install(m), h) /\ list' = hash
  BY DEF Begins
<1>2. h \in Hash
  BY GetHashTyped
<1> HIDE DEF h
<1>3. /\ Install(m) \in Places(m) /\ At(mem', Install(m)) = h
      /\ mem'.shared = m.shared /\ Depth(mem') = D
  BY <1>1, <1>2, InstallSound, PutSound DEF Alike
<1>4. D \in 1 .. D
  BY SoundFields
<1>5. CASE hash = NoHash
  BY <1>1, <1>5 DEF Reached, Clearing
<1>6. CASE hash # NoHash /\ Install(m) = Frames(D)
  <2>1. PICK k : k \in Keys
    <3>1. CASE Keys = {}
      BY <1>6, <3>1 DEF Hash, NoHash
    <3> QED BY <3>1
  <2>2. h # NoHash
    BY <1>2, <2>1, HashIsSome
  <2>3. mem'.frames[D].h = h
    BY <1>3, <1>6 DEF At, Frames
  <2>4. D \in Lexical(mem')
    BY <1>3, <1>4, <2>2, <2>3 DEF Lexical
  <2> QED BY <2>4 DEF Reached
<1>7. CASE Install(m) # Frames(D)
  <2>1. m.shared["main"] # 0
    BY <1>7 DEF Install
  <2> QED BY <1>3, <2>1 DEF Reached
<1> QED BY <1>5, <1>6, <1>7

\* The entry is taken from the hash that is read.
LEMMA TakenFromRead ==
    ASSUME NEW m, Sound(m), Lexical(m) # {} \/ m.shared["main"] # 0,
           Lexical(m) = {} => m.shared[m.pkg] = 0 \/ m.shared[m.pkg] = m.shared["main"],
           NEW k \in Keys
    PROVE  GetHash(Take(m, k)) = [GetHash(m) EXCEPT ![k] = Absent]
<1> DEFINE place == PlaceOr(m, Plain(m.pkg))
           hash == [At(m, place) EXCEPT ![k] = Absent]
           n == Take(m, k)
<1>0. "main" \in Packages /\ m.pkg \in Packages
  BY SoundFields
<1>1. Lexical(n) = Lexical(m) /\ n.shared = m.shared /\ n.pkg = m.pkg
  BY TakeWrites, WritesHideNothing
<1>2. PlaceOr(n, Plain(n.pkg)) = place
  BY <1>1 DEF PlaceOr, Cells
<1>3. At(m, place) \in Hash /\ At(m, place) # NoHash
  <2>1. place \in Places(m) /\ At(m, place) \in Hash \cup {NoHash}
    BY <1>0, PlaceOrTyped, AtTyped
  <2>2. CASE Lexical(m) # {}
    <3>1. At(m, place) = m.frames[Max(Lexical(m))].h
      BY <2>2 DEF PlaceOr, At, Frames
    <3> QED BY <2>1, <2>2, <3>1, Innermost
  <2>3. CASE Lexical(m) = {}
    <3>1. place.kind = "cell"
      BY <2>3 DEF PlaceOr, Cells
    <3> HIDE DEF place
    <3> QED BY <2>1, <3>1, AtTyped, HashIsSome
  <2> QED BY <2>2, <2>3
<1>4. n = Put(m, place, hash)
  <2>1. CASE Lexical(m) # {}
    BY <2>1 DEF Take, PlaceOr
  <2>2. CASE Lexical(m) = {}
    <3>1. m.shared["main"] # 0 /\ place = Cells(m, "main")
      BY <2>2 DEF PlaceOr, Cells
    <3> QED BY <2>2, <3>1 DEF Take
  <2> QED BY <2>1, <2>2
<1>5. GetHash(m) = At(m, place)
  BY <1>3 DEF GetHash
<1>6. place \in Places(m)
  BY <1>0, PlaceOrTyped
<1> HIDE DEF place, n
<1>7. hash \in Hash /\ hash # NoHash
  BY <1>3, WithKey
<1> HIDE DEF hash
<1>8. At(n, place) = hash
  BY <1>4, <1>6, <1>7, PutSound
<1>9. GetHash(n) = hash
  BY <1>2, <1>7, <1>8 DEF GetHash
<1> QED BY <1>5, <1>9 DEF n, hash

\* A step of the loop.
LEMMA TakeEntryGoes ==
    ASSUME TypeOK, Reached, TakeEntry
    PROVE  /\ Reached'
           /\ ~Torn => /\ ~Torn'
                       /\ \/ ops' < ops
                          \/ /\ ops' = ops
                             /\ \E k \in Held(GetHash(mem)) :
                                   Held(GetHash(mem')) = Held(GetHash(mem)) \ {k}
<1>0. Sound(mem) /\ ops \in 0 .. MaxOps /\ MaxOps \in Nat
  BY TypeIsSound, HashesAssumption DEF SoundState
<1>1. PICK k \in Held(GetHash(mem)) :
        \/ mem' = Take(mem, k) /\ ops' = ops
        \/ ops' = ops - 1 /\ \E j \in Keys, v \in Items : mem' = SetElem(Take(mem, k), j, v)
  BY DEF TakeEntry
<1>2. k \in Keys
  BY DEF Held
<1>3. Writes(mem, Take(mem, k)) /\ Sound(Take(mem, k))
  BY <1>0, <1>2, TakeWrites DEF Writes
<1>4. Writes(mem, mem')
  <2>1. CASE mem' = Take(mem, k)
    BY <1>3, <2>1
  <2>2. ASSUME NEW j \in Keys, NEW v \in Items, mem' = SetElem(Take(mem, k), j, v)
        PROVE Writes(mem, mem')
    <3>1. Writes(Take(mem, k), mem')
      BY <1>3, <2>2, SetElemWrites
    <3> QED BY <1>0, <1>3, <3>1, WritesCompose
  <2> QED BY <1>1, <2>1, <2>2
<1>5. Lexical(mem') = Lexical(mem) /\ mem'.shared = mem.shared /\ mem'.pkg = mem.pkg
  BY <1>0, <1>4, WritesHideNothing
<1>6. Lexical(mem) # {} \/ mem.shared["main"] # 0
  BY DEF TakeEntry, Reached
<1>7. Reached'
  BY <1>5, <1>6 DEF Reached
<1>8. ~Torn => ~Torn'
  BY <1>5 DEF Torn
<1>9. CASE ops' = ops - 1
  BY <1>0, <1>7, <1>8, <1>9
<1>10. ASSUME mem' = Take(mem, k), ops' = ops, ~Torn
       PROVE  Held(GetHash(mem')) = Held(GetHash(mem)) \ {k}
  <2>1. GetHash(mem') = [GetHash(mem) EXCEPT ![k] = Absent]
    BY <1>0, <1>2, <1>6, <1>10, TakenFromRead DEF Torn
  <2>2. GetHash(mem) \in [Keys -> Items \cup {Absent}]
    BY <1>0, GetHashTyped DEF Hash
  <2> QED BY <1>2, <2>1, <2>2 DEF Held
<1> QED BY <1>1, <1>7, <1>8, <1>9, <1>10

\* The hash stays within reach until the assignment is over.
LEMMA ReachStep ==
    ASSUME TypeOK, Reached, [Next]_vars
    PROVE  Reached'
<1>1. CASE list' = NoHash
  BY <1>1 DEF Reached, Clearing
<1>2. CASE UNCHANGED <<mem, list>>
  BY <1>2 DEF Reached, Clearing, Lexical, Depth
<1>3. CASE AssignList
  <2>1. Sound(mem) /\ Sound(SaveWhole(mem))
    BY TypeIsSound, SaveWholeSound
  <2> QED BY <1>3, <2>1, BeginsReach DEF AssignList
<1>4. CASE Builtin
  BY <1>1, <1>4 DEF Builtin, Do, Statement, Clearing
<1>5. CASE TakeEntry
  BY <1>5, TakeEntryGoes
<1>6. CASE InstallList
  BY <1>1, <1>6 DEF InstallList
<1>7. CASE OpenBlock \/ EndBlock
  BY <1>1, <1>7 DEF OpenBlock, EndBlock, Clearing
<1> QED BY <1>2, <1>3, <1>4, <1>5, <1>6, <1>7 DEF Next, Over, vars

\* For any number of keys, scopes and packages each turn of the loop takes an entry of
\* the hash that is read, whichever destructors run: with finitely many keys and
\* destructors it cannot turn for ever, as AssignmentEnds says.
THEOREM EntriesGoOneByOne == Spec => EntriesGo
<1>1. Init => Reached
  BY DEF Init, Reached, Clearing
<1>2. TypeOK /\ Reached /\ [Next]_vars => Reached'
  BY ReachStep
<1>3. TypeOK /\ Reached /\ [Next]_vars =>
        [TakeEntry /\ ~Torn =>
            /\ ~Torn'
            /\ \/ ops' < ops
               \/ /\ ops' = ops
                  /\ \E k \in Held(GetHash(mem)) :
                        Held(GetHash(mem')) = Held(GetHash(mem)) \ {k}]_vars
  BY TakeEntryGoes
<1> QED BY <1>1, <1>2, <1>3, TypeCorrect, PTL DEF Spec, EntriesGo

-----------------------------------------------------------------------------
(***************************************************************************)
(* Blocks that only localize elements.                                     *)
(***************************************************************************)
\* In main, with neither a lexical nor an Rc, everything looks at the global.
LEMMA MainsGlobalMeans ==
    ASSUME NEW m, Sound(m)
    PROVE  /\ MainsGlobal(m) <=> m.pkg = "main" /\ Lexical(m) = {} /\ m.shared["main"] = 0
           /\ MainsGlobal(m) => /\ PlaceOr(m, Plain("main")) = Plain("main")
                                /\ GetHash(m) = HashAt(m, Plain("main"))
<1>1. Plain("main").kind = "plain"
      /\ \A d : Frames(d).kind = "frame"
      /\ \A p : Cells(m, p).kind = "cell"
  BY DEF Plain, Frames, Cells
<1>2. MainsGlobal(m) <=> m.pkg = "main" /\ Lexical(m) = {} /\ m.shared["main"] = 0
  BY <1>1 DEF MainsGlobal, PlaceOr
<1>3. ASSUME MainsGlobal(m) PROVE PlaceOr(m, Plain("main")) = Plain("main")
  BY <1>2, <1>3 DEF PlaceOr
<1>4. ASSUME MainsGlobal(m) PROVE GetHash(m) = HashAt(m, Plain("main"))
  BY <1>2, <1>3, <1>4 DEF GetHash, HashAt
<1> QED BY <1>2, <1>3, <1>4

\* There an element is written to main's global.
LEMMA GlobalSet ==
    ASSUME NEW m, Sound(m), MainsGlobal(m), NEW k \in Keys, NEW v \in Items \cup {Absent}
    PROVE  LET n == [m EXCEPT !.plain["main"] = [GetHash(m) EXCEPT ![k] = v]]
           IN Writes(m, n) /\ MainsGlobal(n) /\ GetHash(n) = [GetHash(m) EXCEPT ![k] = v]
<1> DEFINE hash == [GetHash(m) EXCEPT ![k] = v]
           n == [m EXCEPT !.plain["main"] = hash]
<1>1. hash \in Hash /\ hash # NoHash
  BY GetHashTyped, WithKey
<1> HIDE DEF hash
<1>2. Writes(m, n) /\ n.plain["main"] = hash /\ n.frames = m.frames
  BY <1>1, PlainWrites
<1> HIDE DEF n
<1>3. Sound(n) /\ n.pkg = m.pkg /\ n.shared = m.shared /\ Lexical(n) = Lexical(m)
  BY <1>2 DEF Writes, Alike, Lexical, Depth
<1>4. MainsGlobal(n)
  BY <1>3, MainsGlobalMeans
<1>5. GetHash(n) = hash
  BY <1>1, <1>2, <1>3, <1>4, MainsGlobalMeans DEF HashAt, At, Plain
<1> QED BY <1>2, <1>4, <1>5 DEF n, hash

\* Setting an element there.
LEMMA GlobalSetElem ==
    ASSUME NEW m, Sound(m), MainsGlobal(m), NEW k \in Keys, NEW v \in Items \cup {Absent}
    PROVE  /\ Writes(m, SetElem(m, k, v)) /\ MainsGlobal(SetElem(m, k, v))
           /\ GetHash(SetElem(m, k, v)) = [GetHash(m) EXCEPT ![k] = v]
<1>1. /\ m.pkg = "main" /\ PlaceOr(m, Plain("main")) = Plain("main")
      /\ GetHash(m) = HashAt(m, Plain("main"))
  BY MainsGlobalMeans
<1>2. SetElem(m, k, v) = [m EXCEPT !.plain["main"] = [GetHash(m) EXCEPT ![k] = v]]
  BY <1>1 DEF SetElem, Put, Plain
<1> QED BY <1>2, GlobalSet

\* Deleting one locally.
LEMMA GlobalLessKey ==
    ASSUME NEW m, Sound(m), MainsGlobal(m), NEW k \in Keys
    PROVE  /\ Writes(m, LessKey(m, k)) /\ MainsGlobal(LessKey(m, k))
           /\ GetHash(LessKey(m, k)) = [GetHash(m) EXCEPT ![k] = Absent]
<1>1. LessKey(m, k) = [m EXCEPT !.plain["main"] = [GetHash(m) EXCEPT ![k] = Absent]]
  BY DEF LessKey
<1> QED BY <1>1, GlobalSet

\* Putting one back.
LEMMA GlobalRestore ==
    ASSUME NEW m, Sound(m), MainsGlobal(m), NEW save \in Save
    PROVE  /\ MainsGlobal(RestoreElem(m, save))
           /\ GetHash(RestoreElem(m, save)) = [GetHash(m) EXCEPT ![save.k] = save.old]
<1>1. save.k \in Keys /\ save.old \in Items \cup {Absent}
  BY DEF Save
<1> QED BY <1>1, GlobalSetElem, GlobalLessKey DEF RestoreElem

\* `left` is `found` with the saves undone, the first save of a key last.
Undoes(saves, found, left) ==
    \A k \in Keys :
        \/ \E i \in 1 .. Len(saves) :
              /\ saves[i].k = k /\ saves[i].old = left[k]
              /\ \A j \in 1 .. i - 1 : saves[j].k # k
        \/ (\A i \in 1 .. Len(saves) : saves[i].k # k) /\ left[k] = found[k]

\* A run that undoes them gives that.
LEMMA UndoGives ==
    ASSUME NEW m, Sound(m), MainsGlobal(m), NEW s \in Seq(Save), NEW left \in Hash,
           Undoes(s, GetHash(m), left)
    PROVE  MainsGlobal(Undo(RestoreElem, m, s)) /\ GetHash(Undo(RestoreElem, m, s)) = left
<1> DEFINE n == Len(s)
<1>1. n \in Nat /\ (\A i \in 1 .. n : s[i] \in Save)
      /\ (\A i \in 1 .. n : Reverse(s)[i] = s[n - i + 1])
  BY ElementOfSeq, ReverseOfSeq, LenProperties
<1>2. PICK r : /\ r[0] = m /\ Undo(RestoreElem, m, s) = r[n]
               /\ \A i \in 1 .. n : r[i] = RestoreElem(r[i - 1], Reverse(s)[i])
               /\ \A i \in 0 .. n : Writes(m, r[i])
  BY UndoElems
<1> HIDE DEF n
\* After i steps the keys of the last i saves have their values of that time.
<1> DEFINE Done(i) ==
             /\ MainsGlobal(r[i])
             /\ \A k \in Keys :
                   \/ \E j \in n + 1 - i .. n :
                         /\ s[j].k = k /\ s[j].old = GetHash(r[i])[k]
                         /\ \A l \in n + 1 - i .. j - 1 : s[l].k # k
                   \/ (\A j \in n + 1 - i .. n : s[j].k # k) /\ GetHash(r[i])[k] = GetHash(m)[k]
           T == {i \in 0 .. n : Done(i)}
<1>3. 0 \in T
  <2>1. n + 1 - 0 = n + 1 /\ n + 1 .. n = {} /\ 0 \in 0 .. n
    BY <1>1
  <2>2. Done(0)
    BY <1>2, <2>1
  <2> QED BY <2>1, <2>2
<1>4. ASSUME NEW i \in 1 .. n, i - 1 \in T PROVE i \in T
  <2> DEFINE c == n + 1 - i
  <2>1. Done(i - 1)
    BY <1>4
  <2>2. /\ c \in 1 .. n /\ n - i + 1 = c /\ n + 1 - (i - 1) = c + 1 /\ i \in 0 .. n /\ i - 1 \in 0 .. n
        /\ i \in Nat
    BY <1>1
  <2>3. s[c] \in Save /\ r[i] = RestoreElem(r[i - 1], s[c])
    BY <1>1, <1>2, <2>2
  <2>4. Sound(r[i - 1]) /\ MainsGlobal(r[i - 1])
    BY <1>2, <2>1, <2>2 DEF Writes
  <2>5. MainsGlobal(r[i]) /\ GetHash(r[i]) = [GetHash(r[i - 1]) EXCEPT ![s[c].k] = s[c].old]
    BY <2>3, <2>4, GlobalRestore
  <2>6. GetHash(r[i - 1]) \in Hash /\ s[c].k \in Keys
    BY <2>3, <2>4, GetHashTyped DEF Save
  <2> DEFINE g == GetHash(r[i - 1])
             h == GetHash(r[i])
  <2>7. h[s[c].k] = s[c].old /\ \A k \in Keys : k # s[c].k => h[k] = g[k]
    BY <2>5, <2>6 DEF Hash
  <2>8. \A k \in Keys :
           \/ \E j \in c + 1 .. n :
                 s[j].k = k /\ s[j].old = g[k] /\ \A l \in c + 1 .. j - 1 : s[l].k # k
           \/ (\A j \in c + 1 .. n : s[j].k # k) /\ g[k] = GetHash(m)[k]
    BY <2>1, <2>2
  <2> HIDE DEF g, h, c
  <2>9. c \in c .. n /\ c .. c - 1 = {} /\ c \in Nat
    BY <2>2
  <2>10. ASSUME NEW k \in Keys
         PROVE  \/ \E j \in c .. n :
                      s[j].k = k /\ s[j].old = h[k] /\ \A l \in c .. j - 1 : s[l].k # k
                \/ (\A j \in c .. n : s[j].k # k) /\ h[k] = GetHash(m)[k]
    <3>1. CASE s[c].k = k
      BY <2>7, <2>9, <3>1
    <3>2. CASE s[c].k # k
      <4>1. h[k] = g[k]
        BY <2>7, <3>2
      <4>2. CASE \E j \in c + 1 .. n :
                    s[j].k = k /\ s[j].old = g[k] /\ \A l \in c + 1 .. j - 1 : s[l].k # k
        <5>1. PICK j \in c + 1 .. n :
                    s[j].k = k /\ s[j].old = g[k] /\ \A l \in c + 1 .. j - 1 : s[l].k # k
          BY <4>2
        <5>2. j \in c .. n /\ \A l \in c .. j - 1 : l = c \/ l \in c + 1 .. j - 1
          BY <1>1, <2>9
        <5> QED BY <3>2, <4>1, <5>1, <5>2
      <4>3. CASE (\A j \in c + 1 .. n : s[j].k # k) /\ g[k] = GetHash(m)[k]
        <5>1. \A j \in c .. n : j = c \/ j \in c + 1 .. n
          BY <1>1, <2>9
        <5> QED BY <3>2, <4>1, <4>3, <5>1
      <4> QED BY <2>8, <4>2, <4>3
    <3> QED BY <3>1, <3>2
  <2>11. Done(i)
    BY <2>5, <2>10 DEF h, c
  <2> QED BY <2>2, <2>11
<1>5. Done(n)
  <2> HIDE DEF T
  <2>1. n \in T
    <3>1. n \in 0 .. n
      BY <1>1
    <3> QED BY <1>1, <1>3, <1>4, <3>1, CountUp
  <2> QED BY <2>1 DEF T
<1> DEFINE h == GetHash(r[n])
<1>6. \A k \in Keys :
         \/ \E j \in 1 .. n : s[j].k = k /\ s[j].old = h[k] /\ \A l \in 1 .. j - 1 : s[l].k # k
         \/ (\A j \in 1 .. n : s[j].k # k) /\ h[k] = GetHash(m)[k]
  <2>1. n + 1 - n = 1
    BY <1>1
  <2> QED BY <1>5, <2>1
<1>7. h \in Hash
  <2>1. n \in 0 .. n
    BY <1>1
  <2> QED BY <1>2, <2>1, GetHashTyped DEF Writes
<1> HIDE DEF h
<1>8. ASSUME NEW k \in Keys PROVE h[k] = left[k]
  <2>1. \/ \E j \in 1 .. n : s[j].k = k /\ s[j].old = left[k] /\ \A l \in 1 .. j - 1 : s[l].k # k
        \/ (\A j \in 1 .. n : s[j].k # k) /\ left[k] = GetHash(m)[k]
    BY DEF Undoes, n
  <2>2. CASE \A j \in 1 .. n : s[j].k # k
    BY <1>6, <2>1, <2>2
  <2>3. CASE ~ \A j \in 1 .. n : s[j].k # k
    <3>1. PICK i \in 1 .. n : s[i].k = k /\ s[i].old = left[k] /\ \A l \in 1 .. i - 1 : s[l].k # k
      BY <2>1, <2>3
    <3>2. PICK j \in 1 .. n : s[j].k = k /\ s[j].old = h[k] /\ \A l \in 1 .. j - 1 : s[l].k # k
      BY <1>6, <2>3
    <3>3. i \notin 1 .. j - 1 /\ j \notin 1 .. i - 1
      BY <3>1, <3>2
    <3>4. i = j
      BY <3>3
    <3> QED BY <3>1, <3>2, <3>4
  <2> QED BY <2>2, <2>3
<1>9. h = left
  BY <1>7, <1>8 DEF Hash
<1> QED BY <1>2, <1>5, <1>9 DEF h

-----------------------------------------------------------------------------
\* While a block and those within it have only localized elements, they have no
\* `my %h` and no whole hash to put back, and the package is the one they began in.
QuietInv ==
    \A d \in 1 .. Depth(mem) : ~tainted[d] =>
        /\ ~Clearing
        /\ \A e \in d .. Depth(mem) :
              /\ ~tainted[e] /\ mem.frames[e].h = NoHash /\ mem.frames[e].whole = <<>>
              /\ mem.frames[e].back = mem.pkg

\* Undoing the saves of each such block gives what it found; what it left itself is
\* what the next block inside it found.
ChainInv ==
    \A d \in 1 .. Depth(mem) : ~tainted[d] /\ MainsGlobal(mem) =>
        Undoes(mem.frames[d].elems,
               IF d < Depth(mem) THEN before[d + 1] ELSE GetHash(mem), before[d])

BackInv == TypeOK /\ QuietInv /\ ChainInv

\* An operation that is no `local` of an element ends the claim for the open blocks.
LEMMA AllTainted ==
    ASSUME TypeOK, TypeOK', Depth(mem') = Depth(mem),
           tainted' = [d \in DOMAIN tainted |-> TRUE]
           \/ (tainted' = tainted /\ \A d \in 1 .. Depth(mem) : tainted[d])
    PROVE  QuietInv' /\ ChainInv'
<1>1. DOMAIN tainted = 1 .. Depth(mem)
  BY DEF TypeOK
<1>2. \A d \in 1 .. Depth(mem') : tainted'[d]
  BY <1>1
<1> QED BY <1>2 DEF QuietInv, ChainInv

\* local $h{k} = v and delete local $h{k}.
LocalOf(k, v) ==
    /\ tainted' = tainted /\ list' = list /\ UNCHANGED before
    /\ \/ mem' = SetElem(SaveElem(mem, k), k, v)
       \/ mem' = LessKey(SaveElem(mem, k), k) /\ v = Absent

\* A `local` of an element adds one save and changes that element only.
LEMMA LocalKeepsBack ==
    ASSUME BackInv, NEW k \in Keys, NEW v \in Items \cup {Absent}, LocalOf(k, v)
    PROVE  QuietInv' /\ ChainInv'
<1> DEFINE D == Depth(mem)
           s == SaveElem(mem, k)
           save == [k |-> k, old |-> GetHash(mem)[k]]
<1>0. Sound(mem) /\ D \in Nat /\ D \in 1 .. D
  BY TypeIsSound, SoundFields DEF BackInv
<1>1. /\ Sound(s) /\ Depth(s) = D
      /\ \A d \in 1 .. D - 1 : s.frames[d] = mem.frames[d]
      /\ s.frames[D].h = mem.frames[D].h /\ s.frames[D].back = mem.frames[D].back
      /\ s.frames[D].whole = mem.frames[D].whole
      /\ s.frames[D].elems = Append(mem.frames[D].elems, save)
      /\ s.plain = mem.plain /\ s.heap = mem.heap /\ s.shared = mem.shared /\ s.pkg = mem.pkg
  BY <1>0, SaveElemSaves
<1> HIDE DEF s
<1>2. mem' = SetElem(s, k, v) \/ (mem' = LessKey(s, k) /\ v = Absent)
  BY DEF LocalOf, s
<1>3. Writes(s, mem')
  BY <1>1, <1>2, SetElemWrites, LessKeyWrites
<1>4. /\ Sound(mem') /\ Depth(mem') = D /\ mem'.shared = mem.shared /\ mem'.pkg = mem.pkg
      /\ \A d \in 1 .. D :
            /\ mem'.frames[d].h = NoHash <=> s.frames[d].h = NoHash
            /\ mem'.frames[d].back = s.frames[d].back
            /\ mem'.frames[d].whole = s.frames[d].whole
            /\ mem'.frames[d].elems = s.frames[d].elems
  BY <1>1, <1>3 DEF Writes, Alike, Depth
<1>5. \A d \in 1 .. D : d = D \/ d \in 1 .. D - 1
  BY <1>0
<1>6. \A d \in 1 .. D : s.frames[d].h = mem.frames[d].h /\ s.frames[d].back = mem.frames[d].back
                        /\ s.frames[d].whole = mem.frames[d].whole
  BY <1>1, <1>5
<1>7. QuietInv'
  <2>1. \A d \in 1 .. D : \A e \in d .. D : e \in 1 .. D
    BY <1>0
  <2> HIDE DEF D
  <2>2. Depth(mem) = D /\ Clearing' = Clearing
    BY DEF D, LocalOf, Clearing
  <2> QED BY <1>4, <1>6, <2>1, <2>2 DEF QuietInv, BackInv, LocalOf
<1>8. MainsGlobal(mem') <=> MainsGlobal(mem)
  <2>1. Lexical(mem') = Lexical(mem)
    BY <1>4, <1>6 DEF Lexical
  <2> QED BY <1>0, <1>4, <2>1, MainsGlobalMeans
<1>9. GetHash(s) = GetHash(mem) /\ (MainsGlobal(s) <=> MainsGlobal(mem))
  <2>1. Lexical(s) = Lexical(mem)
    BY <1>1, <1>6 DEF Lexical
  <2>2. \A p : PlaceOr(s, Plain(p)) = PlaceOr(mem, Plain(p))
    BY <1>1, <2>1 DEF PlaceOr, Cells
  <2>3. \A p : At(s, Plain(p)) = At(mem, Plain(p)) /\ HashAt(s, Plain(p)) = HashAt(mem, Plain(p))
    BY <1>1 DEF At, HashAt, Plain
  <2>4. MainsGlobal(s) <=> MainsGlobal(mem)
    BY <1>0, <1>1, <2>1, MainsGlobalMeans
  <2>5. At(s, PlaceOr(s, Plain(s.pkg))) = At(mem, PlaceOr(mem, Plain(mem.pkg)))
    <3>1. CASE Lexical(mem) # {}
      <4> DEFINE d == Max(Lexical(mem))
      <4>1. d \in 1 .. D
        BY <1>0, <3>1, Innermost
      <4> HIDE DEF d
      <4>2. At(s, Frames(d)) = At(mem, Frames(d))
        BY <1>6, <4>1 DEF At, Frames
      <4>3. PlaceOr(mem, Plain(mem.pkg)) = Frames(d)
        BY <3>1 DEF PlaceOr, d
      <4> QED BY <1>1, <2>2, <4>2, <4>3
    <3>2. CASE Lexical(mem) = {}
      <4>1. \A p : At(s, Cells(mem, p)) = At(mem, Cells(mem, p))
        BY <1>1 DEF At, Cells
      <4>2. PlaceOr(mem, Plain(mem.pkg)) \in {Cells(mem, mem.pkg), Cells(mem, "main"), Plain(mem.pkg)}
        BY <3>2 DEF PlaceOr
      <4> QED BY <1>1, <2>2, <2>3, <4>1, <4>2
    <3> QED BY <3>1, <3>2
  <2> QED BY <2>3, <2>4, <2>5 DEF GetHash
<1>10. ASSUME MainsGlobal(mem) PROVE GetHash(mem') = [GetHash(mem) EXCEPT ![k] = v]
  <2>1. MainsGlobal(s)
    BY <1>9, <1>10
  <2> QED BY <1>1, <1>2, <1>9, <2>1, GlobalSetElem, GlobalLessKey
<1>11. ChainInv'
  <2> SUFFICES ASSUME NEW d \in 1 .. D, ~tainted[d], MainsGlobal(mem)
               PROVE  Undoes(mem'.frames[d].elems,
                             IF d < D THEN before[d + 1] ELSE GetHash(mem'), before[d])
    BY <1>4, <1>8 DEF ChainInv, LocalOf
  <2>0. Undoes(mem.frames[d].elems, IF d < D THEN before[d + 1] ELSE GetHash(mem), before[d])
    BY DEF BackInv, ChainInv
  <2>1. CASE d # D
    <3>1. d \in 1 .. D - 1 /\ d < D
      BY <1>0, <2>1
    <3>2. mem'.frames[d].elems = mem.frames[d].elems
      BY <1>1, <1>4, <3>1
    <3> QED BY <2>0, <3>1, <3>2
  <2>2. CASE d = D
    <3> DEFINE e == mem.frames[D].elems
               n == Len(e)
               f == Append(e, save)
               g == GetHash(mem)
               h == GetHash(mem')
               b == before[D]
    <3>1. mem'.frames[d].elems = f /\ ~ (d < D)
      <4>1. mem'.frames[D].elems = s.frames[D].elems
        BY <1>0, <1>4
      <4>2. s.frames[D].elems = f
        BY <1>1
      <4> HIDE DEF D, f
      <4>3. ~ (d < D)
        BY <1>0, <2>2
      <4> QED BY <2>2, <4>1, <4>2, <4>3
    <3>2. e \in Seq(Save) /\ n \in Nat /\ g \in Hash
      <4>1. mem.frames[D] \in Block
        BY <1>0, SoundFields
      <4> QED BY <1>0, <4>1, GetHashTyped DEF Block
    <3>3. save \in Save
      BY <3>2 DEF Save, Hash
    <3>4. Len(f) = n + 1 /\ f[n + 1] = save /\ \A i \in 1 .. n : f[i] = e[i]
      <4> HIDE DEF e, save
      <4> QED BY <3>2, <3>3, AppendToSeq
    <3>5. Undoes(e, g, b)
      BY <2>0, <2>2, <3>1
    <3>6. h[k] = v /\ \A j \in Keys : j # k => h[j] = g[j]
      BY <1>10, <3>2 DEF Hash
    <3>7. save.k = k /\ save.old = g[k]
      OBVIOUS
    <3> HIDE DEF e, f, g, h, b, save, n
    <3>8. ASSUME NEW j \in Keys
          PROVE  \/ \E i \in 1 .. n + 1 :
                       f[i].k = j /\ f[i].old = b[j] /\ \A l \in 1 .. i - 1 : f[l].k # j
                 \/ (\A i \in 1 .. n + 1 : f[i].k # j) /\ b[j] = h[j]
      <4>0. \A i \in 1 .. n + 1 : i = n + 1 \/ i \in 1 .. n
        BY <3>2
      <4>1. CASE \E i \in 1 .. n :
                    e[i].k = j /\ e[i].old = b[j] /\ \A l \in 1 .. i - 1 : e[l].k # j
        <5>1. PICK i \in 1 .. n :
                    e[i].k = j /\ e[i].old = b[j] /\ \A l \in 1 .. i - 1 : e[l].k # j
          BY <4>1
        <5>2. i \in 1 .. n + 1 /\ \A l \in 1 .. i - 1 : l \in 1 .. n
          BY <3>2
        <5> QED BY <3>4, <5>1, <5>2
      <4>2. CASE (\A i \in 1 .. n : e[i].k # j) /\ b[j] = g[j]
        <5>1. CASE j = k
          <6>1. n + 1 \in 1 .. n + 1 /\ (n + 1) - 1 = n
            BY <3>2
          <6>2. f[n + 1].k = j /\ f[n + 1].old = b[j] /\ \A l \in 1 .. n : f[l].k # j
            BY <3>4, <3>7, <4>2, <5>1
          <6> QED BY <6>1, <6>2
        <5>2. CASE j # k
          BY <3>4, <3>6, <3>7, <4>0, <4>2, <5>2
        <5> QED BY <5>1, <5>2
      <4> QED BY <3>5, <4>1, <4>2 DEF Undoes, n
    <3>9. Undoes(f, h, b)
      BY <3>4, <3>8 DEF Undoes
    <3> QED BY <2>2, <3>1, <3>9 DEF h, b
  <2> QED BY <2>1, <2>2
<1> QED BY <1>7, <1>11

\* Another operation.
LEMMA DoTaints ==
    ASSUME BackInv, TypeOK', NEW op, NEW m, op # "local", Do(op, m), Depth(m) = Depth(mem)
    PROVE  QuietInv' /\ ChainInv'
BY AllTainted DEF BackInv, Do, Taints

\* The statements keep the invariant.
LEMMA BuiltinBack ==
    ASSUME BackInv, TypeOK', Builtin
    PROVE  QuietInv' /\ ChainInv'
<1>0. Sound(mem) /\ mem.pkg \in Packages
  BY TypeIsSound, SoundFields DEF BackInv
<1>1. \A n : Writes(mem, n) => Depth(n) = Depth(mem)
  BY DEF Writes, Alike, Depth
<1>2. ASSUME NEW k \in Keys, NEW v \in Items, Do("elem", SetElem(mem, k, v))
      PROVE QuietInv' /\ ChainInv'
  <2>1. Writes(mem, SetElem(mem, k, v))
    BY <1>0, SetElemWrites
  <2> QED BY <1>1, <1>2, <2>1, DoTaints
<1>3. ASSUME NEW k \in Keys, NEW v \in Items, Do("local", LocalElem(mem, k, v))
      PROVE QuietInv' /\ ChainInv'
  <2>1. mem' = SetElem(SaveElem(mem, k), k, v) /\ tainted' = tainted /\ list' = list
        /\ UNCHANGED before
    BY <1>3 DEF Do, Taints, Statement, LocalElem
  <2>2. LocalOf(k, v)
    BY <2>1 DEF LocalOf
  <2> QED BY <2>2, LocalKeepsBack
<1>4. ASSUME NEW k \in Keys, Do("elem", Delete(mem, k))
      PROVE QuietInv' /\ ChainInv'
  <2>1. Writes(mem, Delete(mem, k))
    BY <1>0, DeleteWrites
  <2> QED BY <1>1, <1>4, <2>1, DoTaints
<1>5. ASSUME NEW k \in Keys, Do("local", DeleteLocal(mem, k))
      PROVE QuietInv' /\ ChainInv'
  <2>1. LocalOf(k, Absent)
    BY <1>5 DEF Do, Taints, Statement, DeleteLocal, LocalOf
  <2> QED BY <2>1, LocalKeepsBack
<1>6. ASSUME NEW m \in Each(mem), Do("each", m)
      PROVE QuietInv' /\ ChainInv'
  BY <1>0, <1>6, EachSound, DoTaints
<1>7. ASSUME Do("each", ResetEach(mem))
      PROVE QuietInv' /\ ChainInv'
  <2>1. Depth(ResetEach(mem)) = Depth(mem)
    BY DEF ResetEach, Depth
  <2> QED BY <1>7, <2>1, DoTaints
<1>8. ASSUME Do("ref", Ref(mem))
      PROVE QuietInv' /\ ChainInv'
  BY <1>0, <1>8, RefSound, DoTaints
<1>9. ASSUME NEW hash \in Hash, Do("our", Our(mem, hash))
      PROVE QuietInv' /\ ChainInv'
  BY <1>0, <1>9, OurSound, DoTaints
<1>10. ASSUME NEW p \in Packages, Do("package", [mem EXCEPT !.pkg = p])
       PROVE QuietInv' /\ ChainInv'
  <2>1. Depth([mem EXCEPT !.pkg = p]) = Depth(mem)
    <3>1. mem \in Mem
      BY <1>0 DEF Sound
    <3> QED BY <3>1 DEF Mem, Depth
  <2> QED BY <1>10, <2>1, DoTaints
<1> QED BY <1>2, <1>3, <1>4, <1>5, <1>6, <1>7, <1>8, <1>9, <1>10 DEF Builtin

\* So does the begin of a list assignment.
LEMMA AssignListBack ==
    ASSUME BackInv, TypeOK', AssignList
    PROVE  QuietInv' /\ ChainInv'
<1>1. /\ tainted' = [d \in DOMAIN tainted |-> TRUE] /\ UNCHANGED before
      /\ \E hash \in Hash : Begins(mem, hash) \/ Begins(SaveWhole(mem), hash)
  BY DEF AssignList, Taints, Statement
<1>2. Sound(mem) /\ Sound(SaveWhole(mem)) /\ Depth(SaveWhole(mem)) = Depth(mem)
  BY TypeIsSound, SaveWholeSound DEF BackInv
<1>3. Depth(mem') = Depth(mem)
  BY <1>1, <1>2, GetHashTyped, InstallSound DEF Begins
<1> QED BY <1>1, <1>3, AllTainted DEF BackInv

\* While a list assignment is under way no claim is open.
LEMMA ClearingBack ==
    ASSUME BackInv, TypeOK', TakeEntry \/ InstallList
    PROVE  QuietInv' /\ ChainInv'
<1>1. \A d \in 1 .. Depth(mem) : tainted[d]
  BY DEF BackInv, QuietInv, TakeEntry, InstallList
<1>2. tainted' = tainted /\ UNCHANGED before
  BY DEF TakeEntry, InstallList
<1>3. Depth(mem') = Depth(mem)
  BY <1>2 DEF TypeOK, BackInv
<1> QED BY <1>1, <1>2, <1>3, AllTainted DEF BackInv

\* A new block has nothing to undo.
LEMMA OpenBlockBack ==
    ASSUME BackInv, TypeOK', OpenBlock
    PROVE  QuietInv' /\ ChainInv'
<1> DEFINE D == Depth(mem)
<1>0. Sound(mem) /\ D \in Nat /\ D >= 1 /\ Sound(mem') /\ GetHash(mem) \in Hash
  BY TypeIsSound, SoundFields, OpenBlockOpens, GetHashTyped DEF BackInv
<1>1. /\ Depth(mem') = D + 1
      /\ \A d \in 1 .. D : mem'.frames[d] = mem.frames[d]
      /\ mem'.frames[D + 1].h = NoHash /\ mem'.frames[D + 1].back = mem.pkg
      /\ mem'.frames[D + 1].whole = <<>> /\ mem'.frames[D + 1].elems = <<>>
      /\ mem'.plain = mem.plain /\ mem'.heap = mem.heap /\ mem'.shared = mem.shared
      /\ mem'.pkg = mem.pkg
  BY OpenBlockOpens DEF BackInv, Frame
<1>2. /\ before' = Append(before, GetHash(mem)) /\ tainted' = Append(tainted, FALSE)
      /\ list' = list /\ ~Clearing
  BY DEF OpenBlock
<1>3. before'[D + 1] = GetHash(mem) /\ \A d \in 1 .. D : before'[d] = before[d]
  <2>1. before \in Seq(Hash) /\ Len(before) = D
    BY DEF BackInv, TypeOK
  <2> QED BY <1>0, <1>2, <2>1, AppendToSeq
<1>4. ~tainted'[D + 1] /\ \A d \in 1 .. D : tainted'[d] = tainted[d]
  <2> DEFINE no == FALSE
             t == Append(tainted, no)
  <2>1. tainted \in Seq(BOOLEAN) /\ Len(tainted) = D /\ no \in BOOLEAN
    BY DEF BackInv, TypeOK
  <2> HIDE DEF no
  <2>2. t[D + 1] = no /\ \A d \in 1 .. D : t[d] = tainted[d]
    BY <2>1, AppendToSeq
  <2>3. tainted' = t
    BY <1>2 DEF no
  <2> HIDE DEF t
  <2>4. ~ t[D + 1]
    BY <2>2 DEF no
  <2> QED BY <2>2, <2>3, <2>4
<1> HIDE DEF D
<1>5. \A d \in 1 .. D + 1 : d = D + 1 \/ d \in 1 .. D
  BY <1>0
<1>6. QuietInv'
  <2> SUFFICES ASSUME NEW d \in 1 .. D + 1, ~tainted'[d], NEW e \in d .. D + 1
               PROVE  /\ ~tainted'[e] /\ mem'.frames[e].h = NoHash
                      /\ mem'.frames[e].whole = <<>> /\ mem'.frames[e].back = mem'.pkg
    BY <1>1, <1>2 DEF QuietInv, Clearing
  <2>1. CASE e = D + 1
    BY <1>1, <1>4, <2>1
  <2>2. CASE e # D + 1
    <3>1. d \in 1 .. D /\ e \in d .. D /\ e \in 1 .. D
      BY <1>0, <2>2
    <3>2. ~tainted[d]
      BY <1>4, <3>1
    <3>3. ~tainted[e] /\ mem.frames[e].h = NoHash /\ mem.frames[e].whole = <<>>
          /\ mem.frames[e].back = mem.pkg
      BY <3>1, <3>2 DEF BackInv, QuietInv, D
    <3> QED BY <1>1, <1>4, <3>1, <3>3
  <2> QED BY <2>1, <2>2
<1>7. (MainsGlobal(mem') <=> MainsGlobal(mem)) /\ (MainsGlobal(mem) => GetHash(mem') = GetHash(mem))
  <2>1. Lexical(mem') = Lexical(mem)
    <3>1. \A d \in 1 .. D : mem'.frames[d].h = mem.frames[d].h
      BY <1>1
    <3>2. Lexical(mem') = {d \in 1 .. D + 1 : mem'.frames[d].h # NoHash}
          /\ Lexical(mem) = {d \in 1 .. D : mem.frames[d].h # NoHash}
      BY <1>1 DEF Lexical, D
    <3>3. 1 .. D \subseteq 1 .. D + 1
      BY <1>0
    <3> QED BY <1>1, <1>5, <3>1, <3>2, <3>3
  <2>2. MainsGlobal(mem') <=> MainsGlobal(mem)
    BY <1>0, <1>1, <2>1, MainsGlobalMeans
  <2>3. ASSUME MainsGlobal(mem) PROVE GetHash(mem') = GetHash(mem)
    <3>1. GetHash(mem') = HashAt(mem', Plain("main")) /\ GetHash(mem) = HashAt(mem, Plain("main"))
      BY <1>0, <2>2, <2>3, MainsGlobalMeans
    <3> QED BY <1>1, <3>1 DEF HashAt, At, Plain
  <2> QED BY <2>2, <2>3
<1>8. ChainInv'
  <2> SUFFICES ASSUME NEW d \in 1 .. D + 1, ~tainted'[d], MainsGlobal(mem)
               PROVE  Undoes(mem'.frames[d].elems,
                             IF d < D + 1 THEN before'[d + 1] ELSE GetHash(mem'), before'[d])
    BY <1>1, <1>7 DEF ChainInv
  <2>1. CASE d = D + 1
    <3>1. ~ (d < D + 1) /\ before'[d] = GetHash(mem') /\ mem'.frames[d].elems = <<>>
      BY <1>0, <1>1, <1>3, <1>7, <2>1
    <3>2. Len(<<>>) = 0 /\ 1 .. 0 = {}
      OBVIOUS
    <3>3. Undoes(<<>>, GetHash(mem'), GetHash(mem'))
      BY <3>2 DEF Undoes
    <3> QED BY <3>1, <3>3
  <2>2. CASE d # D + 1
    <3>1. d \in 1 .. D /\ d < D + 1 /\ d + 1 \in 1 .. D + 1
      BY <1>0, <2>2
    <3>2. Undoes(mem.frames[d].elems, IF d < D THEN before[d + 1] ELSE GetHash(mem), before[d])
      BY <1>4, <3>1 DEF BackInv, ChainInv, D
    <3>3. before'[d + 1] = IF d < D THEN before[d + 1] ELSE GetHash(mem)
      <4>1. CASE d < D
        <5>1. d + 1 \in 1 .. D
          BY <1>0, <3>1, <4>1
        <5> QED BY <1>3, <4>1, <5>1
      <4>2. CASE ~ (d < D)
        <5>1. d + 1 = D + 1
          BY <1>0, <3>1, <4>2
        <5> QED BY <1>3, <4>2, <5>1
      <4> QED BY <4>1, <4>2
    <3> QED BY <1>1, <1>3, <3>1, <3>2, <3>3
  <2> QED BY <2>1, <2>2
<1> QED BY <1>6, <1>8

\* Such a block, when it ends, leaves the hash as it found it.
LEMMA EndGivesBack ==
    ASSUME BackInv, EndBlock, ~tainted[Depth(mem)], MainsGlobal(mem)
    PROVE  MainsGlobal(mem') /\ GetHash(mem') = before[Depth(mem)]
<1> DEFINE D == Depth(mem)
           saves == mem.frames[D].elems
           popped == [mem EXCEPT !.frames = Front(@)]
           wholes == Undo(RestoreWhole, popped, mem.frames[D].whole)
           elems == Undo(RestoreElem, wholes, saves)
<1>0. Sound(mem) /\ D \in Nat /\ D > 1 /\ mem' = CloseBlock(mem) /\ D \in 1 .. D
  BY TypeIsSound, SoundFields DEF BackInv, EndBlock
<1>1. mem.frames[D].whole = <<>> /\ mem.frames[D].back = mem.pkg /\ mem.pkg = "main"
  <2>1. D \in D .. D
    BY <1>0
  <2> QED BY <1>0, <2>1, MainsGlobalMeans DEF BackInv, QuietInv
<1>2. Undoes(saves, GetHash(mem), before[D])
  <2>1. ~ (D < D)
    BY <1>0
  <2> QED BY <1>0, <2>1 DEF BackInv, ChainInv
<1>3. /\ Sound(popped) /\ Depth(popped) = D - 1
      /\ \A d \in 1 .. D - 1 : popped.frames[d] = mem.frames[d]
      /\ popped.plain = mem.plain /\ popped.shared = mem.shared /\ popped.pkg = mem.pkg
  BY <1>0, PoppedSound
<1>4. mem' = [elems EXCEPT !.pkg = mem.frames[D].back]
  BY <1>0, Closing
<1>5. saves \in Seq(Save) /\ before[D] \in Hash
  <2>1. mem.frames[D] \in Block
    BY <1>0, SoundFields
  <2>2. before \in Seq(Hash) /\ Len(before) = D
    BY DEF BackInv, TypeOK
  <2> QED BY <1>0, <2>1, <2>2, ElementOfSeq DEF Block
<1>6. MainsGlobal(popped) /\ GetHash(popped) = GetHash(mem)
  <2> HIDE DEF popped, D
  <2>1. Lexical(popped) = {}
    <3>1. Lexical(mem) = {}
      BY <1>0, MainsGlobalMeans
    <3>2. \A d \in 1 .. D - 1 : d \in 1 .. D
      BY <1>0
    <3> QED BY <1>3, <3>1, <3>2 DEF Lexical, D
  <2>2. MainsGlobal(popped)
    BY <1>0, <1>3, <2>1, MainsGlobalMeans
  <2>3. GetHash(popped) = HashAt(popped, Plain("main")) /\ GetHash(mem) = HashAt(mem, Plain("main"))
    BY <1>0, <1>3, <2>2, MainsGlobalMeans
  <2> QED BY <1>3, <2>2, <2>3 DEF HashAt, At, Plain
<1> HIDE DEF popped
<1>7. wholes = popped
  <2> DEFINE none == mem.frames[D].whole
  <2>1. none \in Seq(Hash) /\ Len(none) = 0
    BY <1>1
  <2> HIDE DEF none
  <2>2. PICK r : /\ r[0] = popped /\ Undo(RestoreWhole, popped, none) = r[Len(none)]
                 /\ \A i \in 1 .. Len(none) : r[i] = RestoreWhole(r[i - 1], Reverse(none)[i])
                 /\ \A i \in 0 .. Len(none) : Writes(popped, r[i])
    <3>1. Sound(popped) /\ none \in Seq(Hash)
      BY <1>3, <2>1
    <3> QED BY <3>1, UndoWholes, Zenon
  <2>3. wholes = Undo(RestoreWhole, popped, none)
    BY DEF none
  <2> HIDE DEF wholes
  <2> QED BY <2>1, <2>2, <2>3
<1>8. MainsGlobal(elems) /\ GetHash(elems) = before[D]
  <2> HIDE DEF saves, D
  <2> QED BY <1>2, <1>3, <1>5, <1>6, <1>7, UndoGives
<1>9. Sound(elems)
  <2>1. \E r : elems = r[Len(saves)] /\ \A i \in 0 .. Len(saves) : Writes(wholes, r[i])
    BY <1>3, <1>5, <1>7, UndoElems
  <2>2. Len(saves) \in 0 .. Len(saves)
    BY <1>5, LenProperties
  <2> HIDE DEF elems
  <2> QED BY <2>1, <2>2 DEF Writes
<1> HIDE DEF elems, saves
<1>10. mem' = elems
  <2>1. elems.pkg = "main" /\ elems \in Mem
    BY <1>8, <1>9, MainsGlobalMeans DEF Sound
  <2> QED BY <1>1, <1>4, <2>1 DEF Mem
<1> QED BY <1>8, <1>10

\* The block around one that ends finds what it left.
LEMMA EndBlockBack ==
    ASSUME BackInv, TypeOK', EndBlock
    PROVE  QuietInv' /\ ChainInv'
<1> DEFINE D == Depth(mem)
<1>0. Sound(mem) /\ D \in Nat /\ D > 1 /\ mem' = CloseBlock(mem) /\ D \in 1 .. D
      /\ D - 1 \in Nat /\ D - 1 >= 1
  BY TypeIsSound, SoundFields DEF BackInv, EndBlock
<1>1. /\ Sound(mem') /\ Depth(mem') = D - 1 /\ mem'.pkg = mem.frames[D].back
      /\ mem'.shared = mem.shared
      /\ \A d \in 1 .. D - 1 :
            /\ mem'.frames[d].h = NoHash <=> mem.frames[d].h = NoHash
            /\ mem'.frames[d].back = mem.frames[d].back
            /\ mem'.frames[d].whole = mem.frames[d].whole
            /\ mem'.frames[d].elems = mem.frames[d].elems
  <2>1. PICK popped, wholes, elems :
              /\ popped = [mem EXCEPT !.frames = Front(@)]
              /\ Writes(popped, wholes) /\ Writes(wholes, elems)
              /\ CloseBlock(mem) = [elems EXCEPT !.pkg = mem.frames[D].back]
              /\ Sound(CloseBlock(mem)) /\ Depth(CloseBlock(mem)) = D - 1
    BY <1>0, Closing
  <2>2. /\ Sound(popped) /\ Depth(popped) = D - 1
        /\ \A d \in 1 .. D - 1 : popped.frames[d] = mem.frames[d]
        /\ popped.shared = mem.shared
    BY <1>0, <2>1, PoppedSound
  <2>3. Writes(popped, elems)
    BY <2>1, <2>2, WritesCompose
  <2>4. elems \in Mem
    BY <2>3 DEF Writes, Sound
  <2>5. mem'.frames = elems.frames /\ mem'.shared = elems.shared /\ mem'.pkg = mem.frames[D].back
    BY <1>0, <2>1, <2>4 DEF Mem
  <2>6. Sound(mem') /\ Depth(mem') = D - 1
    BY <1>0, <2>1
  <2> HIDE DEF D
  <2>7. \A d \in 1 .. D - 1 :
            /\ elems.frames[d].h = NoHash <=> popped.frames[d].h = NoHash
            /\ elems.frames[d].back = popped.frames[d].back
            /\ elems.frames[d].whole = popped.frames[d].whole
            /\ elems.frames[d].elems = popped.frames[d].elems
    BY <2>2, <2>3 DEF Writes, Alike, Depth
  <2>8. elems.shared = popped.shared
    BY <2>3 DEF Writes, Alike
  <2> QED BY <2>2, <2>5, <2>6, <2>7, <2>8
<1>2. \A d \in 1 .. D - 1 : before'[d] = before[d] /\ tainted'[d] = tainted[d]
  <2>1. before \in Seq(Hash) /\ tainted \in Seq(BOOLEAN) /\ Len(before) = D /\ Len(tainted) = D
    BY DEF BackInv, TypeOK
  <2>2. before # <<>> /\ tainted # <<>>
    BY <1>0, <2>1, EmptySeq
  <2>3. \A d \in 1 .. D - 1 : Front(before)[d] = before[d]
    BY <2>1, <2>2, FrontOfSeq
  <2>4. \A d \in 1 .. D - 1 : Front(tainted)[d] = tainted[d]
    BY <2>1, <2>2, FrontOfSeq
  <2> QED BY <2>3, <2>4 DEF EndBlock
<1>3. \A d \in 1 .. D - 1 : d \in 1 .. D /\ D \in d .. D
  BY <1>0
\* A block with a claim has the package of the one that ends.
<1>4. ASSUME NEW d \in 1 .. D - 1, ~tainted[d]
      PROVE  ~tainted[D] /\ mem.frames[D].h = NoHash /\ mem.frames[D].back = mem.pkg
  <2>1. d \in 1 .. D /\ D \in d .. D
    BY <1>3
  <2> QED BY <1>4, <2>1 DEF BackInv, QuietInv
<1>5. QuietInv'
  <2> SUFFICES ASSUME NEW d \in 1 .. D - 1, ~tainted[d], NEW e \in d .. D - 1
               PROVE  /\ ~tainted'[e] /\ mem'.frames[e].h = NoHash
                      /\ mem'.frames[e].whole = <<>> /\ mem'.frames[e].back = mem'.pkg
    <3>1. ~Clearing'
      BY DEF EndBlock, Clearing
    <3> HIDE DEF D
    <3> QED BY <1>1, <1>2, <3>1 DEF QuietInv
  <2>1. e \in d .. D /\ e \in 1 .. D - 1
    BY <1>0
  <2>2. ~tainted[e] /\ mem.frames[e].h = NoHash /\ mem.frames[e].whole = <<>>
        /\ mem.frames[e].back = mem.pkg
    BY <1>3, <2>1 DEF BackInv, QuietInv
  <2>3. mem'.pkg = mem.pkg
    BY <1>1, <1>4
  <2> QED BY <1>1, <1>2, <2>1, <2>2, <2>3
<1>6. ChainInv'
  <2> SUFFICES ASSUME NEW d \in 1 .. D - 1, ~tainted[d], MainsGlobal(mem')
               PROVE  Undoes(mem'.frames[d].elems,
                             IF d < D - 1 THEN before'[d + 1] ELSE GetHash(mem'), before'[d])
    <3> HIDE DEF D
    <3> QED BY <1>1, <1>2 DEF ChainInv
  <2>1. ~tainted[D] /\ mem.frames[D].h = NoHash /\ mem'.pkg = mem.pkg /\ ~tainted[d]
    BY <1>1, <1>4
  <2>2. MainsGlobal(mem)
    <3>1. Lexical(mem) = {}
      <4>1. Lexical(mem') = {} /\ mem'.pkg = "main" /\ mem'.shared["main"] = 0
        BY <1>1, MainsGlobalMeans
      <4>2. \A e \in 1 .. D : e = D \/ e \in 1 .. D - 1
        BY <1>0
      <4>3. \A e \in 1 .. D - 1 : mem'.frames[e].h = NoHash
        BY <1>1, <4>1 DEF Lexical
      <4> QED BY <1>1, <2>1, <4>2, <4>3 DEF Lexical
    <3> QED BY <1>0, <1>1, <2>1, <3>1, MainsGlobalMeans
  <2>3. Undoes(mem.frames[d].elems, IF d < D THEN before[d + 1] ELSE GetHash(mem), before[d])
    BY <1>3, <2>2 DEF BackInv, ChainInv
  <2>4. d < D
    BY <1>0
  <2>5. CASE d < D - 1
    <3>1. d + 1 \in 1 .. D - 1
      BY <1>0, <2>5
    <3> QED BY <1>1, <1>2, <2>3, <2>4, <2>5, <3>1
  <2>6. CASE ~ (d < D - 1)
    <3>1. d + 1 = D
      BY <1>0, <2>6
    <3>2. GetHash(mem') = before[D]
      BY <2>1, <2>2, EndGivesBack
    <3> HIDE DEF D
    <3> QED BY <1>1, <1>2, <2>3, <2>4, <2>6, <3>1, <3>2
  <2> QED BY <2>5, <2>6
<1> QED BY <1>5, <1>6

\* At the start.
LEMMA BackInit ==
    ASSUME Init
    PROVE  BackInv
<1>1. TypeOK
  BY TypeInit
<1>2. /\ Depth(mem) = 1 /\ mem.frames[1] = Frame("main") /\ mem.pkg = "main" /\ list = NoHash
      /\ tainted[1] = FALSE /\ before[1] = Empty
  BY DEF Init, Depth
<1>3. mem.plain["main"] = NoHash
  BY HashesAssumption DEF Init
<1>4. QuietInv
  BY <1>2 DEF QuietInv, Clearing, Frame
<1>5. MainsGlobal(mem) => GetHash(mem) = Empty
  <2>1. Sound(mem)
    BY <1>1, TypeIsSound
  <2> QED BY <1>3, <2>1, MainsGlobalMeans DEF HashAt, At, Plain
<1>6. ChainInv
  <2>1. mem.frames[1].elems = <<>> /\ Len(<<>>) = 0 /\ 1 .. 0 = {} /\ ~ (1 < 1)
    BY <1>2 DEF Frame
  <2>2. Undoes(<<>>, Empty, Empty)
    BY <2>1 DEF Undoes
  <2> QED BY <1>2, <1>5, <2>1, <2>2 DEF ChainInv
<1> QED BY <1>1, <1>4, <1>6 DEF BackInv

\* Every step keeps the invariant.
LEMMA BackStep ==
    ASSUME BackInv, [Next]_vars
    PROVE  BackInv'
<1>1. TypeOK'
  BY TypeStep DEF BackInv
<1>2. CASE UNCHANGED vars
  BY <1>1, <1>2 DEF BackInv, QuietInv, ChainInv, vars, Clearing
<1>3. CASE Over
  BY <1>1, <1>3 DEF Over, BackInv, QuietInv, ChainInv, vars, Clearing
<1>4. CASE Next /\ ~Over
  <2>1. QuietInv' /\ ChainInv'
    BY <1>1, <1>4, AssignListBack, BuiltinBack, ClearingBack, OpenBlockBack, EndBlockBack DEF Next
  <2> QED BY <1>1, <2>1 DEF BackInv
<1> QED BY <1>2, <1>3, <1>4

\* A block that only localizes elements of main's global, or deletes them locally, in
\* any order, as often as it likes and in blocks within it, leaves it as it found it.
THEOREM ElementsAreBack == Spec => ElementsBack
<1>1. Init => BackInv
  BY BackInit
<1>2. BackInv /\ [Next]_vars => BackInv'
  BY BackStep
<1>3. BackInv /\ [Next]_vars
        => [Depth(mem') < Depth(mem) /\ ~Last(tainted) /\ MainsGlobal(mem)
              => GetHash(mem') = Last(before)]_vars
  <2> SUFFICES ASSUME BackInv, Next, Depth(mem') < Depth(mem), ~Last(tainted), MainsGlobal(mem)
               PROVE  GetHash(mem') = Last(before)
    OBVIOUS
  <2>0. /\ before \in Seq(Hash) /\ tainted \in Seq(BOOLEAN) /\ Len(before) = Depth(mem)
        /\ Len(tainted) = Depth(mem) /\ Depth(mem) \in Nat /\ Depth(mem) >= 1
    BY TypeIsSound, SoundFields DEF BackInv, TypeOK
  <2>1. before # <<>> /\ tainted # <<>>
    BY <2>0, EmptySeq
  <2>2. Last(before) = before[Depth(mem)] /\ Last(tainted) = tainted[Depth(mem)]
    BY <2>0 DEF Last
  <2>3. EndBlock
    <3>1. TypeOK'
      BY TypeStep DEF BackInv
    <3>2. HistoryKept \/ OpenBlock \/ EndBlock
      BY DEF Next, Over, vars, HistoryKept, AssignList, Builtin, Do, Statement, Taints,
             TakeEntry, InstallList
    <3>3. ASSUME HistoryKept PROVE Depth(mem') = Depth(mem)
      BY <3>1, <3>3 DEF HistoryKept, TypeOK, BackInv
    <3>4. ASSUME OpenBlock PROVE FALSE
      <4>1. Depth(mem') = Depth(mem) + 1
        BY <3>4, OpenBlockOpens DEF BackInv
      <4> QED BY <2>0, <4>1
    <3> QED BY <2>0, <3>2, <3>3, <3>4
  <2> QED BY <2>2, <2>3, EndGivesBack
<1> QED BY <1>1, <1>2, <1>3, PTL DEF Spec, ElementsBack
==============================================================================
