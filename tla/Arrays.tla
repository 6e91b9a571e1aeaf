------------------------------- MODULE Arrays -------------------------------
(***************************************************************************)
(* One array name, `@a`: where a statement finds it, the marks of deleted  *)
(* slots, the cursors of `each`, and what `local` saves.  The array of     *)
(* that name may be a `my @a` of any open block, a shared Rc of the        *)
(* package that is current or of main (after `our @a` or `\@a`), or a      *)
(* plain global of either.  The marks are kept per name and the cursors    *)
(* per name and frame, whichever array they are about, and that is what    *)
(* can go wrong.  The operations are functions on `mem`, the part of the   *)
(* interpreter they change; user code is any sequence of them.             *)
(***************************************************************************)
EXTENDS Integers, Sequences, FiniteSets, SequencesExt, FiniteSetsExt

CONSTANTS Items,        \* defined values an element may have
          Undef, Absent,
          Packages,     \* "main", and at most one more
          MaxLen, MaxDepth, MaxOps,
          Ops           \* the operations user code uses

ASSUME ArraysAssumption ==
    /\ {Undef, Absent} \cap Items = {} /\ Undef # Absent
    /\ Absent \notin Seq(Items \cup {Undef})
    /\ "main" \in Packages /\ Packages \subseteq {"main", "P"}
    /\ MaxLen \in Nat /\ MaxDepth \in Nat \ {0} /\ MaxOps \in Nat

VARIABLES mem,      \* the interpreter's state, see Mem
          ops,      \* operations left
          home,     \* history: where the name's array is
          single,   \* history: it has been one array all along, see Same
          before,   \* history: what `local` found, see Opened
          tainted   \* history: per block, whether something else than `local` touched @a

vars == <<mem, ops, home, single, before, tainted>>

Values == Items \cup {Undef}
Arr == UNION {[1 .. n -> Values] : n \in 0 .. MaxLen}
Names == {"main", "P"}              \* the keys "a" and "P::a"
Ends == {-1} \cup 0 .. MaxLen - 1  \* indices of elements
Nowhere == [kind |-> "none", key |-> 0]
NoCursor == [n |-> 0, at |-> -1]
Frame(pkg) == [a |-> Absent, back |-> pkg, elems |-> <<>>, len |-> -1, whole |-> <<>>]

(* frames: the scopes, each with its own `@a` and its local_* saves;
   shared: aliased_arrays, as indices into heap (0 is none);
   plain: globals.arrays; deleted: deleted_slots; cursors: each_cursors, 0 for
   the key "@a" and d for "@d:a"; pkg: the current package. *)
Cursors == [n : 0 .. MaxLen, at : -1 .. MaxLen]
Elems == [i : Ends, old : Values \cup {Absent}]
Wholes == [old : Arr, cursor : Cursors, cell : Nat]
Scopes == [a : Arr \cup {Absent}, back : Packages, elems : Seq(Elems), len : -1 .. MaxLen,
           whole : Seq(Wholes)]
Mem == [frames : Seq(Scopes), heap : Seq(Arr), shared : [Names -> Nat],
        plain : [Names -> Arr \cup {Absent}], deleted : SUBSET (0 .. MaxLen - 1),
        cursors : [0 .. MaxDepth -> Cursors], pkg : Packages]

Init ==
    /\ mem = [frames |-> <<Frame("main")>>, heap |-> <<>>,
              shared |-> [p \in Names |-> 0], plain |-> [p \in Names |-> Absent],
              deleted |-> {}, cursors |-> [d \in 0 .. MaxDepth |-> NoCursor], pkg |-> "main"]
    /\ ops = MaxOps /\ home = Nowhere /\ single = TRUE /\ before = <<Absent>> /\ tainted = <<FALSE>>
-----------------------------------------------------------------------------
(***************************************************************************)
(* Finding the array.                                                      *)
(***************************************************************************)
Depth(m) == Len(m.frames)
Lexical(m) == {d \in 1 .. Depth(m) : m.frames[d].a # Absent}
Frames(d) == [kind |-> "frame", key |-> d]
Cells(m, p) == [kind |-> "cell", key |-> m.shared[p]]
Plain(p) == [kind |-> "plain", key |-> p]

\* get_array: the innermost lexical, the Rc of this package, of main, then the globals.
Place(m, p) ==
    CASE Lexical(m) # {} -> Frames(Max(Lexical(m)))
      [] Lexical(m) = {} /\ m.shared[p] # 0 -> Cells(m, p)
      [] Lexical(m) = {} /\ m.shared[p] = 0 /\ m.shared["main"] # 0 -> Cells(m, "main")
      [] OTHER -> Plain(p)
At(m, place) ==
    CASE place.kind = "frame" -> m.frames[place.key].a
      [] place.kind = "cell" -> m.heap[place.key]
      [] OTHER -> m.plain[place.key]
ArrayAt(m, place) == IF At(m, place) = Absent THEN <<>> ELSE At(m, place)
GetArray(m) ==
    LET here == At(m, Place(m, m.pkg))
    IN IF here = Absent THEN ArrayAt(m, Plain("main")) ELSE here
Put(m, place, arr) ==
    CASE place.kind = "frame" -> [m EXCEPT !.frames[place.key].a = arr]
      [] place.kind = "cell" -> [m EXCEPT !.heap[place.key] = arr]
      [] OTHER -> [m EXCEPT !.plain[place.key] = arr]

\* set_array drops the cursors of every array of the name and all its marks.  (Faulty
\* variant: the cursors of lexicals stay.)
SetArrayGlobalCursor(m, arr) ==
    [Put(m, Place(m, m.pkg), arr) EXCEPT !.cursors[0] = NoCursor, !.deleted = {}]
SetArray(m, arr) ==
    [Put(m, Place(m, m.pkg), arr) EXCEPT
        !.cursors = [d \in 0 .. MaxDepth |-> NoCursor], !.deleted = {}]

\* get_array_len and the in-place operations know the bare name only.
Bare(m) == Place(m, "main")
Resolve(i, len) == IF i < 0 THEN i + len ELSE i
Padded(arr, len) == [j \in 1 .. Max({Len(arr), len}) |-> IF j <= Len(arr) THEN arr[j] ELSE Undef]
SetSlot(arr, i, v) == [Padded(arr, i + 1) EXCEPT ![i + 1] = v]
\* The marked slots at the end are taken off the array; their marks stay.
Trim(arr, marks) == SubSeq(arr, 1, Max({0} \cup {j \in 1 .. Len(arr) : j - 1 \notin marks}))
CursorKey(m) == IF Lexical(m) = {} THEN 0 ELSE Max(Lexical(m))
Exists(m, i) == i < Len(GetArray(m)) /\ i \notin m.deleted
-----------------------------------------------------------------------------
(***************************************************************************)
(* The builtins.                                                           *)
(***************************************************************************)
Push(m, list) == SetArray(m, GetArray(m) \o list)
Unshift(m, list) == SetArray(m, list \o GetArray(m))
Pop(m) == SetArray(m, IF GetArray(m) = <<>> THEN <<>> ELSE Front(GetArray(m)))
Shift(m) == SetArray(m, IF GetArray(m) = <<>> THEN <<>> ELSE Tail(GetArray(m)))

\* Offset and length are clamped to the array.
Offset(off, len) == IF off < 0 THEN Max({len + off, 0}) ELSE Min({off, len})
Removed(n, rest) == IF n < 0 THEN Max({rest + n, 0}) ELSE Min({n, rest})
Splice(m, off, n, list) ==
    LET arr == GetArray(m)
        o == Offset(off, Len(arr))
        r == Removed(n, Len(arr) - o)
    IN SetArray(m, SubSeq(arr, 1, o) \o list \o SubSeq(arr, o + r + 1, Len(arr)))

\* `$a[i] = v`; below the start of the array it dies.
Reachable(m, i) == Resolve(i, Len(GetArray(m))) \in 0 .. MaxLen - 1
Assign(m, i, v) ==
    LET at == Resolve(i, Len(GetArray(m)))
    IN [SetArray(m, SetSlot(GetArray(m), at, v)) EXCEPT !.deleted = m.deleted \ {at}]

\* `$#a = len - 1`
Resize(m, len) ==
    LET arr == GetArray(m)
    IN [SetArray(m, SubSeq(Padded(arr, len), 1, len)) EXCEPT
           !.deleted = IF len > Len(arr) THEN m.deleted \cup Len(arr) .. len - 1
                       ELSE m.deleted \cap 0 .. len - 1]

\* delete: nothing happens beyond the array.  (Faulty variant: the value stays.)
DeleteKeepsValue(m, i) ==
    LET arr == ArrayAt(m, Bare(m))
        at == Resolve(i, Len(arr))
        marks == m.deleted \cup {at}
    IN IF at \notin 0 .. Len(arr) - 1 THEN m
       ELSE [Put(m, Bare(m), Trim(arr, marks)) EXCEPT !.deleted = marks]
Delete(m, i) ==
    LET arr == ArrayAt(m, Bare(m))
        at == Resolve(i, Len(arr))
        marks == m.deleted \cup {at}
    IN IF at \notin 0 .. Len(arr) - 1 THEN m
       ELSE [Put(m, Bare(m), Trim(SetSlot(arr, at, Undef), marks)) EXCEPT !.deleted = marks]

\* each: the first call takes down the indices; the call after the last drops them.
\* (Faulty variant: off by one.)
EachPastEnd(m) ==
    LET key == CursorKey(m)
        c == IF m.cursors[key] = NoCursor THEN [n |-> Len(GetArray(m)), at |-> 0]
             ELSE m.cursors[key]
    IN [m EXCEPT !.cursors[key] = IF c.at > c.n THEN NoCursor ELSE [c EXCEPT !.at = c.at + 1]]
Each(m) ==
    LET key == CursorKey(m)
        c == IF m.cursors[key] = NoCursor THEN [n |-> Len(GetArray(m)), at |-> 0]
             ELSE m.cursors[key]
    IN [m EXCEPT !.cursors[key] = IF c.at >= c.n THEN NoCursor ELSE [c EXCEPT !.at = c.at + 1]]
\* keys and values.
Keys(m) == [m EXCEPT !.cursors[CursorKey(m)] = NoCursor]

My(m, list) == [m EXCEPT !.frames[Depth(m)].a = list]

NewCell(m, list) == [m EXCEPT !.heap = Append(m.heap, list)]
\* `our @a = list`
Our(m, list) ==
    LET p == m.pkg
    IN IF p = "main" THEN [m EXCEPT !.plain[p] = list]
       ELSE IF m.shared[p] # 0
       THEN [m EXCEPT !.heap[m.shared[p]] = list, !.shared["main"] = m.shared[p]]
       ELSE LET n == NewCell(m, list)
            IN [n EXCEPT !.plain[p] = Absent, !.shared = [q \in Names |-> Len(n.heap)]]
\* `our (@a) = list`: main's global is set, in whichever package, even if there is an Rc.
OurList(m, list) == [m EXCEPT !.plain["main"] = list]
\* `\@a`: a lexical is copied; a global moves to an Rc.
Ref(m) ==
    IF Lexical(m) # {} \/ m.shared[m.pkg] # 0 THEN m
    ELSE [NewCell(m, ArrayAt(m, Plain(m.pkg))) EXCEPT
              !.plain[m.pkg] = Absent, !.shared[m.pkg] = Len(m.heap) + 1]
-----------------------------------------------------------------------------
(***************************************************************************)
(* local, and the end of a block.                                          *)
(***************************************************************************)
\* A lexical is refused, unless some package variable of the name has an Rc.
MayLocalize(m) == Lexical(m) = {} \/ \E p \in {m.pkg, "main"} : m.shared[p] # 0
Local(m, list) ==
    LET cell == m.shared["main"]
        saved == [m EXCEPT
            !.frames[Depth(m)].whole =
                Append(@, [old |-> GetArray(m), cursor |-> m.cursors[0], cell |-> cell]),
            !.cursors[0] = NoCursor, !.plain["main"] = list]
    IN IF cell = 0 THEN saved
       ELSE [NewCell(saved, list) EXCEPT !.shared["main"] = Len(m.heap) + 1]

\* What local saves of an element: its value, or that it was absent.
SaveElem(m, i) ==
    LET arr == GetArray(m)
        at == Resolve(i, Len(arr))
        old == IF at \in 0 .. Len(arr) - 1 /\ at \notin m.deleted THEN arr[at + 1] ELSE Absent
    IN [m EXCEPT !.frames[Depth(m)].elems = Append(@, [i |-> i, old |-> old]),
                 !.frames[Depth(m)].len = IF @ = -1 THEN Len(arr) ELSE @]
LocalElem(m, i, v) ==
    LET s == SaveElem(m, i)
        at == Resolve(i, Len(GetArray(m)))
    IN IF at < 0 THEN s ELSE SetArray(s, SetSlot(GetArray(s), at, v))

\* delete local
DeleteLocal(m, i) ==
    LET s == SaveElem(m, i)
        at == Resolve(i, Len(GetArray(m)))
        arr == ArrayAt(m, Bare(m))
        marks == m.deleted \cup {at}
        blank == IF at < Len(arr) THEN SetSlot(arr, at, Undef) ELSE arr
    IN IF at < 0 THEN s
       ELSE IF At(m, Bare(m)) = Absent THEN [s EXCEPT !.deleted = marks]
       ELSE [Put(s, Bare(s), Trim(blank, marks)) EXCEPT !.deleted = marks]

RestoreWhole(m, save) ==
    [m EXCEPT !.plain["main"] = save.old, !.cursors[0] = save.cursor,
              !.shared["main"] = IF save.cell = 0 THEN @ ELSE save.cell]

RestoreElem(m, save) ==
    LET arr == GetArray(m)
        at == Resolve(save.i, Len(arr))
        blank == IF at < Len(arr) THEN SetSlot(arr, at, Undef) ELSE arr
    IN IF at < 0 THEN m
       ELSE IF save.old # Absent THEN SetArray(m, SetSlot(arr, at, save.old))
       ELSE SetArray(m, Trim(blank, {at}))

\* What an element assignment beyond the end left between is taken off again.
RestoreLen(m, len) ==
    LET arr == GetArray(m)
        marks == m.deleted \cup {i \in len .. Len(arr) - 1 : arr[i + 1] = Undef}
    IN IF len = -1 THEN m ELSE SetArray(m, Trim(arr, marks))

\* The last save is undone first.  (Faulty variant: last.)
UndoInOrder(saves) == saves
Undo(saves) == Reverse(saves)

\* A step for each save, one after another.
InTurn(Step(_, _), m, saves) ==
    LET after[k \in 0 .. Len(saves)] == IF k = 0 THEN m ELSE Step(after[k - 1], saves[k])
    IN after[Len(saves)]

\* pop_scope restores under the package of the block.
CloseBlock(m) ==
    LET top == Last(m.frames)
        popped == [m EXCEPT !.frames = Front(@)]
        wholes == InTurn(RestoreWhole, popped, Undo(top.whole))
        elems == InTurn(RestoreElem, wholes, Undo(top.elems))
    IN [RestoreLen(elems, top.len) EXCEPT !.pkg = top.back]
-----------------------------------------------------------------------------
Lists ==
    LET some == {<<>>} \cup {<<v>> : v \in Items} \cup {<<Undef, v>> : v \in Items}
    IN {list \in some : Len(list) <= MaxLen}
\* What can be seen of the array: its length, and each slot's value or absence.
Seen(m) == [i \in 1 .. Len(GetArray(m)) |->
               IF Exists(m, i - 1) THEN GetArray(m)[i] ELSE Absent]

\* my, our and local put a new array in place, which inherits marks and cursors; in a
\* package whose `@a` has no Rc, delete works on main's.
Unmarked(m) == m.deleted = {} /\ m.cursors = [d \in 0 .. MaxDepth |-> NoCursor]
Same(op, m) ==
    LET to == Place(m, m.pkg)
    IN /\ home.kind \in {"none", to.kind} /\ (home.kind = to.kind => home.key = to.key)
       /\ to.kind = "plain" => to.key = "main"
       /\ op \in {"my", "our", "local"} => Unmarked(mem)

\* An operation, whatever it does to the blocks it is in.
Effect(op, m) ==
    /\ op \in Ops /\ ops > 0 /\ Len(GetArray(m)) <= MaxLen
    /\ mem' = m /\ ops' = ops - 1
    /\ home' = Place(m, m.pkg)
    /\ single' = (single /\ Same(op, m))
    /\ UNCHANGED before
\* It taints them, unless it is a `local` of an element counted from the start: one from
\* the end is resolved again when the block ends.
Tainted == [d \in DOMAIN tainted |-> TRUE]
Do(op, m) == Effect(op, m) /\ tainted' = Tainted
DoLocal(op, i, m) == Effect(op, m) /\ tainted' = IF i >= 0 THEN tainted ELSE Tainted

Builtin ==
    \/ \E list \in Lists : \/ Do("push", Push(mem, list)) \/ Do("unshift", Unshift(mem, list))
                           \/ Do("list", SetArray(mem, list)) \/ Do("my", My(mem, list))
                           \/ Do("our", Our(mem, list)) \/ Do("our", OurList(mem, list))
                           \/ MayLocalize(mem) /\ Do("local", Local(mem, list))
    \/ Do("pop", Pop(mem)) \/ Do("shift", Shift(mem)) \/ Do("ref", Ref(mem))
    \/ \E off \in Ends, n \in Ends, list \in Lists : Do("splice", Splice(mem, off, n, list))
    \/ \E i \in Ends, v \in Values :
          /\ Reachable(mem, i)
          /\ Do("assign", Assign(mem, i, v)) \/ DoLocal("localelem", i, LocalElem(mem, i, v))
    \/ \E i \in Ends : Reachable(mem, i) /\ DoLocal("deletelocal", i, DeleteLocal(mem, i))
    \/ \E i \in Ends : Do("delete", Delete(mem, i))
    \/ \E len \in 0 .. MaxLen : Do("resize", Resize(mem, len))
    \/ Do("each", Each(mem)) \/ Do("each", Keys(mem))
    \/ \E p \in Packages \ {mem.pkg} : Do("package", [mem EXCEPT !.pkg = p])

OpenBlock ==
    /\ Depth(mem) < MaxDepth /\ ops > 0
    /\ mem' = [mem EXCEPT !.frames = Append(@, Frame(mem.pkg))]
    /\ before' = Append(before, Seen(mem))
    /\ tainted' = Append(tainted, FALSE)
    /\ ops' = ops - 1 /\ UNCHANGED <<home, single>>

EndBlock ==
    /\ Depth(mem) > 1
    /\ mem' = CloseBlock(mem)
    /\ before' = Front(before)
    /\ tainted' = Front(tainted)
    /\ home' = Place(mem', mem'.pkg)
    /\ single' = (single /\ Same("end", mem') /\ Last(mem.frames).whole = <<>>)
    /\ UNCHANGED ops

Over == ops = 0 /\ Depth(mem) = 1 /\ UNCHANGED vars
Next == Builtin \/ OpenBlock \/ EndBlock \/ Over
Spec == Init /\ [][Next]_vars
-----------------------------------------------------------------------------
\* Types; one history per scope that push_scope and pop_scope left.
TypeOK == /\ mem \in Mem /\ ops \in 0 .. MaxOps
          /\ Len(before) = Depth(mem) /\ Len(tainted) = Depth(mem)

\* While the name stands for one array only: a slot that `exists` denies is undef,
\* whatever sequence of delete, $#a, local, splice and assignments led there.
DeniedIsUndef ==
    single => \A i \in 1 .. Len(GetArray(mem)) :
                    GetArray(mem)[i] # Undef => Exists(mem, i - 1)

\* An iteration in progress knows every element: whatever makes the array longer
\* starts `each` afresh, so that no element is left out.
EachComplete ==
    single => LET c == mem.cursors[CursorKey(mem)]
                IN c # NoCursor => c.n >= Len(GetArray(mem))

\* A block that only localizes elements, inside the array or beyond its end, in any
\* order and as often as it likes, leaves an array without deleted slots as it found
\* it, whatever the blocks in it localize.
Dense(seen) == \A i \in DOMAIN seen : seen[i] # Absent
OnlyLocals ==
    Depth(mem) > 1 /\ ~Last(tainted) /\ Dense(Last(before))
LocalUndone ==
    [][Depth(mem') < Depth(mem) /\ OnlyLocals => Seen(mem') = Last(before)]_vars
=============================================================================
