------------------------------- MODULE Hashes -------------------------------
(***************************************************************************)
(* One hash name, `%h`: which hash each way of using it finds, list        *)
(* assignment with the destructors it runs, `each`, and `local`.  The      *)
(* places a hash can be in are those of module Arrays, but the operations  *)
(* do not agree on the order in which they look, and a list assignment     *)
(* goes to the innermost block.  List assignment is several steps: it      *)
(* takes the old entries out one by one, and the destructor of a value may *)
(* put new ones in.                                                        *)
(***************************************************************************)
EXTENDS Integers, Sequences, FiniteSets, SequencesExt, FiniteSetsExt

CONSTANTS Keys, Items, Absent,
          Packages,     \* "main" and the packages of the program
          MaxDepth, MaxOps,
          Ops           \* the operations user code uses

ASSUME HashesAssumption ==
    /\ Absent \notin Items /\ "main" \in Packages
    /\ MaxDepth \in Nat \ {0} /\ MaxOps \in Nat

VARIABLES mem,      \* the interpreter's state, see Mem
          list,     \* what a list assignment will install, or NoHash
          ops,
          before,   \* history: what each block found
          tainted   \* history: whether something else than `local` touched %h in it

vars == <<mem, list, ops, before, tainted>>

Hash == [Keys -> Items \cup {Absent}]
Empty == [k \in Keys |-> Absent]
NoHash == [k \in {} |-> Absent]
NoCursor == [on |-> FALSE, left |-> {}]
Frame(pkg) == [h |-> NoHash, back |-> pkg, elems |-> <<>>, whole |-> <<>>]

Save == [k : Keys, old : Items \cup {Absent}]
Block == [h : Hash \cup {NoHash}, back : Packages, elems : Seq(Save), whole : Seq(Hash)]
Cursor == [on : BOOLEAN, left : SUBSET Keys]
(* frames: the scopes, each with its own `%h` and its local_* saves; shared:
   aliased_hashes, as indices into heap; plain: globals.hashes; cursor: the one of
   the key "h" in each_cursors; pkg: the current package. *)
Mem == [frames : Seq(Block), heap : Seq(Hash), shared : [Packages -> Nat],
        plain : [Packages -> Hash \cup {NoHash}], cursor : Cursor, pkg : Packages]

Init ==
    /\ mem = [frames |-> <<Frame("main")>>, heap |-> <<>>,
              shared |-> [p \in Packages |-> 0], plain |-> [p \in Packages |-> NoHash],
              cursor |-> NoCursor, pkg |-> "main"]
    /\ list = NoHash /\ ops = MaxOps /\ before = <<Empty>> /\ tainted = <<FALSE>>
-----------------------------------------------------------------------------
(***************************************************************************)
(* Finding the hash.                                                       *)
(***************************************************************************)
Depth(m) == Len(m.frames)
Lexical(m) == {d \in 1 .. Depth(m) : m.frames[d].h # NoHash}
Frames(d) == [kind |-> "frame", key |-> d]
Cells(m, p) == [kind |-> "cell", key |-> m.shared[p]]
Plain(p) == [kind |-> "plain", key |-> p]

\* A lexical, the Rc of this package, main's; `last` when there is none of them.
PlaceOr(m, last) ==
    CASE Lexical(m) # {} -> Frames(Max(Lexical(m)))
      [] Lexical(m) = {} /\ m.shared[m.pkg] # 0 -> Cells(m, m.pkg)
      [] Lexical(m) = {} /\ m.shared[m.pkg] = 0 /\ m.shared["main"] # 0 -> Cells(m, "main")
      [] OTHER -> last
At(m, place) ==
    CASE place.kind = "frame" -> m.frames[place.key].h
      [] place.kind = "cell" -> m.heap[place.key]
      [] OTHER -> m.plain[place.key]
HashAt(m, place) == IF At(m, place) = NoHash THEN Empty ELSE At(m, place)
Put(m, place, hash) ==
    CASE place.kind = "frame" -> [m EXCEPT !.frames[place.key].h = hash]
      [] place.kind = "cell" -> [m EXCEPT !.heap[place.key] = hash]
      [] OTHER -> [m EXCEPT !.plain[place.key] = hash]

\* get_hash falls back from the package's global to main's; set_hash_element writes
\* the package's; delete looks at main's.
GetHash(m) ==
    LET here == At(m, PlaceOr(m, Plain(m.pkg)))
    IN IF here = NoHash THEN HashAt(m, Plain("main")) ELSE here
SetElem(m, k, v) ==
    LET to == PlaceOr(m, Plain(m.pkg)) IN Put(m, to, [HashAt(m, to) EXCEPT ![k] = v])
Delete(m, k) ==
    LET from == PlaceOr(m, Plain("main"))
    IN IF At(m, from) = NoHash THEN m ELSE Put(m, from, [At(m, from) EXCEPT ![k] = Absent])
-----------------------------------------------------------------------------
(***************************************************************************)
(* List assignment: set_hash_from_list.                                    *)
(***************************************************************************)
\* The innermost block's own hash, main's Rc, or else a new one in the block.  (Faulty
\* variant: the global, Rc or not.)
InstallGlobal(m) == Plain("main")
Install(m) ==
    IF m.frames[Depth(m)].h # NoHash \/ m.shared["main"] = 0 THEN Frames(Depth(m))
    ELSE Cells(m, "main")

Begins(m, hash) == mem' = Put(m, Install(m), GetHash(m)) /\ list' = hash

Clearing == list # NoHash
Held(h) == {k \in Keys : h[k] # Absent}

\* The place one entry is taken from.  (Faulty variant: the main package's global.)
TakeGlobal(m, k) == Put(m, Plain("main"), [HashAt(m, Plain("main")) EXCEPT ![k] = Absent])
Take(m, k) ==
    CASE Lexical(m) # {} ->
            LET d == Frames(Max(Lexical(m))) IN Put(m, d, [At(m, d) EXCEPT ![k] = Absent])
      [] Lexical(m) = {} /\ m.shared["main"] # 0 ->
            Put(m, Cells(m, "main"), [At(m, Cells(m, "main")) EXCEPT ![k] = Absent])
      [] OTHER -> m

\* One entry goes and its value's destructor may add another.
TakeEntry ==
    /\ Clearing
    /\ \E k \in Held(GetHash(mem)) :
          LET taken == Take(mem, k)
          IN \/ mem' = taken /\ ops' = ops
             \/ /\ ops > 0 /\ "destroy" \in Ops /\ ops' = ops - 1
                /\ \E j \in Keys, v \in Items : mem' = SetElem(taken, j, v)
    /\ UNCHANGED <<list, before, tainted>>

InstallList ==
    /\ Clearing /\ Held(GetHash(mem)) = {}
    /\ mem' = Put(mem, Install(mem), list)
    /\ list' = NoHash
    /\ UNCHANGED <<ops, before, tainted>>
-----------------------------------------------------------------------------
(***************************************************************************)
(* each, keys, our, references, local.                                     *)
(***************************************************************************)
\* One cursor serves every hash of the name; the key may be gone by now.
Each(m) ==
    LET left == IF m.cursor.on THEN m.cursor.left ELSE Held(GetHash(m))
    IN IF left = {} THEN {[m EXCEPT !.cursor = NoCursor]}
       ELSE {[m EXCEPT !.cursor = [on |-> TRUE, left |-> left \ {k}]] : k \in left}
ResetEach(m) == [m EXCEPT !.cursor = NoCursor]

NewCell(m, hash) == [m EXCEPT !.heap = Append(m.heap, hash)]
\* `our %h = list` in another package than main: both names get the package's Rc.
Our(m, hash) ==
    IF m.shared[m.pkg] # 0
    THEN [m EXCEPT !.heap[m.shared[m.pkg]] = hash, !.shared["main"] = m.shared[m.pkg]]
    ELSE LET n == NewCell(m, hash)
         IN [n EXCEPT !.plain[m.pkg] = NoHash,
                      !.shared = [p \in Packages |-> IF p \in {"main", m.pkg}
                                                     THEN Len(n.heap) ELSE m.shared[p]]]
\* `\%h`: a lexical is copied, a global moves to an Rc.  (Faulty variant: the Rc is
\* registered before it is made.)
RefTooEarly(m) ==
    IF Lexical(m) # {} \/ m.shared[m.pkg] # 0 THEN m
    ELSE [m EXCEPT !.plain[m.pkg] = NoHash, !.shared[m.pkg] = Len(m.heap) + 1]
Ref(m) ==
    IF Lexical(m) # {} \/ m.shared[m.pkg] # 0 THEN m
    ELSE [NewCell(m, HashAt(m, Plain(m.pkg))) EXCEPT
              !.plain[m.pkg] = NoHash, !.shared[m.pkg] = Len(m.heap) + 1]

MayLocalize(m) == Lexical(m) = {} \/ \E p \in {m.pkg, "main"} : m.shared[p] # 0
SaveWhole(m) == [m EXCEPT !.frames[Depth(m)].whole = Append(@, GetHash(m))]
SaveElem(m, k) ==
    [m EXCEPT !.frames[Depth(m)].elems = Append(@, [k |-> k, old |-> GetHash(m)[k]])]
LocalElem(m, k, v) == SetElem(SaveElem(m, k), k, v)
\* What is left goes to main's global, wherever the hash was.
LessKey(m, k) == [m EXCEPT !.plain["main"] = [GetHash(m) EXCEPT ![k] = Absent]]
DeleteLocal(m, k) == LessKey(SaveElem(m, k), k)

RestoreWhole(m, old) == [m EXCEPT !.plain["main"] = old]
\* (Faulty variant: an element that was absent stays.)
RestoreElemStays(m, save) ==
    IF save.old # Absent THEN SetElem(m, save.k, save.old) ELSE m
RestoreElem(m, save) ==
    IF save.old # Absent THEN SetElem(m, save.k, save.old) ELSE LessKey(m, save.k)
\* What was saved last is put back first.
Undo(Restore(_, _), m, saves) ==
    LET last == Reverse(saves)
        undone[i \in 0 .. Len(saves)] ==
            IF i = 0 THEN m ELSE Restore(undone[i - 1], last[i])
    IN undone[Len(saves)]
CloseBlock(m) ==
    LET top == Last(m.frames)
        wholes == Undo(RestoreWhole, [m EXCEPT !.frames = Front(@)], top.whole)
    IN [Undo(RestoreElem, wholes, top.elems) EXCEPT !.pkg = top.back]
-----------------------------------------------------------------------------
Statement(op) == op \in Ops /\ ~Clearing /\ ops > 0 /\ ops' = ops - 1 /\ UNCHANGED before
Taints(op) == tainted' = IF op = "local" THEN tainted ELSE [d \in DOMAIN tainted |-> TRUE]
Do(op, m) == Statement(op) /\ Taints(op) /\ mem' = m /\ UNCHANGED list

AssignList ==
    \E hash \in Hash :
        \/ Statement("list") /\ Begins(mem, hash) /\ Taints("list")
        \/ Statement("localhash") /\ MayLocalize(mem) /\ Begins(SaveWhole(mem), hash)
             /\ Taints("localhash")
        \/ Statement("our") /\ mem.pkg = "main" /\ Begins(mem, hash) /\ Taints("our")

Builtin ==
    \/ \E k \in Keys, v \in Items : \/ Do("elem", SetElem(mem, k, v))
                                    \/ Do("local", LocalElem(mem, k, v))
    \/ \E k \in Keys : Do("elem", Delete(mem, k)) \/ Do("local", DeleteLocal(mem, k))
    \/ \E m \in Each(mem) : Do("each", m)
    \/ Do("each", ResetEach(mem)) \/ Do("ref", Ref(mem))
    \/ \E hash \in Hash : mem.pkg # "main" /\ Do("our", Our(mem, hash))
    \/ \E p \in Packages \ {mem.pkg} : Do("package", [mem EXCEPT !.pkg = p])

OpenBlock ==
    /\ ~Clearing /\ Depth(mem) < MaxDepth /\ ops > 0
    /\ mem' = [mem EXCEPT !.frames = Append(@, Frame(mem.pkg))]
    /\ before' = Append(before, GetHash(mem))
    /\ tainted' = Append(tainted, FALSE)
    /\ ops' = ops - 1 /\ UNCHANGED list

EndBlock ==
    /\ ~Clearing /\ Depth(mem) > 1
    /\ mem' = CloseBlock(mem)
    /\ before' = Front(before) /\ tainted' = Front(tainted)
    /\ UNCHANGED <<ops, list>>

Over == ~Clearing /\ ops = 0 /\ Depth(mem) = 1 /\ UNCHANGED vars
Next == AssignList \/ Builtin \/ TakeEntry \/ InstallList \/ OpenBlock \/ EndBlock \/ Over
Spec == Init /\ [][Next]_vars
\* The interpreter finishes the assignment it is at.
FairSpec == Spec /\ WF_vars(TakeEntry) /\ WF_vars(InstallList)
-----------------------------------------------------------------------------
\* Types; an aliased hash (aliased_hashes) has its Rc, and each scope its history.
TypeOK == /\ mem \in Mem /\ mem.frames # <<>> /\ list \in Hash \cup {NoHash}
          /\ ops \in 0 .. MaxOps /\ before \in Seq(Hash) /\ tainted \in Seq(BOOLEAN)
          /\ \A p \in Packages : mem.shared[p] <= Len(mem.heap)
          /\ Len(before) = Depth(mem) /\ Len(tainted) = Depth(mem)

\* The current package's Rc and main's are two hashes and no lexical hides them.
Torn == Lexical(mem) = {} /\ mem.shared[mem.pkg] # 0 /\ mem.shared[mem.pkg] # mem.shared["main"]

\* A list assignment ends although destructors refill the hash, unless the hash that is
\* looked at is another one than the hash entries are taken from.
AssignmentEnds == Clearing ~> (~Clearing \/ Torn)

\* A list assignment that ends is seen: the hash then holds the list and nothing of what
\* destructors put in on the way, unless a lexical of an outer block hides the Rc or
\* the package's Rc does.
Hidden == Lexical(mem) # {} /\ Install(mem).kind = "cell"
AssignmentSeen == [][InstallList /\ ~Hidden /\ ~Torn => GetHash(mem') = list]_vars

\* A block that only localizes elements, or deletes them locally, leaves a hash that is
\* main's global as it found it.
MainsGlobal(m) == m.pkg = "main" /\ PlaceOr(m, Plain("main")).kind = "plain"
ElementsBack ==
    [][Depth(mem') < Depth(mem) /\ ~Last(tainted) /\ MainsGlobal(mem)
         => GetHash(mem') = Last(before)]_vars
=============================================================================
