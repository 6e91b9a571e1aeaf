------------------------------ MODULE DynScope ------------------------------
(***************************************************************************)
(* Scalar variables: my, our, local, assignment and lookup over the        *)
(* interpreter's stack of scopes and its two stores of package variables,  *)
(* globals.vars and aliased_vars (the variables that `our` or a reference  *)
(* has moved into a shared cell).                                          *)
(*                                                                         *)
(* A package variable `$p::n` is the pair p, n.  The code's keys are       *)
(* strings and the key of a variable of package main is its bare name, so  *)
(* looking up a bare name in a store is looking up package Main here.      *)
(***************************************************************************)
EXTENDS Naturals, Sequences, SequencesExt

CONSTANTS
    Main,        \* package main
    Packages,    \* the packages the program uses
    Values,      \* values of scalars
    Undef,       \* the undefined value, one of them
    Absent,      \* no entry in a map
    MyNames,     \* the names it declares with my,
    OurNames,    \* with our,
    OurListNames,\* initialises with our in a list: our ($x, ...) = LIST,
    RefNames,    \* takes a reference to,
    LocalNames,  \* localizes one at a time, and
    ListNames,   \* localizes in a list: local ($x, ...) = LIST
    OtherNames,  \* names it only assigns
    MaxFrames,   \* bound on open scopes
    MaxSaves     \* bound on the locals of one scope

Names == MyNames \cup OurNames \cup OurListNames \cup RefNames \cup LocalNames
           \cup ListNames \cup OtherNames

ASSUME DynScopeAssumption ==
    /\ Main \in Packages
    /\ Undef \in Values
    /\ Absent \notin Packages \cup Values
    /\ Packages \cap Values = {}
    /\ MaxFrames \in Nat \ {0}
    /\ MaxSaves \in Nat

VARIABLES
    frames,   \* the open scopes, the file's first, the innermost last
    globals,  \* globals.vars
    cells,    \* aliased_vars
    package   \* the current package

vars == <<frames, globals, cells, package>>

(***************************************************************************)
(* A slot of a scope holds a value (my), or is an alias of the cell of a   *)
(* package variable of the same name (our): then it is the package.        *)
(* A save is an entry of local_saves: a bare name and a value.             *)
(* A frame of kind "init" or "list" is not a scope: the initial value of a *)
(* local is being evaluated.  back is the package to return to.            *)
(***************************************************************************)
Slots == Values \cup Packages \cup {Absent}
Saves == [name : Names, val : Values]
ScopeKinds == {"file", "block", "sub"}
Frames == [kind : ScopeKinds \cup {"init", "list"}, slots : [Names -> Slots],
           saves : Seq(Saves), back : Packages, name : Names \cup {Absent}]
Stores == [Packages -> [Names -> Values \cup {Absent}]]

NewFrame(k, n) == [kind |-> k, slots |-> [x \in Names |-> Absent], saves |-> <<>>,
                   back |-> package, name |-> n]
Top == Last(frames)
ChangeTop(f) == [frames EXCEPT ![Len(frames)] = f]

\* A statement of the innermost scope may be executed.
AtStmt == Top.kind \in ScopeKinds
----------------------------------------------------------------------------
(***************************************************************************)
(* Lookup.  Scopes are searched from the innermost out, those of callers   *)
(* included.  Then get_var prefers the current package, set_var package    *)
(* main's cell.                                                            *)
(***************************************************************************)
Holding(n) == {i \in 1..Len(frames) : frames[i].slots[n] # Absent}
Innermost(n) == CHOOSE i \in Holding(n) : \A j \in Holding(n) : j <= i
SlotOf(n) == IF Holding(n) = {} THEN Absent ELSE frames[Innermost(n)].slots[n]

OrElse(x, y) == IF x # Absent THEN x ELSE y

\* $p::n  (Faulty variant: there is no default.)
ReadQualifiedNoDefault(p, n) == OrElse(cells[p][n], globals[p][n])
ReadQualified(p, n) == OrElse(cells[p][n], OrElse(globals[p][n], Undef))

\* Whose variable `$n` reads when no lexical variable of that name is in scope:
\* that of the alias, else the first with a cell, else the first in globals.
Holder(store, n) ==
    IF store[package][n] # Absent THEN package
    ELSE IF store[Main][n] # Absent THEN Main ELSE Absent
Named(n) ==
    IF SlotOf(n) \in Packages THEN SlotOf(n)
    ELSE OrElse(Holder(cells, n), OrElse(Holder(globals, n), package))

\* $n
Read(n) == IF SlotOf(n) \in Values THEN SlotOf(n) ELSE ReadQualified(Named(n), n)

Store(p, n, v) ==
    IF cells[p][n] # Absent
    THEN cells' = [cells EXCEPT ![p][n] = v] /\ UNCHANGED globals
    ELSE globals' = [globals EXCEPT ![p][n] = v] /\ UNCHANGED cells

\* Faulty variant: a package variable's shared cell is bypassed.
StoreBypassesCell(n, v) ==
    globals' = [globals EXCEPT ![package][n] = v] /\ UNCHANGED cells

\* Which package's variable an assignment to an undeclared name goes to.
StoreGlobal(n, v) == Store(IF cells[Main][n] # Absent THEN Main ELSE package, n, v)

----------------------------------------------------------------------------
\* $n = v
Assign(n, v) ==
    /\ AtStmt
    /\ UNCHANGED package
    /\ \/ SlotOf(n) = Absent /\ StoreGlobal(n, v) /\ UNCHANGED frames
       \/ /\ SlotOf(n) \in Packages
          /\ cells' = [cells EXCEPT ![SlotOf(n)][n] = v]
          /\ UNCHANGED <<frames, globals>>
       \/ /\ SlotOf(n) \in Values
          /\ frames' = [frames EXCEPT ![Innermost(n)].slots[n] = v]
          /\ UNCHANGED <<globals, cells>>

\* $p::n = v
AssignQualified(p, n) ==
    /\ AtStmt
    /\ \E v \in Values : Store(p, n, v)
    /\ UNCHANGED <<frames, package>>

My(n) ==
    /\ n \in MyNames
    /\ AtStmt
    /\ \E v \in Values : frames' = ChangeTop([Top EXCEPT !.slots[n] = v])
    /\ UNCHANGED <<globals, cells, package>>

\* The variable's value moves to a cell, if it has none yet.  (Faulty variant:
\* it is copied.)
MoveToCellCopies(n, init) ==
    /\ cells' = [cells EXCEPT ![package][n] =
                   OrElse(init, OrElse(@, OrElse(globals[package][n], Undef)))]
    /\ UNCHANGED globals
MoveToCell(n, init) ==
    /\ cells' = [cells EXCEPT ![package][n] =
                   OrElse(init, OrElse(@, OrElse(globals[package][n], Undef)))]
    /\ globals' = IF cells[package][n] = Absent
                  THEN [globals EXCEPT ![package][n] = Absent] ELSE globals

\* our $n, with or without an initial value, and our ($n, ...) without one
Our(n) ==
    /\ n \in OurNames
    /\ AtStmt
    /\ \E v \in Values \cup {Absent} : MoveToCell(n, v)
    /\ frames' = ChangeTop([Top EXCEPT !.slots[n] = package])
    /\ UNCHANGED package

\* our ($n, ...) = LIST, for one of the variables of the list: main's is set, in
\* whichever package, and it is set in globals even if it has a cell.
OurList(n, v) ==
    /\ n \in OurListNames
    /\ AtStmt
    /\ globals' = [globals EXCEPT ![Main][n] = v]
    /\ UNCHANGED <<frames, cells, package>>

\* \$n of a package variable; of a lexical one it is a copy.
TakeRef(n) ==
    /\ n \in RefNames
    /\ AtStmt
    /\ SlotOf(n) = Absent
    /\ MoveToCell(n, Absent)
    /\ UNCHANGED <<frames, package>>

SetPackage(p) ==
    /\ AtStmt
    /\ package' = p
    /\ UNCHANGED <<frames, globals, cells>>
----------------------------------------------------------------------------
(***************************************************************************)
(* local $n = EXPR refuses a lexical variable, saves the value under the   *)
(* bare name, evaluates EXPR, which may call subs, and only then stores    *)
(* its value; local ($n) = LIST evaluates LIST first and refuses nothing.  *)
(***************************************************************************)
IsOur(n) == cells[Main][n] # Absent \/ cells[package][n] # Absent
Lexical(n) == ~IsOur(n) /\ Holding(n) # {}

SaveOf(n) == [name |-> n, val |-> Read(n)]

LocalBegins(n) ==
    /\ n \in LocalNames
    /\ AtStmt
    /\ ~Lexical(n)
    /\ Len(frames) < MaxFrames /\ Len(Top.saves) < MaxSaves
    /\ frames' = Append(ChangeTop([Top EXCEPT !.saves = Append(@, SaveOf(n))]),
                        NewFrame("init", n))
    /\ UNCHANGED <<globals, cells, package>>

LocalEnds ==
    /\ Top.kind = "init"
    /\ \E v \in Values : Store(Main, Top.name, v)
    /\ frames' = Front(frames)
    /\ UNCHANGED package

LocalListBegins(n) ==
    /\ n \in ListNames
    /\ AtStmt
    /\ Len(frames) < MaxFrames /\ Len(Top.saves) < MaxSaves
    /\ frames' = Append(frames, NewFrame("list", n))
    /\ UNCHANGED <<globals, cells, package>>

LocalListEnds ==
    /\ Top.kind = "list"
    /\ frames' = [Front(frames) EXCEPT ![Len(frames) - 1].saves = Append(@, SaveOf(Top.name))]
    /\ \E v \in Values : Store(Main, Top.name, v)
    /\ UNCHANGED package
----------------------------------------------------------------------------
\* A bare block, or a call of a sub of package p: push_scope.
Enter(k, p) ==
    /\ k = "block" => AtStmt /\ p = package
    /\ Len(frames) < MaxFrames
    /\ frames' = Append(frames, NewFrame(k, Absent))
    /\ package' = p
    /\ UNCHANGED <<globals, cells>>

\* restore_locals: the saves are undone last to first, so the first save of a
\* name is what remains.  (Faulty variant: first to last.)
Saved(saves) == {saves[i].name : i \in 1..Len(saves)}
LastSave(saves, n) ==
    LET S == {i \in 1..Len(saves) : saves[i].name = n}
    IN saves[CHOOSE i \in S : \A j \in S : j <= i].val
FirstSave(saves, n) ==
    LET S == {i \in 1..Len(saves) : saves[i].name = n}
    IN saves[CHOOSE i \in S : \A j \in S : i <= j].val

\* The scope is left, in whatever way: pop_scope.
Leave ==
    /\ Top.kind \in {"block", "sub"}
    /\ frames' = Front(frames)
    /\ cells' = [cells EXCEPT ![Main] =
         [n \in Names |-> IF n \in Saved(Top.saves) /\ @[n] # Absent
                           THEN FirstSave(Top.saves, n) ELSE @[n]]]
    /\ globals' = [globals EXCEPT ![Main] =
         [n \in Names |-> IF n \in Saved(Top.saves) /\ cells[Main][n] = Absent
                           THEN FirstSave(Top.saves, n) ELSE @[n]]]
    /\ package' = Top.back
----------------------------------------------------------------------------
Init ==
    /\ package = Main
    /\ globals = [p \in Packages |-> [n \in Names |-> Absent]]
    /\ cells = globals
    /\ frames = <<NewFrame("file", Absent)>>

Next ==
    \/ \E n \in Names : \/ \E v \in Values : Assign(n, v) \/ OurList(n, v)
                         \/ My(n) \/ Our(n) \/ TakeRef(n)
                         \/ LocalBegins(n) \/ LocalListBegins(n)
    \/ \E p \in Packages : \/ \E n \in Names : AssignQualified(p, n)
                           \/ SetPackage(p)
                           \/ \E k \in {"block", "sub"} : Enter(k, p)
    \/ LocalEnds \/ LocalListEnds \/ Leave

Spec == Init /\ [][Next]_vars
----------------------------------------------------------------------------
\* Every scope, store and save holds what the interpreter's fields can hold.
TypeOK ==
    /\ frames \in Seq(Frames)
    /\ frames # <<>>
    /\ globals \in Stores
    /\ cells \in Stores
    /\ package \in Packages

InBoth(p, n) == cells[p][n] # Absent /\ globals[p][n] # Absent

AliasesFound ==
    \A i \in 1..Len(frames), n \in Names :
       frames[i].slots[n] \in Packages => cells[frames[i].slots[n]][n] # Absent

\* A package variable lives in one store, its cell or globals: no statement puts
\* it in both, where a write that goes one way would not be seen by a read that
\* goes the other, but a list `our` that finds a cell of one of main's; and every
\* `our` alias has a cell to refer to.
OneStore ==
    [][/\ \A p \in Packages, n \in Names :
            InBoth(p, n)' /\ ~InBoth(p, n) => p = Main /\ \E v \in Values : OurList(n, v)
       /\ AliasesFound']_vars

\* Main and another, current, package both have a cell for `$n`: set_var takes
\* the one and get_var the other.
Ambiguous(n) ==
    /\ SlotOf(n) = Absent /\ package # Main
    /\ cells[Main][n] # Absent /\ cells[package][n] # Absent

\* What is assigned to `$n` is what `$n` reads next, whichever of my, our, local
\* and reference-taking came before and in whichever package, the one exception
\* being Ambiguous.
ReadYourWrite ==
    [][\A n \in Names, v \in Values :
         Assign(n, v) /\ ~Ambiguous(n) => Read(n)' = v]_vars

\* In package main, and for names that are not both lexical and package
\* variables, scopes keep the promise of local.
UndoOf(fs) == [i \in {j \in 1..Len(fs) : fs[j].kind \in ScopeKinds} |->
                 [n \in Saved(fs[i].saves) |-> FirstSave(fs[i].saves, n)]]
Promise == INSTANCE Localization
             WITH Variables <- Names, Depths <- 1..MaxFrames,
                  value <- [n \in Names |-> ReadQualified(Main, n)],
                  undo <- UndoOf(frames)
LocalizationKept == Promise!Spec
=============================================================================
