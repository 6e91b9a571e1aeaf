--------------------------- MODULE DynScopeProofs ---------------------------
(***************************************************************************)
(* No statement but a list `our` puts a package variable in both of its    *)
(* stores, what is written to a variable is read back, and local keeps its *)
(* promise, whatever the program.                                          *)
(*                                                                         *)
(* All rest on IInv.  Types need to know that the file's scope is never    *)
(* left and that a frame of a pending local knows which name it is for,    *)
(* and an assignment that an alias has a cell: it writes to no other store.*)
(***************************************************************************)
EXTENDS DynScope, SequenceLemmas

\* A frame of a pending local has its name; an alias has its cell.
FrameOK(f, c) ==
    /\ f \in Frames
    /\ f.kind \in {"init", "list"} => f.name \in Names
    /\ \A n \in Names : f.slots[n] \in Packages => c[f.slots[n]][n] # Absent
FramesOK(fs, c) ==
    /\ fs \in Seq(Frames) /\ fs # <<>>
    /\ fs[1].kind = "file"
    /\ \A i \in 1..Len(fs) : FrameOK(fs[i], c)
StoresOK(c, g) == c \in Stores /\ g \in Stores

IInv == FramesOK(frames, cells) /\ StoresOK(cells, globals) /\ package \in Packages

\* Cells are never removed.
Grows(c, d) == \A p \in Packages, n \in Names : c[p][n] # Absent => d[p][n] # Absent

\* No variable enters both stores in a step.
NoneDoubled == \A p \in Packages, n \in Names : InBoth(p, n)' => InBoth(p, n)

\* The four ways a step changes the scopes: one more, one changed, one less,
\* and the same over more cells.
LEMMA AppendFrame ==
    ASSUME NEW fs, NEW c, NEW f, FramesOK(fs, c), FrameOK(f, c)
    PROVE  FramesOK(Append(fs, f), c)
<1>1. fs \in Seq(Frames) /\ fs # <<>> /\ f \in Frames
  BY DEF FramesOK, FrameOK
<1>2. /\ Append(fs, f) \in Seq(Frames) /\ Append(fs, f) # <<>>
      /\ Append(fs, f)[1] = fs[1]
      /\ \A i \in 1..Len(Append(fs, f)) :
           (i \in 1..Len(fs) /\ Append(fs, f)[i] = fs[i]) \/ Append(fs, f)[i] = f
  BY <1>1
<1> QED BY <1>2 DEF FramesOK

\* A frame replaced by one of its kind leaves the scopes well-formed;
LEMMA ReplaceFrame ==
    ASSUME NEW fs, NEW c, NEW i \in 1..Len(fs), NEW f,
           FramesOK(fs, c), FrameOK(f, c), f.kind = fs[i].kind
    PROVE  FramesOK([fs EXCEPT ![i] = f], c)
<1>1. fs \in Seq(Frames) /\ fs # <<>> /\ f \in Frames
  BY DEF FramesOK, FrameOK
<1> DEFINE t == [fs EXCEPT ![i] = f]
<1>2. /\ t \in Seq(Frames) /\ t # <<>> /\ Len(t) = Len(fs)
      /\ \A j \in 1..Len(fs) : t[j] = IF j = i THEN f ELSE fs[j]
  BY <1>1
<1>3. 1 \in 1..Len(fs)
  BY <1>1
<1> HIDE DEF t
<1>4. FramesOK(t, c)
  BY <1>2, <1>3 DEF FramesOK
<1> QED BY <1>4 DEF t

\* so does a scope that is left, unless it is the file's,
LEMMA FrontFrames ==
    ASSUME NEW fs, NEW c, FramesOK(fs, c), Last(fs).kind # "file"
    PROVE  FramesOK(Front(fs), c) /\ Len(Front(fs)) = Len(fs) - 1
<1>1. fs \in Seq(Frames) /\ fs # <<>>
  BY DEF FramesOK
<1>0. Len(fs) # 1
  BY DEF FramesOK, Last
<1>2. Len(fs) \in Nat /\ Len(fs) # 0
  BY <1>1, EmptySeq, LenProperties
<1>3. Len(fs) - 1 \in Nat /\ Len(fs) - 1 > 0 /\ Len(fs) - 1 <= Len(fs)
  <2> SUFFICES ASSUME NEW k \in Nat, k # 0, k # 1
               PROVE  k - 1 \in Nat /\ k - 1 > 0 /\ k - 1 <= k
    BY <1>0, <1>2
  <2> QED OBVIOUS
<1>4. /\ Front(fs) \in Seq(Frames)
      /\ Len(Front(fs)) = Len(fs) - 1
      /\ \A i \in 1..(Len(fs) - 1) : Front(fs)[i] = fs[i]
  <2> DEFINE m == Len(fs) - 1
  <2>1. 1 \in Int /\ m \in Int /\ (1 <= m + 1) /\ m - 1 + 1 = m
    BY <1>3
  <2>2. \A i \in 1..m : fs[i] \in Frames
    BY <1>1, <1>2, <1>3
  <2>3. Front(fs) = [i \in 1..m |-> fs[i]]
    <3>1. Front(fs) = SubSeq(fs, 1, m)
      BY DEF Front
    <3>2. \A i \in 1..m : i + 1 - 1 = i
      BY <2>1
    <3> HIDE DEF m
    <3> QED BY <3>1, <3>2, <2>1 DEF Front
  <2> HIDE DEF m
  <2>4. m \in Nat
    BY <1>3 DEF m
  <2>5. Front(fs) \in Seq(Frames) /\ Len(Front(fs)) = m
    BY <2>2, <2>3, <2>4, IsASeq, LenProperties
  <2> QED BY <2>3, <2>5 DEF m
<1>5. Front(fs) # <<>>
  BY <1>3, <1>4
<1>6. \A i \in 1..(Len(fs) - 1) : i \in 1..Len(fs)
  BY <1>2, <1>3
<1>7. Front(fs)[1] = fs[1]
  BY <1>3, <1>4
<1>8. FramesOK(Front(fs), c)
  BY <1>4, <1>5, <1>6, <1>7 DEF FramesOK
<1> QED BY <1>4, <1>8

\* and a variable that gets a cell: aliases made before keep theirs.
LEMMA GrowFrames ==
    ASSUME NEW fs, NEW c, NEW d, FramesOK(fs, c), Grows(c, d)
    PROVE  FramesOK(fs, d)
BY DEF FramesOK, FrameOK, Grows

\* The innermost scope is a scope of the stack.
LEMMA TopFrame ==
    ASSUME IInv
    PROVE  /\ frames \in Seq(Frames)
           /\ Len(frames) \in 1..Len(frames)
           /\ Top = frames[Len(frames)]
           /\ FrameOK(Top, cells)
           /\ Top \in Frames
<1>1. frames \in Seq(Frames) /\ frames # <<>>
  BY DEF IInv, FramesOK
<1>2. Len(frames) \in 1..Len(frames) /\ Top = frames[Len(frames)]
  BY <1>1 DEF Top, Last
<1> QED BY <1>1, <1>2 DEF IInv, FramesOK, FrameOK

\* A scope just entered, or a `local` just begun, is well-formed.
LEMMA NewFrameOK ==
    ASSUME package \in Packages, NEW c, NEW k, NEW n,
           k \in ScopeKinds \/ (k \in {"init", "list"} /\ n \in Names),
           n \in Names \cup {Absent}
    PROVE  FrameOK(NewFrame(k, n), c)
BY DynScopeAssumption DEF FrameOK, NewFrame, Frames, Slots, ScopeKinds

\* What is restored is one of the values saved,
LEMMA RestoredValue ==
    ASSUME NEW saves \in Seq(Saves), NEW n \in Saved(saves)
    PROVE  FirstSave(saves, n) \in Values
<1> DEFINE S == {i \in 1..Len(saves) : saves[i].name = n}
<1>1. S \subseteq 1..Len(saves) /\ S # {} /\ Len(saves) \in Nat
  BY DEF Saved
<1>2. \E i \in S : \A j \in S : i <= j
  <2> HIDE DEF S
  <2> QED BY <1>1, Extremes
<1>3. (CHOOSE i \in S : \A j \in S : i <= j) \in S
  <2> HIDE DEF S
  <2> QED BY <1>2
<1>4. saves[CHOOSE i \in S : \A j \in S : i <= j] \in Saves
  <2> DEFINE k == CHOOSE i \in S : \A j \in S : i <= j
  <2>1. k \in 1..Len(saves)
    BY <1>1, <1>3
  <2> HIDE DEF k
  <2>2. saves[k] \in Saves
    BY <2>1
  <2> QED BY <2>2 DEF k
<1> QED BY <1>4 DEF FirstSave, Saves

\* and what is saved is a value.
LEMMA SavedValue ==
    ASSUME StoresOK(cells, globals), package \in Packages, NEW n \in Names
    PROVE  SaveOf(n) \in Saves
<1>1. Named(n) \in Packages
  BY DynScopeAssumption DEF Named, Holder, OrElse
<1>2. ReadQualified(Named(n), n) \in Values
  BY <1>1, DynScopeAssumption DEF ReadQualified, OrElse, StoresOK, Stores
<1> QED BY <1>1, <1>2 DEF SaveOf, Saves, Read

\* A value is stored in a package variable's cell, and in globals if it has none.
LEMMA Storing ==
    ASSUME StoresOK(cells, globals), NEW p \in Packages, NEW n \in Names, NEW v \in Values,
           Store(p, n, v)
    PROVE  /\ StoresOK(cells', globals')
           /\ Grows(cells, cells') /\ NoneDoubled
           /\ ReadQualified(p, n)' = v
<1>1. v # Absent /\ v \in Values \cup {Absent}
  BY DynScopeAssumption
<1>2. cells \in Stores /\ globals \in Stores
  BY DEF StoresOK
<1>3. CASE cells[p][n] # Absent
  <2>1. cells' = [cells EXCEPT ![p][n] = v] /\ globals' = globals
    BY <1>3 DEF Store
  <2>2. cells' \in Stores
    BY <1>1, <1>2, <2>1 DEF Stores
  <2>3. \A q \in Packages, m \in Names :
          cells'[q][m] = IF q = p /\ m = n THEN v ELSE cells[q][m]
    BY <1>2, <2>1 DEF Stores
  <2>4. NoneDoubled
    BY <1>3, <2>1, <2>3 DEF NoneDoubled, InBoth
  <2>5. StoresOK(cells', globals')
    BY <1>2, <2>1, <2>2 DEF StoresOK
  <2>6. Grows(cells, cells')
    BY <1>1, <2>3 DEF Grows
  <2>7. ReadQualified(p, n)' = v
    BY <1>1, <2>3 DEF ReadQualified, OrElse
  <2> QED BY <2>4, <2>5, <2>6, <2>7
<1>4. CASE cells[p][n] = Absent
  <2>1. globals' = [globals EXCEPT ![p][n] = v] /\ cells' = cells
    BY <1>4 DEF Store
  <2>2. globals' \in Stores
    BY <1>1, <1>2, <2>1 DEF Stores
  <2>3. \A q \in Packages, m \in Names :
          globals'[q][m] = IF q = p /\ m = n THEN v ELSE globals[q][m]
    BY <1>2, <2>1 DEF Stores
  <2>4. NoneDoubled
    BY <1>4, <2>1, <2>3 DEF NoneDoubled, InBoth
  <2>5. StoresOK(cells', globals')
    BY <1>2, <2>1, <2>2 DEF StoresOK
  <2>6. Grows(cells, cells')
    BY <2>1 DEF Grows
  <2>7. ReadQualified(p, n)' = v
    BY <1>1, <1>4, <2>1, <2>3 DEF ReadQualified, OrElse
  <2> QED BY <2>4, <2>5, <2>6, <2>7
<1> QED BY <1>3, <1>4

\* A variable moved to a cell leaves globals.
LEMMA Moving ==
    ASSUME StoresOK(cells, globals), package \in Packages, NEW n \in Names,
           NEW v \in Values \cup {Absent}, MoveToCell(n, v)
    PROVE  /\ StoresOK(cells', globals')
           /\ Grows(cells, cells') /\ NoneDoubled
           /\ cells'[package][n] # Absent
<1>1. cells \in Stores /\ globals \in Stores
  BY DEF StoresOK
<1> DEFINE w == OrElse(v, OrElse(cells[package][n], OrElse(globals[package][n], Undef)))
<1>2. w \in Values /\ w # Absent
  BY <1>1, DynScopeAssumption DEF Stores, OrElse
<1>3. cells' = [cells EXCEPT ![package][n] = w]
  BY <1>1 DEF MoveToCell, Stores
<1>4. globals' = IF cells[package][n] = Absent
                 THEN [globals EXCEPT ![package][n] = Absent] ELSE globals
  BY DEF MoveToCell
<1> HIDE DEF w
<1>5. cells' \in Stores
  BY <1>1, <1>2, <1>3 DEF Stores
<1>6. globals' \in Stores
  BY <1>1, <1>4 DEF Stores
<1>7. \A q \in Packages, m \in Names :
        /\ cells'[q][m] = IF q = package /\ m = n THEN w ELSE cells[q][m]
        /\ globals'[q][m] = IF q = package /\ m = n /\ cells[package][n] = Absent
                            THEN Absent ELSE globals[q][m]
  BY <1>1, <1>3, <1>4 DEF Stores
<1>8. NoneDoubled
  BY <1>7 DEF NoneDoubled, InBoth
<1>9. StoresOK(cells', globals')
  BY <1>5, <1>6 DEF StoresOK
<1>10. Grows(cells, cells')
  BY <1>2, <1>7 DEF Grows
<1> QED BY <1>2, <1>7, <1>8, <1>9, <1>10

\* One more save in the scope a frame is of.
LEMMA MoreSaves ==
    ASSUME NEW f, NEW c, FrameOK(f, c), NEW s \in Saves
    PROVE  FrameOK([f EXCEPT !.saves = Append(@, s)], c)
<1>1. f \in Frames /\ f.saves \in Seq(Saves)
  BY DEF FrameOK, Frames
<1>2. Append(f.saves, s) \in Seq(Saves)
  BY <1>1
<1> DEFINE g == [f EXCEPT !.saves = Append(f.saves, s)]
<1>3. g \in Frames /\ g.kind = f.kind /\ g.name = f.name /\ g.slots = f.slots
  BY <1>1, <1>2 DEF Frames
<1> HIDE DEF g
<1>4. FrameOK(g, c)
  BY <1>3 DEF FrameOK
<1> QED BY <1>4 DEF g

\* A slot of a scope is declared anew, with a value or as an alias of a cell.
LEMMA NewSlot ==
    ASSUME NEW f, NEW c, FrameOK(f, c), NEW n \in Names, NEW v \in Values \cup Packages,
           v \in Packages => c[v][n] # Absent
    PROVE  FrameOK([f EXCEPT !.slots[n] = v], c)
<1> DEFINE g == [f EXCEPT !.slots[n] = v]
<1>1. f \in Frames
  BY DEF FrameOK
<1>2. g \in Frames /\ g.kind = f.kind /\ g.name = f.name
  BY <1>1 DEF Frames, Slots
<1>3. \A m \in Names : g.slots[m] = IF m = n THEN v ELSE f.slots[m]
  BY <1>1 DEF Frames
<1> HIDE DEF g
<1>4. FrameOK(g, c)
  BY <1>2, <1>3 DEF FrameOK
<1> QED BY <1>4 DEF g

\* The first scope that holds a name does hold it.
LEMMA InnermostHolds ==
    ASSUME IInv, NEW n \in Names, Holding(n) # {}
    PROVE  /\ Innermost(n) \in 1..Len(frames)
           /\ \A j \in Holding(n) : j <= Innermost(n)
           /\ Innermost(n) \in Holding(n)
           /\ SlotOf(n) = frames[Innermost(n)].slots[n]
           /\ SlotOf(n) # Absent
<1>1. Len(frames) \in Nat /\ Holding(n) \subseteq 1..Len(frames)
  BY TopFrame DEF Holding
<1>2. \E i \in Holding(n) : \A j \in Holding(n) : j <= i
  BY <1>1, Extremes
<1>3. Innermost(n) \in Holding(n) /\ \A j \in Holding(n) : j <= Innermost(n)
  BY <1>2 DEF Innermost
<1>4. SlotOf(n) = frames[Innermost(n)].slots[n]
  BY DEF SlotOf
<1> QED BY <1>1, <1>3, <1>4 DEF Holding
----------------------------------------------------------------------------
\* IInv holds at the start: no variable, and the file's scope.
LEMMA InitIInv == Init => IInv
<1> SUFFICES ASSUME Init PROVE IInv
  OBVIOUS
<1>1. package \in Packages
  BY DynScopeAssumption DEF Init
<1>2. StoresOK(cells, globals)
  BY DEF Init, StoresOK, Stores
<1>3. FrameOK(NewFrame("file", Absent), cells) /\ NewFrame("file", Absent).kind = "file"
  BY <1>1, NewFrameOK DEF ScopeKinds, NewFrame
<1>4. FramesOK(frames, cells)
  <2> DEFINE f == NewFrame("file", Absent)
  <2>1. frames = <<f>> /\ f \in Frames
    BY <1>3 DEF Init, FrameOK
  <2> HIDE DEF f
  <2>2. /\ frames \in Seq(Frames) /\ frames # <<>> /\ Len(frames) = 1 /\ frames[1] = f
    BY <2>1
  <2>3. \A i \in 1..Len(frames) : frames[i] = f
    BY <2>2
  <2> QED BY <1>3, <2>2, <2>3 DEF f, FramesOK
<1> QED BY <1>1, <1>2, <1>4 DEF IInv

\* The innermost scope replaced by one of its kind.
LEMMA ChangeTopOK ==
    ASSUME IInv, NEW c, NEW f, FramesOK(frames, c), FrameOK(f, c), f.kind = Top.kind
    PROVE  FramesOK(ChangeTop(f), c)
<1>1. Len(frames) \in 1..Len(frames) /\ f.kind = frames[Len(frames)].kind
  BY TopFrame
<1> QED BY <1>1, ReplaceFrame DEF ChangeTop

\* What a scope restores goes to the store each variable is in.
LEMMA Leaving ==
    ASSUME IInv, Leave
    PROVE  StoresOK(cells', globals') /\ Grows(cells, cells') /\ NoneDoubled
<1>1. Top.saves \in Seq(Saves)
  BY TopFrame DEF Frames
<1>2. \A n \in Saved(Top.saves) :
        FirstSave(Top.saves, n) \in Values /\ FirstSave(Top.saves, n) # Absent
  BY <1>1, RestoredValue, DynScopeAssumption
<1>3. cells \in Stores /\ globals \in Stores /\ Main \in Packages
  BY DynScopeAssumption DEF IInv, StoresOK
<1>4. \A p \in Packages, n \in Names :
        /\ cells'[p][n] = IF p = Main /\ n \in Saved(Top.saves) /\ cells[p][n] # Absent
                          THEN FirstSave(Top.saves, n) ELSE cells[p][n]
        /\ globals'[p][n] = IF p = Main /\ n \in Saved(Top.saves) /\ cells[p][n] = Absent
                            THEN FirstSave(Top.saves, n) ELSE globals[p][n]
  BY <1>3 DEF Leave, Stores
<1>5. cells' \in Stores /\ globals' \in Stores
  <2> DEFINE row(s) == [n \in Names |-> s[Main][n]]
  <2>1. /\ cells' = [cells EXCEPT ![Main] = row(cells')]
        /\ globals' = [globals EXCEPT ![Main] = row(globals')]
    BY <1>3 DEF Leave, Stores
  <2>2. /\ row(cells') \in [Names -> Values \cup {Absent}]
        /\ row(globals') \in [Names -> Values \cup {Absent}]
    BY <1>2, <1>3, <1>4, SMTT(30) DEF Stores
  <2> HIDE DEF row
  <2> QED BY <1>3, <2>1, <2>2 DEF Stores
<1>6. Grows(cells, cells')
  BY <1>2, <1>4 DEF Grows
<1>7. NoneDoubled
  BY <1>4 DEF NoneDoubled, InBoth
<1> QED BY <1>5, <1>6, <1>7 DEF StoresOK

\* Every step preserves IInv.
LEMMA NextIInv == IInv /\ [Next]_vars => IInv'
<1> SUFFICES ASSUME IInv, [Next]_vars PROVE IInv'
  OBVIOUS
<1>0. /\ FramesOK(frames, cells) /\ StoresOK(cells, globals) /\ package \in Packages
      /\ FrameOK(Top, cells) /\ Top \in Frames
  BY TopFrame DEF IInv
<1>1. ASSUME NEW n \in Names, NEW v \in Values, Assign(n, v) PROVE IInv'
  <2>0. package' \in Packages
    BY <1>0, <1>1 DEF Assign
  <2>1. CASE SlotOf(n) = Absent /\ StoreGlobal(n, v) /\ UNCHANGED frames
    <3>1. PICK p \in Packages : Store(p, n, v)
      BY <1>0, <2>1, DynScopeAssumption DEF StoreGlobal
    <3>2. StoresOK(cells', globals') /\ Grows(cells, cells')
      BY <1>0, <3>1, Storing
    <3>3. FramesOK(frames', cells')
      BY <1>0, <2>1, <3>2, GrowFrames
    <3> QED BY <2>0, <3>2, <3>3 DEF IInv
  <2>2. CASE /\ SlotOf(n) \in Packages
             /\ cells' = [cells EXCEPT ![SlotOf(n)][n] = v]
             /\ UNCHANGED <<frames, globals>>
    <3>1. Holding(n) # {} /\ Innermost(n) \in 1..Len(frames)
      BY <2>2, DynScopeAssumption, InnermostHolds DEF SlotOf
    <3>2. cells[SlotOf(n)][n] # Absent
      BY <1>0, <2>2, <3>1, InnermostHolds DEF FramesOK, FrameOK
    <3>3. Store(SlotOf(n), n, v)
      BY <2>2, <3>2 DEF Store
    <3>4. StoresOK(cells', globals') /\ Grows(cells, cells')
      BY <1>0, <2>2, <3>3, Storing
    <3>5. FramesOK(frames', cells')
      BY <1>0, <2>2, <3>4, GrowFrames
    <3> QED BY <2>0, <3>4, <3>5 DEF IInv
  <2>3. CASE /\ SlotOf(n) \in Values
             /\ frames' = [frames EXCEPT ![Innermost(n)].slots[n] = v]
             /\ UNCHANGED <<globals, cells>>
    <3> DEFINE i == Innermost(n)
               f == [frames[i] EXCEPT !.slots[n] = v]
    <3>1. i \in 1..Len(frames)
      BY <2>3, DynScopeAssumption, InnermostHolds DEF SlotOf
    <3>2. FrameOK(frames[i], cells)
      BY <1>0, <3>1 DEF FramesOK
    <3>3. FrameOK(f, cells)
      BY <3>2, NewSlot, DynScopeAssumption
    <3>4. f.kind = frames[i].kind
      BY <3>2 DEF FrameOK, Frames
    <3>5. frames' = [frames EXCEPT ![i] = f]
      BY <2>3
    <3> HIDE DEF f, i
    <3>6. FramesOK(frames', cells)
      BY <1>0, <3>1, <3>3, <3>4, <3>5, ReplaceFrame
    <3> QED BY <1>0, <2>0, <2>3, <3>6 DEF IInv
  <2> QED BY <1>1, <2>1, <2>2, <2>3 DEF Assign
<1>2. ASSUME NEW p \in Packages, NEW n \in Names, AssignQualified(p, n) PROVE IInv'
  <2>1. PICK v \in Values : Store(p, n, v)
    BY <1>2 DEF AssignQualified
  <2>2. StoresOK(cells', globals') /\ Grows(cells, cells')
    BY <1>0, <2>1, Storing
  <2>3. FramesOK(frames', cells')
    BY <1>0, <1>2, <2>2, GrowFrames DEF AssignQualified
  <2> QED BY <1>0, <1>2, <2>2, <2>3 DEF AssignQualified, IInv
<1>3. ASSUME NEW n \in Names, My(n) PROVE IInv'
  <2>1. PICK v \in Values : frames' = ChangeTop([Top EXCEPT !.slots[n] = v])
    BY <1>3 DEF My
  <2>2. FrameOK([Top EXCEPT !.slots[n] = v], cells)
    BY <1>0, NewSlot, DynScopeAssumption
  <2>3. [Top EXCEPT !.slots[n] = v].kind = Top.kind
    BY <1>0 DEF Frames
  <2>4. FramesOK(frames', cells)
    BY <1>0, <2>1, <2>2, <2>3, ChangeTopOK
  <2> QED BY <1>0, <1>3, <2>4 DEF My, IInv
<1>4. ASSUME NEW n \in Names, Our(n) PROVE IInv'
  <2>1. PICK v \in Values \cup {Absent} : MoveToCell(n, v)
    BY <1>4 DEF Our
  <2>2. /\ StoresOK(cells', globals') /\ Grows(cells, cells')
        /\ cells'[package][n] # Absent
    BY <1>0, <2>1, Moving
  <2>3. FramesOK(frames, cells') /\ FrameOK(Top, cells')
    <3>1. FramesOK(frames, cells')
      BY <1>0, <2>2, GrowFrames
    <3> QED BY <3>1, TopFrame DEF FramesOK
  <2>4. FrameOK([Top EXCEPT !.slots[n] = package], cells')
    BY <1>0, <2>2, <2>3, NewSlot
  <2>5. [Top EXCEPT !.slots[n] = package].kind = Top.kind
    BY <1>0 DEF Frames
  <2>6. FramesOK(frames', cells')
    BY <1>4, <2>3, <2>4, <2>5, ChangeTopOK DEF Our
  <2> QED BY <1>0, <1>4, <2>2, <2>6 DEF Our, IInv
<1>5. ASSUME NEW n \in Names, TakeRef(n) PROVE IInv'
  <2>1. StoresOK(cells', globals') /\ Grows(cells, cells')
    BY <1>0, <1>5, Moving DEF TakeRef
  <2>2. FramesOK(frames', cells')
    BY <1>0, <1>5, <2>1, GrowFrames DEF TakeRef
  <2> QED BY <1>0, <1>5, <2>1, <2>2 DEF TakeRef, IInv
<1>6. ASSUME NEW p \in Packages, SetPackage(p) PROVE IInv'
  BY <1>0, <1>6 DEF SetPackage, IInv
<1>7. ASSUME NEW n \in Names, LocalBegins(n) PROVE IInv'
  <2> DEFINE f == [Top EXCEPT !.saves = Append(@, SaveOf(n))]
  <2>1. SaveOf(n) \in Saves
    BY <1>0, SavedValue
  <2>2. FrameOK(f, cells)
    BY <1>0, <2>1, MoreSaves
  <2>3. f.kind = Top.kind
    BY <1>0 DEF Frames
  <2>4. FrameOK(NewFrame("init", n), cells)
    BY <1>0, NewFrameOK
  <2>5. frames' = Append(ChangeTop(f), NewFrame("init", n))
    BY <1>7 DEF LocalBegins
  <2> HIDE DEF f
  <2>6. FramesOK(ChangeTop(f), cells)
    BY <1>0, <2>2, <2>3, ChangeTopOK
  <2>7. FramesOK(frames', cells)
    BY <2>4, <2>5, <2>6, AppendFrame
  <2> QED BY <1>0, <1>7, <2>7 DEF LocalBegins, IInv
<1>8. CASE LocalEnds
  <2>1. PICK v \in Values : Store(Main, Top.name, v)
    BY <1>8 DEF LocalEnds
  <2>2. Top.name \in Names /\ Top.kind # "file"
    BY <1>0, <1>8 DEF LocalEnds, FrameOK
  <2>3. StoresOK(cells', globals') /\ Grows(cells, cells')
    BY <1>0, <2>1, <2>2, Storing, DynScopeAssumption
  <2>4. FramesOK(frames', cells)
    BY <1>0, <1>8, <2>2, FrontFrames DEF LocalEnds, Top
  <2>5. FramesOK(frames', cells')
    BY <2>3, <2>4, GrowFrames
  <2> QED BY <1>0, <1>8, <2>3, <2>5 DEF LocalEnds, IInv
<1>9. ASSUME NEW n \in Names, LocalListBegins(n) PROVE IInv'
  <2>1. FrameOK(NewFrame("list", n), cells)
    BY <1>0, NewFrameOK
  <2>2. FramesOK(frames', cells)
    BY <1>0, <1>9, <2>1, AppendFrame DEF LocalListBegins
  <2> QED BY <1>0, <1>9, <2>2 DEF LocalListBegins, IInv
<1>10. CASE LocalListEnds
  <2>1. PICK v \in Values : Store(Main, Top.name, v)
    BY <1>10 DEF LocalListEnds
  <2>2. Top.name \in Names /\ Top.kind # "file"
    BY <1>0, <1>10 DEF LocalListEnds, FrameOK
  <2>3. StoresOK(cells', globals') /\ Grows(cells, cells')
    BY <1>0, <2>1, <2>2, Storing, DynScopeAssumption
  <2> DEFINE fs == Front(frames)
             i == Len(frames) - 1
             f == [fs[i] EXCEPT !.saves = Append(@, SaveOf(Top.name))]
  <2>4. FramesOK(fs, cells) /\ Len(fs) = i
    BY <1>0, <2>2, FrontFrames DEF Top
  <2>5. i \in 1..Len(fs)
    <3>1. fs \in Seq(Frames) /\ fs # <<>>
      BY <2>4 DEF FramesOK
    <3> HIDE DEF fs, i
    <3>2. Len(fs) \in Nat /\ Len(fs) # 0
      BY <3>1, EmptySeq, LenProperties
    <3> QED BY <2>4, <3>2
  <2>6. FrameOK(fs[i], cells)
    BY <2>4, <2>5 DEF FramesOK
  <2>7. FrameOK(f, cells)
    BY <1>0, <2>2, <2>6, SavedValue, MoreSaves
  <2>8. f.kind = fs[i].kind
    BY <2>6 DEF FrameOK, Frames
  <2>9. frames' = [fs EXCEPT ![i] = f]
    BY <1>10 DEF LocalListEnds
  <2> HIDE DEF fs, i, f
  <2>10. FramesOK(frames', cells)
    BY <2>4, <2>5, <2>7, <2>8, <2>9, ReplaceFrame
  <2>11. FramesOK(frames', cells')
    BY <2>3, <2>10, GrowFrames
  <2> QED BY <1>0, <1>10, <2>3, <2>11 DEF LocalListEnds, IInv
<1>11. ASSUME NEW k \in {"block", "sub"}, NEW p \in Packages, Enter(k, p) PROVE IInv'
  <2>1. FrameOK(NewFrame(k, Absent), cells)
    BY <1>0, NewFrameOK DEF ScopeKinds
  <2>2. FramesOK(frames', cells)
    BY <1>0, <1>11, <2>1, AppendFrame DEF Enter
  <2> QED BY <1>0, <1>11, <2>2 DEF Enter, IInv
<1>12. CASE Leave
  <2>1. Top.kind # "file" /\ package' \in Packages
    BY <1>0, <1>12 DEF Leave, Frames
  <2>2. FramesOK(frames', cells)
    BY <1>0, <1>12, <2>1, FrontFrames DEF Leave, Top
  <2>3. StoresOK(cells', globals') /\ Grows(cells, cells')
    BY <1>12, Leaving
  <2>4. FramesOK(frames', cells')
    BY <2>2, <2>3, GrowFrames
  <2> QED BY <2>1, <2>3, <2>4 DEF IInv
<1>13. CASE UNCHANGED vars
  BY <1>0, <1>13 DEF vars, IInv
<1>14. ASSUME NEW n \in Names, NEW v \in Values, OurList(n, v) PROVE IInv'
  <2>1. StoresOK(cells', globals')
    BY <1>0, <1>14, DynScopeAssumption DEF OurList, StoresOK, Stores
  <2> QED BY <1>0, <1>14, <2>1 DEF OurList, IInv
<1> QED
  BY <1>1, <1>2, <1>3, <1>4, <1>5, <1>6, <1>7, <1>8, <1>9, <1>10, <1>11, <1>12, <1>13, <1>14
  DEF Next
----------------------------------------------------------------------------
\* IInv is an invariant.
LEMMA Inductive == Spec => []IInv
BY InitIInv, NextIInv, PTL DEF Spec

\* TypeOK is an invariant: every scope, save and store holds what the
\* interpreter's fields can hold, and the file's scope is never left.
THEOREM TypeCorrect == Spec => []TypeOK
<1>1. IInv => TypeOK
  BY DEF IInv, FramesOK, StoresOK, TypeOK
<1> QED BY <1>1, Inductive, PTL

\* No step but a list `our` of one of main's variables puts one in both stores.
LEMMA NextDoubles ==
    ASSUME IInv, [Next]_vars
    PROVE  \/ NoneDoubled
           \/ \E n \in Names, v \in Values :
                /\ OurList(n, v)
                /\ \A p \in Packages, m \in Names :
                     InBoth(p, m)' /\ ~InBoth(p, m) => p = Main /\ m = n
<1>0. StoresOK(cells, globals) /\ package \in Packages
  BY DEF IInv
<1>1. ASSUME UNCHANGED <<cells, globals>> PROVE NoneDoubled
  BY <1>1 DEF NoneDoubled, InBoth
<1>2. ASSUME NEW n \in Names, NEW v \in Values, Assign(n, v) PROVE NoneDoubled
  <2>1. CASE SlotOf(n) = Absent
    <3>1. PICK p \in Packages : Store(p, n, v)
      BY <1>0, <1>2, <2>1, DynScopeAssumption DEF Assign, StoreGlobal
    <3> QED BY <1>0, <3>1, Storing
  <2>2. CASE SlotOf(n) \in Packages
    <3>1. cells' = [cells EXCEPT ![SlotOf(n)][n] = v] /\ UNCHANGED globals
      BY <1>2, <2>2, DynScopeAssumption DEF Assign
    <3>2. Holding(n) # {} /\ Innermost(n) \in 1..Len(frames)
      BY <2>2, DynScopeAssumption, InnermostHolds DEF SlotOf
    <3>3. cells[SlotOf(n)][n] # Absent
      BY <2>2, <3>2, InnermostHolds DEF IInv, FramesOK, FrameOK
    <3>4. Store(SlotOf(n), n, v)
      BY <3>1, <3>3 DEF Store
    <3> QED BY <1>0, <2>2, <3>4, Storing
  <2>3. CASE SlotOf(n) \in Values
    BY <1>1, <1>2, <2>3, DynScopeAssumption DEF Assign
  <2> QED BY <1>2, <2>1, <2>2, <2>3 DEF Assign
<1>3. ASSUME NEW p \in Packages, NEW n \in Names, AssignQualified(p, n) PROVE NoneDoubled
  BY <1>0, <1>3, Storing DEF AssignQualified
<1>4. ASSUME NEW n \in Names, My(n) \/ LocalBegins(n) \/ LocalListBegins(n) PROVE NoneDoubled
  BY <1>1, <1>4 DEF My, LocalBegins, LocalListBegins
<1>5. ASSUME NEW n \in Names, Our(n) \/ TakeRef(n) PROVE NoneDoubled
  <2>1. PICK v \in Values \cup {Absent} : MoveToCell(n, v)
    BY <1>5 DEF Our, TakeRef
  <2> QED BY <1>0, <2>1, Moving
<1>6. ASSUME NEW p \in Packages,
             SetPackage(p) \/ \E k \in {"block", "sub"} : Enter(k, p)
      PROVE  NoneDoubled
  BY <1>1, <1>6 DEF SetPackage, Enter
<1>7. CASE LocalEnds \/ LocalListEnds
  <2>1. PICK v \in Values : Store(Main, Top.name, v)
    BY <1>7 DEF LocalEnds, LocalListEnds
  <2>2. Top.name \in Names
    BY <1>7, TopFrame DEF LocalEnds, LocalListEnds, FrameOK
  <2> QED BY <1>0, <2>1, <2>2, Storing, DynScopeAssumption
<1>8. CASE Leave
  BY <1>8, Leaving
<1>9. ASSUME NEW n \in Names, NEW v \in Values, OurList(n, v),
             NEW p \in Packages, NEW m \in Names, InBoth(p, m)', ~InBoth(p, m)
      PROVE  p = Main /\ m = n
  <2>1. cells' = cells /\ globals' = [globals EXCEPT ![Main][n] = v]
    BY <1>9 DEF OurList
  <2>2. globals \in Stores
    BY <1>0 DEF StoresOK
  <2>3. ~(p = Main /\ m = n) => globals'[p][m] = globals[p][m]
    BY <2>1, <2>2 DEF Stores
  <2> QED BY <1>9, <2>1, <2>3 DEF InBoth
<1>10. CASE UNCHANGED vars
  BY <1>1, <1>10 DEF vars
<1> QED
  BY <1>2, <1>3, <1>4, <1>5, <1>6, <1>7, <1>8, <1>9, <1>10 DEF Next

\* For any packages, names and nesting, a package variable that is in one store
\* stays in one: local, our, reference-taking, assignment and the end of a scope
\* never leave it in its cell and in globals, a list `our` of one of main's does
\* if it has a cell; and every alias of `our` has its cell.
THEOREM StoresAgree == Spec => OneStore
<1>1. IInv => AliasesFound
  BY DEF IInv, FramesOK, FrameOK, AliasesFound
<1>2. IInv /\ [Next]_vars =>
        /\ \A p \in Packages, n \in Names :
             InBoth(p, n)' /\ ~InBoth(p, n) => p = Main /\ \E v \in Values : OurList(n, v)
        /\ AliasesFound'
  <2> SUFFICES ASSUME IInv, [Next]_vars
               PROVE  /\ \A p \in Packages, n \in Names : InBoth(p, n)' /\ ~InBoth(p, n) =>
                           p = Main /\ \E v \in Values : OurList(n, v)
                      /\ AliasesFound'
    OBVIOUS
  <2>1. AliasesFound'
    <3>1. IInv'
      BY NextIInv
    <3> QED BY <3>1 DEF IInv, FramesOK, FrameOK, AliasesFound
  <2>2. ASSUME NEW p \in Packages, NEW n \in Names, InBoth(p, n)', ~InBoth(p, n)
        PROVE  p = Main /\ \E v \in Values : OurList(n, v)
    <3>1. ~NoneDoubled
      BY <2>2 DEF NoneDoubled
    <3>2. PICK m \in Names, v \in Values :
            /\ OurList(m, v)
            /\ \A q \in Packages, o \in Names :
                 InBoth(q, o)' /\ ~InBoth(q, o) => q = Main /\ o = m
      BY <3>1, NextDoubles
    <3> QED BY <2>2, <3>2
  <2> QED BY <2>1, <2>2
<1> QED BY <1>2, Inductive, PTL DEF Spec, OneStore

\* What is assigned to `$n` is what `$n` then reads, in any package and however
\* my, our, local and references are mixed, but for an Ambiguous variable.
THEOREM ReadsWhatItWrote == Spec => ReadYourWrite
<1>1. ASSUME IInv, NEW n \in Names, NEW v \in Values, Assign(n, v), ~Ambiguous(n)
      PROVE  Read(n)' = v
  <2>0. /\ FramesOK(frames, cells) /\ StoresOK(cells, globals) /\ package \in Packages
        /\ v # Absent /\ v \notin Packages /\ package' = package
        /\ Main \in Packages /\ Main # Absent /\ package # Absent
        /\ Absent \notin Packages
    BY <1>1, DynScopeAssumption DEF IInv, Assign
  <2>1. CASE SlotOf(n) = Absent /\ StoreGlobal(n, v) /\ UNCHANGED frames
    <3>0. PICK q \in Packages : q = IF cells[Main][n] # Absent THEN Main ELSE package
      BY <2>0
    <3>1. Store(q, n, v)
      BY <2>1, <3>0 DEF StoreGlobal
    <3>2. ReadQualified(q, n)' = v
      BY <2>0, <3>1, Storing
    <3>3. SlotOf(n)' = Absent
      <4>1. frames' = frames
        BY <2>1
      <4> QED BY <2>1, <4>1 DEF SlotOf, Holding, Innermost
    <3>4. cells \in Stores /\ globals \in Stores
      BY <2>0 DEF StoresOK
    <3>5. OrElse(Holder(cells, n)', OrElse(Holder(globals, n)', package)) = q
      <4>1. CASE cells[Main][n] # Absent
        <5>1. q = Main /\ cells' = [cells EXCEPT ![Main][n] = v]
          BY <3>0, <3>1, <4>1 DEF Store
        <5>2. cells'[Main][n] = v
          BY <2>0, <3>4, <5>1 DEF Stores
        <5>3. package = Main \/ cells'[package][n] = Absent
          <6>1. package = Main \/ cells[package][n] = Absent
            BY <1>1, <2>1, <4>1 DEF Ambiguous
          <6> QED BY <2>0, <3>4, <5>1, <6>1 DEF Stores
        <5> QED BY <2>0, <5>1, <5>2, <5>3 DEF Holder, OrElse
      <4>2. CASE cells[Main][n] = Absent /\ cells[package][n] # Absent
        <5>1. q = package /\ cells' = [cells EXCEPT ![package][n] = v]
          BY <3>0, <3>1, <4>2 DEF Store
        <5>2. cells'[package][n] = v
          BY <2>0, <3>4, <5>1 DEF Stores
        <5> QED BY <2>0, <5>1, <5>2 DEF Holder, OrElse
      <4>3. CASE cells[Main][n] = Absent /\ cells[package][n] = Absent
        <5>1. q = package /\ globals' = [globals EXCEPT ![package][n] = v] /\ cells' = cells
          BY <3>0, <3>1, <4>3 DEF Store
        <5>2. globals'[package][n] = v
          BY <2>0, <3>4, <5>1 DEF Stores
        <5> QED BY <2>0, <4>3, <5>1, <5>2 DEF Holder, OrElse
      <4> QED BY <4>1, <4>2, <4>3
    <3>6. Named(n)' = q
      <4>1. SlotOf(n)' \notin Packages
        BY <2>0, <3>3
      <4> QED BY <2>0, <3>5, <4>1 DEF Named, Holder
    <3>7. Read(n)' = ReadQualified(q, n)'
      <4>1. SlotOf(n)' \notin Values
        BY <3>3, DynScopeAssumption
      <4> QED BY <3>6, <4>1 DEF Read, ReadQualified
    <3> QED BY <3>2, <3>7
  <2>2. CASE /\ SlotOf(n) \in Packages
             /\ cells' = [cells EXCEPT ![SlotOf(n)][n] = v]
             /\ UNCHANGED <<frames, globals>>
    <3>0. PICK q \in Packages : q = SlotOf(n)
      BY <2>2
    <3>1. SlotOf(n)' = q
      <4>1. frames' = frames
        BY <2>2
      <4> QED BY <3>0, <4>1 DEF SlotOf, Holding, Innermost
    <3>2. q \notin Values /\ cells' = [cells EXCEPT ![q][n] = v]
      BY <2>2, <3>0, DynScopeAssumption
    <3>3. cells'[q][n] = v
      BY <2>0, <3>2 DEF StoresOK, Stores
    <3>4. ReadQualified(q, n)' = v
      BY <2>0, <3>3 DEF ReadQualified, OrElse
    <3>5. Named(n)' = q
      BY <3>1, <3>2 DEF Named
    <3>6. Read(n)' = ReadQualified(q, n)'
      BY <3>1, <3>2, <3>5 DEF Read, ReadQualified
    <3> QED BY <3>4, <3>6
  <2>3. CASE /\ SlotOf(n) \in Values
             /\ frames' = [frames EXCEPT ![Innermost(n)].slots[n] = v]
             /\ UNCHANGED <<globals, cells>>
    <3> DEFINE i == Innermost(n)
    <3>1. Holding(n) # {}
      BY <2>3, DynScopeAssumption DEF SlotOf
    <3>2. i \in 1..Len(frames) /\ i \in Holding(n)
      BY <1>1, <3>1, InnermostHolds
    <3>3. frames \in Seq(Frames) /\ \A j \in 1..Len(frames) : frames[j] \in Frames
      BY <2>0 DEF FramesOK, FrameOK
    <3>4. Len(frames') = Len(frames)
      BY <2>3, <3>2, <3>3
    <3>5. \A j \in 1..Len(frames) :
            frames'[j].slots[n] = IF j = i THEN v ELSE frames[j].slots[n]
      <4> HIDE DEF i
      <4>1. frames' = [frames EXCEPT ![i] = [frames[i] EXCEPT !.slots[n] = v]]
        BY <2>3 DEF i
      <4>2. \A j \in 1..Len(frames) :
              frames'[j] = IF j = i THEN [frames[i] EXCEPT !.slots[n] = v] ELSE frames[j]
        BY <3>2, <3>3, <4>1
      <4>3. [frames[i] EXCEPT !.slots[n] = v].slots[n] = v
        BY <3>2, <3>3 DEF Frames
      <4> QED BY <4>2, <4>3
    <3>6. Holding(n)' = Holding(n)
      BY <2>0, <3>2, <3>4, <3>5 DEF Holding
    <3>7. Innermost(n)' = i
      BY <3>6 DEF Innermost
    <3>8. SlotOf(n)' = v
      BY <3>1, <3>2, <3>5, <3>6, <3>7 DEF SlotOf
    <3> QED BY <3>8 DEF Read
  <2> QED BY <1>1, <2>1, <2>2, <2>3 DEF Assign
<1>2. IInv /\ [Next]_vars
      => [\A n \in Names, v \in Values :
            Assign(n, v) /\ ~Ambiguous(n) => Read(n)' = v]_vars
  BY <1>1
<1> QED BY <1>2, Inductive, PTL DEF Spec, ReadYourWrite
----------------------------------------------------------------------------
(***************************************************************************)
(* The refinement.  In package main, if no localized name is also declared *)
(* with my, every step is one of Localization or changes nothing there.    *)
(* A step that evaluates the new value of a local has a frame that is no   *)
(* scope on top; LocalOK says that it is directly on the scope of its      *)
(* local, so that the saves go where the abstract specification has them.  *)
(***************************************************************************)
ScopesOf(fs) == {j \in 1..Len(fs) : fs[j].kind \in ScopeKinds}
Entry(saves) == [n \in Saved(saves) |-> FirstSave(saves, n)]
MainValues == [n \in Names |-> ReadQualified(Main, n)]

LocalFrame(f) ==
    /\ f.kind = "list" => f.name \in ListNames
    /\ \A n \in Names : f.slots[n] \in Values => n \in MyNames
LocalOK(fs) ==
    \A i \in 1..Len(fs) :
        /\ fs[i].kind \notin ScopeKinds => i - 1 \in ScopesOf(fs)
        /\ LocalFrame(fs[i])

\* Scopes with the same saves are the same to the abstract specification.
LEMMA SameUndo ==
    ASSUME NEW fs, NEW gs, ScopesOf(fs) = ScopesOf(gs),
           \A i \in ScopesOf(fs) : fs[i].saves = gs[i].saves
    PROVE  UndoOf(fs) = UndoOf(gs)
BY DEF UndoOf, ScopesOf

\* What the abstract specification sees of the scopes, by the name Entry.
LEMMA UndoShape ==
    ASSUME NEW fs
    PROVE  UndoOf(fs) = [i \in ScopesOf(fs) |-> Entry(fs[i].saves)]
BY DEF UndoOf, ScopesOf, Entry

\* The scope that a local is of.
LEMMA Deepest ==
    ASSUME NEW fs \in Seq(Frames), NEW d \in ScopesOf(fs), \A e \in ScopesOf(fs) : e <= d
    PROVE  (CHOOSE x \in DOMAIN UndoOf(fs) : \A e \in DOMAIN UndoOf(fs) : e <= x) = d
<1>1. DOMAIN UndoOf(fs) = ScopesOf(fs)
  BY UndoShape
<1>2. \A x \in ScopesOf(fs) : x \in Nat
  BY DEF ScopesOf
<1>3. \A x \in ScopesOf(fs) : (\A e \in ScopesOf(fs) : e <= x) => x = d
  BY <1>2
<1> HIDE DEF ScopesOf
<1> QED BY <1>1, <1>3

\* Only the first save of a name counts.
LEMMA FirstIs ==
    ASSUME NEW saves \in Seq(Saves), NEW n, NEW k \in 1..Len(saves), saves[k].name = n,
           \A j \in 1..Len(saves) : saves[j].name = n => k <= j
    PROVE  FirstSave(saves, n) = saves[k].val
<1> DEFINE S == {i \in 1..Len(saves) : saves[i].name = n}
<1>1. k \in S /\ (\A j \in S : k <= j) /\ \A i \in S : i \in Nat
  OBVIOUS
<1>2. \A i \in S : (\A j \in S : i <= j) => i = k
  BY <1>1
<1> HIDE DEF S
<1>3. (CHOOSE i \in S : \A j \in S : i <= j) = k
  BY <1>1, <1>2
<1> QED BY <1>3 DEF FirstSave, S

\* A save counts if it is the first of its name.
LEMMA AppendEntry ==
    ASSUME NEW saves \in Seq(Saves), NEW s \in Saves
    PROVE  Entry(Append(saves, s)) =
             [y \in DOMAIN Entry(saves) \cup {s.name} |->
                IF y \in DOMAIN Entry(saves) THEN Entry(saves)[y] ELSE s.val]
<1> DEFINE t == Append(saves, s)
           m == Len(saves)
<1>1. /\ t \in Seq(Saves) /\ Len(t) = m + 1 /\ m \in Nat /\ t[m + 1] = s
      /\ \A i \in 1..m : t[i] = saves[i]
  BY AppendToSeq
<1> HIDE DEF t, m
<1>2. 1..(m + 1) = 1..m \cup {m + 1}
  BY <1>1
<1>3. Saved(t) = Saved(saves) \cup {s.name}
  BY <1>1, <1>2 DEF Saved, m
<1>4. ASSUME NEW y \in Saved(saves)
      PROVE  FirstSave(t, y) = FirstSave(saves, y)
  <2> DEFINE S == {i \in 1..m : saves[i].name = y}
  <2>1. S \subseteq 1..m /\ S # {}
    BY DEF Saved, m
  <2>2. PICK k \in S : \A j \in S : k <= j
    <3> HIDE DEF S
    <3> QED BY <1>1, <2>1, Extremes
  <2>3. k \in 1..m /\ k \in 1..(m + 1) /\ k <= m + 1 /\ saves[k].name = y
    BY <1>1, <2>2
  <2>4. FirstSave(saves, y) = saves[k].val
    BY <2>2, <2>3, FirstIs DEF m
  <2>5. \A j \in 1..(m + 1) : t[j].name = y => k <= j
    BY <1>1, <1>2, <2>2, <2>3
  <2>6. FirstSave(t, y) = t[k].val
    BY <1>1, <2>3, <2>5, FirstIs, SMTT(30)
  <2> QED BY <1>1, <2>3, <2>4, <2>6
<1>5. ASSUME s.name \notin Saved(saves)
      PROVE  FirstSave(t, s.name) = s.val
  <2>1. \A j \in 1..m : saves[j].name # s.name
    BY <1>5 DEF Saved, m
  <2>2. \A j \in 1..(m + 1) : t[j].name = s.name => m + 1 <= j
    BY <1>1, <1>2, <2>1
  <2>3. m + 1 \in 1..(m + 1)
    BY <1>1
  <2> QED BY <1>1, <2>2, <2>3, FirstIs
<1>6. DOMAIN Entry(saves) = Saved(saves)
  BY DEF Entry
<1>7. \A y \in Saved(t) : FirstSave(t, y) =
         IF y \in Saved(saves) THEN FirstSave(saves, y) ELSE s.val
  BY <1>3, <1>4, <1>5
<1>8. Entry(t) = [y \in Saved(saves) \cup {s.name} |->
                    IF y \in Saved(saves) THEN FirstSave(saves, y) ELSE s.val]
  BY <1>3, <1>7 DEF Entry
<1> QED BY <1>6, <1>8 DEF Entry, t

\* The scopes after a push, a change and a pop.
LEMMA AppendLocal ==
    ASSUME NEW fs \in Seq(Frames), NEW f \in Frames, LocalOK(fs), LocalFrame(f), fs # <<>>,
           f.kind \notin ScopeKinds => Len(fs) \in ScopesOf(fs)
    PROVE  /\ LocalOK(Append(fs, f))
           /\ ScopesOf(Append(fs, f)) =
                 IF f.kind \in ScopeKinds THEN ScopesOf(fs) \cup {Len(fs) + 1} ELSE ScopesOf(fs)
           /\ \A i \in ScopesOf(fs) : Append(fs, f)[i] = fs[i]
           /\ Append(fs, f)[Len(fs) + 1] = f
<1> DEFINE t == Append(fs, f)
           m == Len(fs)
<1>1. /\ Len(t) = m + 1 /\ m \in Nat /\ t[m + 1] = f
      /\ \A i \in 1..m : t[i] = fs[i]
  BY AppendToSeq
<1> HIDE DEF t, m
<1>2. 1..(m + 1) = 1..m \cup {m + 1} /\ m + 1 - 1 = m
  BY <1>1
<1>3. ScopesOf(t) = IF f.kind \in ScopeKinds THEN ScopesOf(fs) \cup {m + 1} ELSE ScopesOf(fs)
  BY <1>1, <1>2 DEF ScopesOf, m
<1>4. LocalOK(t)
  <2>1. \A i \in 1..m : /\ t[i].kind \notin ScopeKinds => i - 1 \in ScopesOf(t)
                        /\ LocalFrame(t[i])
    BY <1>1, <1>3, SMTT(30) DEF LocalOK, m
  <2>2. /\ t[m + 1].kind \notin ScopeKinds => m + 1 - 1 \in ScopesOf(t)
        /\ LocalFrame(t[m + 1])
    BY <1>1, <1>2, <1>3 DEF m
  <2> QED BY <1>1, <1>2, <2>1, <2>2 DEF LocalOK
<1>5. \A i \in ScopesOf(fs) : t[i] = fs[i]
  BY <1>1 DEF ScopesOf, m
<1> QED BY <1>1, <1>3, <1>4, <1>5 DEF t, m

\* Replacing a frame by one of its kind keeps LocalOK and the set of scopes;
LEMMA ReplaceLocal ==
    ASSUME NEW fs \in Seq(Frames), NEW i \in 1..Len(fs), NEW f \in Frames, LocalOK(fs),
           LocalFrame(f), f.kind = fs[i].kind
    PROVE  /\ LocalOK([fs EXCEPT ![i] = f])
           /\ Len([fs EXCEPT ![i] = f]) = Len(fs)
           /\ ScopesOf([fs EXCEPT ![i] = f]) = ScopesOf(fs)
           /\ \A j \in 1..Len(fs) : [fs EXCEPT ![i] = f][j] = IF j = i THEN f ELSE fs[j]
<1> DEFINE t == [fs EXCEPT ![i] = f]
<1>1. Len(t) = Len(fs) /\ \A j \in 1..Len(fs) : t[j] = IF j = i THEN f ELSE fs[j]
  OBVIOUS
<1> HIDE DEF t
<1>2. ScopesOf(t) = ScopesOf(fs)
  BY <1>1 DEF ScopesOf
<1>3. LocalOK(t)
  BY <1>1, <1>2 DEF LocalOK
<1> QED BY <1>1, <1>2, <1>3 DEF t

\* so does removing the last frame, which is then no scope any more.
LEMMA FrontLocal ==
    ASSUME NEW fs \in Seq(Frames), LocalOK(fs), fs # <<>>
    PROVE  /\ LocalOK(Front(fs))
           /\ ScopesOf(Front(fs)) = ScopesOf(fs) \ {Len(fs)}
           /\ \A i \in ScopesOf(Front(fs)) : Front(fs)[i] = fs[i]
<1> DEFINE t == Front(fs)
           m == Len(fs)
<1>1. /\ Len(t) = m - 1 /\ m \in Nat /\ m >= 1
      /\ \A i \in 1..m - 1 : t[i] = fs[i]
  BY FrontOfSeq, LastOfSeq
<1> HIDE DEF t, m
<1>2. 1..(m - 1) = 1..m \ {m}
  BY <1>1
<1>3. ScopesOf(t) = ScopesOf(fs) \ {m}
  BY <1>1, <1>2 DEF ScopesOf, m
<1>4. \A i \in ScopesOf(t) : t[i] = fs[i]
  BY <1>1 DEF ScopesOf
<1>5. \A i \in 1..m - 1 : i - 1 # m
  BY <1>1
<1>6. LocalOK(t)
  <2>1. \A i \in 1..m - 1 : /\ fs[i].kind \notin ScopeKinds => i - 1 \in ScopesOf(fs)
                            /\ LocalFrame(fs[i])
    BY <1>2 DEF LocalOK, m
  <2> QED BY <1>1, <1>3, <1>5, <2>1 DEF LocalOK
<1> QED BY <1>3, <1>4, <1>6 DEF t, m

\* The innermost frame is a scope whenever a statement is executed.
LEMMA TopScope ==
    ASSUME IInv, AtStmt
    PROVE  Len(frames) \in ScopesOf(frames)
BY TopFrame DEF AtStmt, ScopesOf

\* A new frame has saved nothing.
LEMMA NewFrameLocal ==
    ASSUME NEW k, NEW n, k = "list" => n \in ListNames
    PROVE  /\ LocalFrame(NewFrame(k, n))
           /\ NewFrame(k, n).kind = k /\ NewFrame(k, n).saves = <<>>
BY DynScopeAssumption DEF LocalFrame, NewFrame

\* Every step keeps LocalOK.
LEMMA NextLocal ==
    ASSUME IInv, LocalOK(frames), [Next]_vars
    PROVE  LocalOK(frames')
<1>0. /\ frames \in Seq(Frames) /\ frames # <<>> /\ Top \in Frames /\ LocalFrame(Top)
      /\ Top = frames[Len(frames)] /\ Len(frames) \in 1..Len(frames)
  BY TopFrame DEF LocalOK, IInv, FramesOK
<1>1. ASSUME UNCHANGED frames PROVE LocalOK(frames')
  BY <1>1
<1>2. ASSUME NEW f \in Frames, LocalFrame(f), f.kind = Top.kind, frames' = ChangeTop(f)
      PROVE  LocalOK(frames')
  BY <1>0, <1>2, ReplaceLocal DEF ChangeTop
<1>3. ASSUME frames' = Front(frames) PROVE LocalOK(frames')
  BY <1>0, <1>3, FrontLocal
<1>4. ASSUME NEW n \in Names, NEW v \in Values, Assign(n, v) PROVE LocalOK(frames')
  <2>1. CASE UNCHANGED frames
    BY <1>1, <2>1
  <2>2. CASE /\ SlotOf(n) \in Values
             /\ frames' = [frames EXCEPT ![Innermost(n)].slots[n] = v]
    <3> DEFINE i == Innermost(n)
               f == [frames[i] EXCEPT !.slots[n] = v]
    <3>1. i \in 1..Len(frames) /\ frames[i].slots[n] \in Values
      BY <2>2, DynScopeAssumption, InnermostHolds DEF SlotOf
    <3>2. frames[i] \in Frames /\ LocalFrame(frames[i])
      BY <1>0, <3>1 DEF LocalOK
    <3>3. /\ f \in Frames /\ f.kind = frames[i].kind /\ f.name = frames[i].name
          /\ \A m \in Names : f.slots[m] = IF m = n THEN v ELSE frames[i].slots[m]
      <4> HIDE DEF i
      <4>1. f = [frames[i] EXCEPT !.slots = [@ EXCEPT ![n] = v]]
        OBVIOUS
      <4>2. frames[i].slots \in [Names -> Slots] /\ v \in Slots
        BY <3>2 DEF Frames, Slots
      <4>3. [frames[i].slots EXCEPT ![n] = v] \in [Names -> Slots]
        BY <4>2
      <4> QED BY <3>2, <4>1, <4>2, <4>3 DEF Frames
    <3>4. n \in MyNames
      BY <3>1, <3>2 DEF LocalFrame
    <3>5. LocalFrame(f)
      <4> HIDE DEF f, i
      <4> QED BY <3>2, <3>3, <3>4 DEF LocalFrame
    <3>6. frames' = [frames EXCEPT ![i] = f]
      BY <2>2
    <3> HIDE DEF f, i
    <3> QED BY <1>0, <3>1, <3>3, <3>5, <3>6, ReplaceLocal
  <2> QED BY <1>4, <2>1, <2>2 DEF Assign
<1>5. ASSUME NEW n \in Names, NEW v \in Values \cup Packages, v \in Values => n \in MyNames,
             frames' = ChangeTop([Top EXCEPT !.slots[n] = v])
      PROVE  LocalOK(frames')
  <2> DEFINE f == [Top EXCEPT !.slots[n] = v]
  <2>1. /\ f \in Frames /\ f.kind = Top.kind /\ f.name = Top.name
        /\ \A m \in Names : f.slots[m] = IF m = n THEN v ELSE Top.slots[m]
    BY <1>0 DEF Frames, Slots
  <2> HIDE DEF f
  <2>2. LocalFrame(f)
    BY <1>0, <1>5, <2>1 DEF LocalFrame
  <2> QED BY <1>2, <1>5, <2>1, <2>2 DEF f
<1>6. ASSUME NEW n \in Names, My(n) PROVE LocalOK(frames')
  BY <1>5, <1>6 DEF My
<1>7. ASSUME NEW n \in Names, Our(n) PROVE LocalOK(frames')
  BY <1>5, <1>7, DynScopeAssumption DEF Our, IInv
<1>8. ASSUME NEW n \in Names, LocalBegins(n) PROVE LocalOK(frames')
  <2> DEFINE f == [Top EXCEPT !.saves = Append(@, SaveOf(n))]
             g == NewFrame("init", n)
             fs == ChangeTop(f)
  <2>1. FrameOK(f, cells) /\ FrameOK(g, cells)
    BY <1>0, SavedValue, MoreSaves, TopFrame, NewFrameOK DEF IInv
  <2>2. f \in Frames /\ g \in Frames /\ f.kind = Top.kind /\ f.name = Top.name /\ f.slots = Top.slots
    BY <1>0, <2>1 DEF FrameOK, Frames
  <2>3. LocalFrame(g) /\ g.kind = "init"
    BY NewFrameLocal
  <2>4. frames' = Append(fs, g) /\ AtStmt
    BY <1>8 DEF LocalBegins
  <2> HIDE DEF f, g
  <2>5. LocalFrame(f)
    BY <1>0, <2>2 DEF LocalFrame
  <2>6. LocalOK(fs) /\ Len(fs) = Len(frames) /\ ScopesOf(fs) = ScopesOf(frames)
    BY <1>0, <2>2, <2>5, ReplaceLocal DEF ChangeTop
  <2>7. fs \in Seq(Frames) /\ fs # <<>>
    BY <1>0, <2>2 DEF ChangeTop
  <2>8. Len(fs) \in ScopesOf(fs)
    BY <2>4, <2>6, TopScope
  <2> HIDE DEF fs
  <2> QED BY <2>2, <2>3, <2>4, <2>6, <2>7, <2>8, AppendLocal
<1>9. ASSUME NEW n \in Names, LocalListBegins(n) PROVE LocalOK(frames')
  <2> DEFINE g == NewFrame("list", n)
  <2>1. g \in Frames /\ LocalFrame(g)
    BY <1>9, NewFrameOK, NewFrameLocal DEF LocalListBegins, IInv, FrameOK
  <2>2. frames' = Append(frames, g) /\ Len(frames) \in ScopesOf(frames)
    BY <1>9, TopScope DEF LocalListBegins
  <2> HIDE DEF g
  <2> QED BY <1>0, <2>1, <2>2, AppendLocal
<1>10. CASE LocalListEnds
  <2> DEFINE fs == Front(frames)
             i == Len(frames) - 1
             f == [fs[i] EXCEPT !.saves = Append(@, SaveOf(Top.name))]
  <2>1. Top.name \in Names /\ Top.kind # "file"
    BY <1>10, TopFrame DEF LocalListEnds, FrameOK
  <2>2. FramesOK(fs, cells) /\ Len(fs) = i /\ LocalOK(fs)
    BY <1>0, <2>1, FrontFrames, FrontLocal DEF Top, IInv
  <2>3. i \in 1..Len(fs) /\ fs \in Seq(Frames)
    <3>1. fs \in Seq(Frames) /\ fs # <<>>
      BY <2>2 DEF FramesOK
    <3> HIDE DEF fs, i
    <3>2. Len(fs) \in Nat /\ Len(fs) # 0
      BY <3>1, EmptySeq, LenProperties
    <3> QED BY <2>2, <3>1, <3>2
  <2>4. FrameOK(fs[i], cells) /\ LocalFrame(fs[i])
    BY <2>2, <2>3 DEF FramesOK, LocalOK
  <2>5. FrameOK(f, cells)
    BY <2>1, <2>4, SavedValue, MoreSaves DEF IInv
  <2>6. f \in Frames /\ f.kind = fs[i].kind /\ f.name = fs[i].name /\ f.slots = fs[i].slots
    BY <2>4, <2>5 DEF FrameOK, Frames
  <2>7. frames' = [fs EXCEPT ![i] = f]
    BY <1>10 DEF LocalListEnds
  <2> HIDE DEF fs, i, f
  <2>8. LocalFrame(f)
    BY <2>4, <2>6 DEF LocalFrame
  <2> QED BY <2>2, <2>3, <2>6, <2>7, <2>8, ReplaceLocal
<1>11. ASSUME NEW k \in {"block", "sub"}, NEW p \in Packages, Enter(k, p) PROVE LocalOK(frames')
  <2> DEFINE g == NewFrame(k, Absent)
  <2>1. g \in Frames /\ LocalFrame(g) /\ g.kind \in ScopeKinds
    BY <1>11, NewFrameOK, NewFrameLocal DEF IInv, FrameOK, ScopeKinds
  <2>2. frames' = Append(frames, g)
    BY <1>11 DEF Enter
  <2> HIDE DEF g
  <2> QED BY <1>0, <2>1, <2>2, AppendLocal
<1>12. CASE LocalEnds \/ Leave
  BY <1>3, <1>12 DEF LocalEnds, Leave
<1>13. ASSUME NEW p \in Packages, NEW n \in Names, AssignQualified(p, n)
       PROVE  LocalOK(frames')
  BY <1>1, <1>13 DEF AssignQualified
<1>14. ASSUME NEW p \in Packages, SetPackage(p) PROVE LocalOK(frames')
  BY <1>1, <1>14 DEF SetPackage
<1>15. ASSUME NEW n \in Names, TakeRef(n) PROVE LocalOK(frames')
  BY <1>1, <1>15 DEF TakeRef
<1>16. CASE UNCHANGED vars
  BY <1>1, <1>16 DEF vars
<1>17. ASSUME NEW n \in Names, NEW v \in Values, OurList(n, v) PROVE LocalOK(frames')
  BY <1>1, <1>17 DEF OurList
<1> QED
  BY <1>4, <1>6, <1>7, <1>8, <1>9, <1>10, <1>11, <1>12, <1>13, <1>14, <1>15, <1>16, <1>17
  DEF Next

MainOnly == Packages = {Main} /\ MyNames \cap (LocalNames \cup ListNames) = {}

\* A store into main's variable changes what that variable is, and no other,
LEMMA StoreMain ==
    ASSUME StoresOK(cells, globals), NEW n \in Names, NEW v \in Values, Store(Main, n, v)
    PROVE  MainValues' = [MainValues EXCEPT ![n] = v]
<1>1. v # Absent /\ Main \in Packages /\ cells \in Stores /\ globals \in Stores
  BY DynScopeAssumption DEF StoresOK
<1>2. \A m \in Names : m # n => /\ cells'[Main][m] = cells[Main][m]
                                /\ globals'[Main][m] = globals[Main][m]
  BY <1>1 DEF Store, Stores
<1>3. ReadQualified(Main, n)' = v
  BY <1>1, Storing
<1>4. \A m \in Names : ReadQualified(Main, m)' = IF m = n THEN v ELSE ReadQualified(Main, m)
  BY <1>2, <1>3 DEF ReadQualified
<1> QED BY <1>4 DEF MainValues

\* and moving it to a cell does not change it.
LEMMA MoveMain ==
    ASSUME StoresOK(cells, globals), package = Main, NEW n \in Names,
           NEW v \in Values \cup {Absent}, MoveToCell(n, v)
    PROVE  \/ v = Absent /\ MainValues' = MainValues
           \/ v \in Values /\ MainValues' = [MainValues EXCEPT ![n] = v]
<1> DEFINE w == OrElse(v, OrElse(cells[Main][n], OrElse(globals[Main][n], Undef)))
<1>1. /\ Main \in Packages /\ cells \in Stores /\ globals \in Stores
      /\ Undef # Absent /\ Absent \notin Values
  BY DynScopeAssumption DEF StoresOK
<1>2. w # Absent /\ w = IF v = Absent THEN ReadQualified(Main, n) ELSE v
  BY <1>1 DEF OrElse, ReadQualified
<1>3. cells' = [cells EXCEPT ![Main][n] = w]
  BY <1>1 DEF MoveToCell, Stores
<1> HIDE DEF w
<1>4. cells'[Main][n] = w
  BY <1>1, <1>3 DEF Stores
<1>5. \A m \in Names : m # n => /\ cells'[Main][m] = cells[Main][m]
                                /\ globals'[Main][m] = globals[Main][m]
  BY <1>1, <1>3 DEF MoveToCell, Stores
<1>6. ReadQualified(Main, n)' = w
  BY <1>2, <1>4 DEF ReadQualified, OrElse
<1>7. \A m \in Names : ReadQualified(Main, m)' = IF m = n THEN w ELSE ReadQualified(Main, m)
  BY <1>5, <1>6 DEF ReadQualified
<1> QED BY <1>1, <1>2, <1>7 DEF MainValues

\* What `$n` reads in main, of a name that is not declared with my.
LEMMA ReadMain ==
    ASSUME IInv, LocalOK(frames), MainOnly, NEW n \in LocalNames \cup ListNames
    PROVE  n \in Names /\ SaveOf(n) \in Saves /\ SaveOf(n).name = n /\ SaveOf(n).val = MainValues[n]
<1>0. n \in Names /\ n \notin MyNames /\ package = Main
  BY DEF MainOnly, Names, IInv
<1>1. SlotOf(n) \notin Values
  <2>1. CASE Holding(n) = {}
    BY <2>1, DynScopeAssumption DEF SlotOf
  <2>2. CASE Holding(n) # {}
    BY <1>0, <2>2, InnermostHolds DEF LocalOK, LocalFrame
  <2> QED BY <2>1, <2>2
<1>2. Named(n) = Main
  <2>1. SlotOf(n) \in Packages => SlotOf(n) = Main
    BY DEF MainOnly
  <2> QED BY <1>0, <2>1 DEF Named, Holder, OrElse
<1>3. SaveOf(n) \in Saves
  BY <1>0, SavedValue DEF IInv
<1> QED BY <1>0, <1>1, <1>2, <1>3 DEF SaveOf, Read, MainValues

\* What the steps of Localization do to the open scopes u.
AddSave(u, d, x) ==
    [u EXCEPT ![d] = [y \in DOMAIN u[d] \cup {x} |->
                        IF y \in DOMAIN u[d] THEN u[d][y] ELSE MainValues[x]]]
AddScope(u, d) == [e \in DOMAIN u \cup {d} |-> IF e = d THEN Entry(<<>>) ELSE u[e]]
DropScope(u, d) == [e \in DOMAIN u \ {d} |-> u[e]]

\* One more save in a scope, as the abstract specification sees it.
LEMMA SaveIsSaved ==
    ASSUME NEW fs \in Seq(Frames), NEW gs, NEW d \in ScopesOf(fs),
           \A e \in ScopesOf(fs) : e <= d,
           NEW s \in Saves, s.val = MainValues[s.name],
           ScopesOf(gs) = ScopesOf(fs),
           \A i \in ScopesOf(fs) :
               gs[i].saves = IF i = d THEN Append(fs[i].saves, s) ELSE fs[i].saves
    PROVE  UndoOf(gs) = AddSave(UndoOf(fs), d, s.name)
<1> DEFINE saves == fs[d].saves
<1>1. saves \in Seq(Saves)
  <2>1. d \in 1..Len(fs)
    BY DEF ScopesOf
  <2>2. fs[d] \in Frames
    BY <2>1
  <2> QED BY <2>2 DEF Frames
<1>2. Entry(Append(saves, s)) =
             [y \in DOMAIN Entry(saves) \cup {s.name} |->
                IF y \in DOMAIN Entry(saves) THEN Entry(saves)[y]
                ELSE MainValues[s.name]]
  <2> HIDE DEF saves
  <2>1. Entry(Append(saves, s)) =
             [y \in DOMAIN Entry(saves) \cup {s.name} |->
                IF y \in DOMAIN Entry(saves) THEN Entry(saves)[y] ELSE s.val]
    BY <1>1, AppendEntry
  <2> QED BY <2>1
<1>3. /\ UndoOf(fs) = [i \in ScopesOf(fs) |-> Entry(fs[i].saves)]
      /\ UndoOf(gs) = [i \in ScopesOf(fs) |-> Entry(gs[i].saves)]
  BY UndoShape
<1>4. UndoOf(fs)[d] = Entry(saves)
  BY <1>3
<1>5. \A i \in ScopesOf(fs) : Entry(gs[i].saves) =
         IF i = d THEN Entry(Append(saves, s)) ELSE Entry(fs[i].saves)
  <2> TAKE i \in ScopesOf(fs)
  <2>1. CASE i = d
    <3>1. gs[i].saves = Append(fs[d].saves, s)
      BY <2>1
    <3> QED BY <2>1, <3>1
  <2>2. CASE i # d
    <3>1. gs[i].saves = fs[i].saves
      BY <2>2
    <3> QED BY <2>2, <3>1
  <2> QED BY <2>1, <2>2
<1> HIDE DEF saves
<1> DEFINE before == UndoOf(fs)[d]
           new == [y \in DOMAIN before \cup {s.name} |->
                     IF y \in DOMAIN before THEN before[y] ELSE MainValues[s.name]]
<1>6. Entry(Append(saves, s)) = new
  BY <1>2, <1>4
<1>7. UndoOf(fs) = [i \in ScopesOf(fs) |-> UndoOf(fs)[i]]
  <2>1. \A i \in ScopesOf(fs) : UndoOf(fs)[i] = Entry(fs[i].saves)
    BY <1>3
  <2> QED BY <1>3, <2>1
<1> HIDE DEF new
<1>8. UndoOf(gs) = [i \in ScopesOf(fs) |-> IF i = d THEN new ELSE UndoOf(fs)[i]]
  <2>1. \A i \in ScopesOf(fs) : Entry(gs[i].saves) = IF i = d THEN new ELSE UndoOf(fs)[i]
    BY <1>3, <1>5, <1>6
  <2> QED BY <1>3, <2>1
<1>9. UndoOf(gs) = [UndoOf(fs) EXCEPT ![d] = new]
  BY <1>7, <1>8
<1> QED BY <1>9 DEF new, AddSave

\* Scopes that stay as they are save nothing.
LEMMA SameScopes ==
    ASSUME NEW fs, NEW gs, ScopesOf(fs) = ScopesOf(gs), \A i \in ScopesOf(fs) : gs[i] = fs[i]
    PROVE  UndoOf(gs) = UndoOf(fs)
BY SameUndo

\* A scope entered localizes nothing yet,
LEMMA NothingSaved == Entry(<<>>) = Promise!Nothing
BY DEF Entry, Saved, Promise!Nothing

\* The scope entered is added to what is to be undone,
LEMMA EnterUndo ==
    ASSUME NEW fs, NEW gs, NEW d, d \notin ScopesOf(fs), ScopesOf(gs) = ScopesOf(fs) \cup {d},
           \A i \in ScopesOf(fs) : gs[i] = fs[i], gs[d].saves = <<>>
    PROVE  UndoOf(gs) = AddScope(UndoOf(fs), d)
<1>1. /\ UndoOf(fs) = [i \in ScopesOf(fs) |-> Entry(fs[i].saves)]
      /\ UndoOf(gs) = [i \in ScopesOf(gs) |-> Entry(gs[i].saves)]
  BY UndoShape
<1> QED BY <1>1 DEF AddScope

\* and one that is left is forgotten.
LEMMA LeaveUndo ==
    ASSUME NEW fs, NEW gs, NEW d, ScopesOf(gs) = ScopesOf(fs) \ {d},
           \A i \in ScopesOf(gs) : gs[i] = fs[i]
    PROVE  UndoOf(gs) = DropScope(UndoOf(fs), d)
<1>1. /\ UndoOf(fs) = [i \in ScopesOf(fs) |-> Entry(fs[i].saves)]
      /\ UndoOf(gs) = [i \in ScopesOf(gs) |-> Entry(gs[i].saves)]
  BY UndoShape
<1> QED BY <1>1 DEF DropScope
\* What the steps of Localization look like from here: an assignment,
LEMMA IsAssign ==
    ASSUME NEW n \in Names, NEW v \in Values,
           MainValues' = [MainValues EXCEPT ![n] = v], UndoOf(frames') = UndoOf(frames)
    PROVE  Promise!Next
BY DEF Promise!Next, Promise!Assign, MainValues

\* a scope entered,
LEMMA IsEnter ==
    ASSUME NEW d \in 1..MaxFrames, \A e \in DOMAIN UndoOf(frames) : e < d,
           MainValues' = MainValues,
           UndoOf(frames') = AddScope(UndoOf(frames), d)
    PROVE  Promise!Next
<1>1. Entry(<<>>) = Promise!Nothing
  BY NothingSaved
<1> QED BY <1>1 DEF AddScope, Promise!Next, Promise!Enter, Promise!Open, MainValues

\* the first or a later save of a name in the innermost scope, without
LEMMA IsSave ==
    ASSUME IInv, NEW n \in Names, NEW d \in ScopesOf(frames),
           \A e \in ScopesOf(frames) : e <= d,
           MainValues' = MainValues,
           UndoOf(frames') = AddSave(UndoOf(frames), d, n)
    PROVE  Promise!Next
<1>1. Promise!Innermost = d
  BY TopFrame, Deepest DEF Promise!Innermost, Promise!Open
<1>2. Promise!Save(n)
  BY <1>1 DEF AddSave, Promise!Save, Promise!With, Promise!Localized, MainValues
<1> QED BY <1>2 DEF Promise!Next

\* and with an assignment to it,
LEMMA IsLocal ==
    ASSUME IInv, NEW n \in Names, NEW d \in ScopesOf(frames),
           \A e \in ScopesOf(frames) : e <= d,
           NEW v \in Values, MainValues' = [MainValues EXCEPT ![n] = v],
           UndoOf(frames') = AddSave(UndoOf(frames), d, n)
    PROVE  Promise!Next
<1>1. Promise!Innermost = d
  BY TopFrame, Deepest DEF Promise!Innermost, Promise!Open
<1>2. Promise!Local(n)
  BY <1>1 DEF AddSave, Promise!Local, Promise!With, Promise!Localized, MainValues
<1> QED BY <1>2 DEF Promise!Next

\* and a scope left.
LEMMA IsLeave ==
    ASSUME IInv, NEW d \in ScopesOf(frames), \A e \in ScopesOf(frames) : e <= d,
           1 \in ScopesOf(frames), 1 < d,
           UndoOf(frames') = DropScope(UndoOf(frames), d),
           \A n \in Names : ReadQualified(Main, n)' = IF n \in Saved(frames[d].saves)
                                                    THEN FirstSave(frames[d].saves, n)
                                                    ELSE ReadQualified(Main, n)
    PROVE  Promise!Next
<1>1. Promise!Innermost = d /\ 1 \in Promise!Open
  BY TopFrame, Deepest, UndoShape DEF Promise!Innermost, Promise!Open
<1>2. UndoOf(frames)[d] = Entry(frames[d].saves)
  BY UndoShape
<1>3. /\ DOMAIN Promise!Localized = Saved(frames[d].saves)
      /\ \A n \in Saved(frames[d].saves) : Promise!Localized[n] = FirstSave(frames[d].saves, n)
  BY <1>1, <1>2 DEF Promise!Localized, Entry
<1>4. MainValues' = [n \in Names |-> IF n \in DOMAIN Promise!Localized
                                      THEN Promise!Localized[n] ELSE MainValues[n]]
  BY <1>3 DEF MainValues
<1>5. Promise!Leave
  BY <1>1, <1>4 DEF DropScope, Promise!Leave, Promise!Open, MainValues
<1> QED BY <1>5 DEF Promise!Next

\* Every step of DynScope is a step of Localization or leaves it alone.
LEMMA RefineStep ==
    ASSUME IInv, LocalOK(frames), MainOnly, [Next]_vars
    PROVE  Promise!Next \/ UNCHANGED <<MainValues, UndoOf(frames)>>
<1>0. /\ frames \in Seq(Frames) /\ frames # <<>> /\ Top \in Frames
      /\ Top = frames[Len(frames)] /\ Len(frames) \in 1..Len(frames)
      /\ frames[1].kind = "file"
      /\ StoresOK(cells, globals) /\ package = Main /\ Main \in Packages
  BY TopFrame, DynScopeAssumption DEF MainOnly, IInv, FramesOK
<1>1. ASSUME UNCHANGED frames PROVE UndoOf(frames') = UndoOf(frames)
  BY <1>1
<1>2. ASSUME UNCHANGED <<cells, globals>> PROVE MainValues' = MainValues
  BY <1>2 DEF MainValues, ReadQualified
<1>3. ASSUME NEW i \in 1..Len(frames), NEW f \in Frames, LocalFrame(f),
             f.kind = frames[i].kind, f.saves = frames[i].saves,
             frames' = [frames EXCEPT ![i] = f]
      PROVE  UndoOf(frames') = UndoOf(frames)
  <2>1. /\ ScopesOf(frames') = ScopesOf(frames)
        /\ \A j \in 1..Len(frames) : frames'[j] = IF j = i THEN f ELSE frames[j]
    <3> DEFINE gs == [frames EXCEPT ![i] = f]
    <3>1. /\ ScopesOf(gs) = ScopesOf(frames)
          /\ \A j \in 1..Len(frames) : gs[j] = IF j = i THEN f ELSE frames[j]
      BY <1>0, <1>3, ReplaceLocal, ZenonT(60)
    <3>2. frames' = gs
      BY <1>3
    <3> HIDE DEF gs
    <3> QED BY <3>1, <3>2
  <2>2. \A j \in ScopesOf(frames) : frames[j].saves = frames'[j].saves
    BY <1>3, <2>1 DEF ScopesOf
  <2> QED BY <2>1, <2>2, SameUndo
<1>4. ASSUME NEW n \in Names, NEW v \in Values, Assign(n, v)
      PROVE  Promise!Next \/ UNCHANGED <<MainValues, UndoOf(frames)>>
  <2>1. CASE SlotOf(n) = Absent
    <3>1. Store(Main, n, v) /\ UNCHANGED frames
      BY <1>0, <1>4, <2>1, DynScopeAssumption DEF Assign, StoreGlobal
    <3> QED BY <1>0, <1>1, <3>1, StoreMain, IsAssign
  <2>2. CASE SlotOf(n) \in Packages
    <3>1. /\ cells' = [cells EXCEPT ![Main][n] = v] /\ UNCHANGED <<frames, globals>>
          /\ SlotOf(n) = Main
      BY <1>4, <2>2, DynScopeAssumption DEF Assign, MainOnly
    <3>2. Holding(n) # {}
      BY <2>2, DynScopeAssumption DEF SlotOf
    <3>3. cells[Main][n] # Absent
      BY <2>2, <3>1, <3>2, InnermostHolds DEF IInv, FramesOK, FrameOK
    <3>4. Store(Main, n, v)
      BY <3>1, <3>3 DEF Store
    <3> QED BY <1>0, <1>1, <3>1, <3>4, StoreMain, IsAssign
  <2>3. CASE SlotOf(n) \in Values
    <3> DEFINE i == Innermost(n)
               f == [frames[i] EXCEPT !.slots[n] = v]
    <3>1. /\ frames' = [frames EXCEPT ![i] = f] /\ UNCHANGED <<globals, cells>>
      BY <1>4, <2>3, DynScopeAssumption DEF Assign
    <3>2. i \in 1..Len(frames) /\ frames[i].slots[n] \in Values
      BY <2>3, DynScopeAssumption, InnermostHolds DEF SlotOf
    <3>3. frames[i] \in Frames /\ LocalFrame(frames[i])
      BY <1>0, <3>2 DEF LocalOK
    <3>4. /\ f \in Frames /\ f.kind = frames[i].kind /\ f.name = frames[i].name
          /\ f.saves = frames[i].saves
          /\ \A m \in Names : f.slots[m] = IF m = n THEN v ELSE frames[i].slots[m]
      <4> HIDE DEF i
      <4>1. f = [frames[i] EXCEPT !.slots = [@ EXCEPT ![n] = v]]
        OBVIOUS
      <4>2. frames[i].slots \in [Names -> Slots] /\ v \in Slots
        BY <3>3 DEF Frames, Slots
      <4>3. [frames[i].slots EXCEPT ![n] = v] \in [Names -> Slots]
        BY <4>2
      <4> QED BY <3>3, <4>1, <4>2, <4>3 DEF Frames
    <3> HIDE DEF i, f
    <3>5. LocalFrame(f)
      BY <3>2, <3>3, <3>4 DEF LocalFrame
    <3>6. UndoOf(frames') = UndoOf(frames)
      BY <1>3, <3>1, <3>2, <3>4, <3>5
    <3> QED BY <1>2, <3>1, <3>6
  <2> QED BY <1>4, <2>1, <2>2, <2>3 DEF Assign
<1>5. ASSUME NEW n \in Names, NEW v \in Values \cup Packages, v \in Values => n \in MyNames,
             frames' = ChangeTop([Top EXCEPT !.slots[n] = v])
      PROVE  UndoOf(frames') = UndoOf(frames)
  <2> DEFINE f == [Top EXCEPT !.slots[n] = v]
  <2>1. /\ f \in Frames /\ f.kind = Top.kind /\ f.name = Top.name /\ f.saves = Top.saves
        /\ \A m \in Names : f.slots[m] = IF m = n THEN v ELSE Top.slots[m]
    BY <1>0 DEF Frames, Slots
  <2>2. frames' = [frames EXCEPT ![Len(frames)] = f]
    BY <1>5 DEF ChangeTop
  <2> HIDE DEF f
  <2>3. LocalFrame(Top)
    BY <1>0 DEF LocalOK
  <2>4. LocalFrame(f)
    BY <1>5, <2>1, <2>3 DEF LocalFrame
  <2> QED BY <1>0, <1>3, <2>1, <2>2, <2>4
<1>6. ASSUME NEW n \in Names, My(n) PROVE UNCHANGED <<MainValues, UndoOf(frames)>>
  BY <1>2, <1>5, <1>6 DEF My
<1>7. ASSUME NEW n \in Names, Our(n)
      PROVE  Promise!Next \/ UNCHANGED <<MainValues, UndoOf(frames)>>
  <2>1. UndoOf(frames') = UndoOf(frames)
    BY <1>0, <1>5, <1>7, DynScopeAssumption DEF Our
  <2>2. PICK v \in Values \cup {Absent} : MoveToCell(n, v)
    BY <1>7 DEF Our
  <2> QED BY <1>0, <2>1, <2>2, MoveMain, IsAssign
<1>8. ASSUME NEW n \in Names, TakeRef(n) PROVE UNCHANGED <<MainValues, UndoOf(frames)>>
  <2>1. MoveToCell(n, Absent) /\ UNCHANGED frames
    BY <1>8 DEF TakeRef
  <2> QED BY <1>0, <1>1, <2>1, MoveMain, DynScopeAssumption
<1>9. ASSUME NEW n \in Names, LocalListBegins(n)
      PROVE UNCHANGED <<MainValues, UndoOf(frames)>>
  <2> DEFINE g == NewFrame("list", n)
  <2>1. g \in Frames /\ LocalFrame(g) /\ g.kind = "list"
    BY <1>9, NewFrameOK, NewFrameLocal DEF LocalListBegins, IInv, FrameOK
  <2>2. frames' = Append(frames, g) /\ Len(frames) \in ScopesOf(frames)
    BY <1>9, TopScope DEF LocalListBegins
  <2> HIDE DEF g
  <2>3. /\ ScopesOf(frames') = ScopesOf(frames)
        /\ \A i \in ScopesOf(frames) : frames'[i] = frames[i]
    BY <1>0, <2>1, <2>2, AppendLocal DEF ScopeKinds
  <2>4. UNCHANGED <<cells, globals>>
    BY <1>9 DEF LocalListBegins
  <2> QED BY <1>2, <2>3, <2>4, SameScopes
<1>10. ASSUME NEW p \in Packages, NEW n \in Names, AssignQualified(p, n)
       PROVE  Promise!Next
  <2>1. PICK v \in Values : Store(Main, n, v)
    BY <1>10 DEF AssignQualified, MainOnly
  <2> QED BY <1>0, <1>1, <1>10, <2>1, StoreMain, IsAssign DEF AssignQualified
<1>11. ASSUME NEW p \in Packages, SetPackage(p)
       PROVE UNCHANGED <<MainValues, UndoOf(frames)>>
  BY <1>1, <1>2, <1>11 DEF SetPackage
<1>12. CASE UNCHANGED vars
  BY <1>1, <1>2, <1>12 DEF vars
<1>13. ASSUME NEW k \in {"block", "sub"}, NEW p \in Packages, Enter(k, p)
       PROVE  Promise!Next
  <2> DEFINE g == NewFrame(k, Absent)
             d == Len(frames) + 1
  <2>1. g \in Frames /\ LocalFrame(g) /\ g.kind \in ScopeKinds /\ g.saves = <<>>
    BY <1>13, NewFrameOK, NewFrameLocal DEF IInv, FrameOK, ScopeKinds
  <2>2. frames' = Append(frames, g) /\ UNCHANGED <<cells, globals>> /\ Len(frames) < MaxFrames
    BY <1>13 DEF Enter
  <2> HIDE DEF g
  <2>3. /\ ScopesOf(frames') = ScopesOf(frames) \cup {d}
        /\ \A i \in ScopesOf(frames) : frames'[i] = frames[i]
        /\ frames'[d].saves = <<>>
    BY <1>0, <2>1, <2>2, AppendLocal
  <2>4. d \in 1..MaxFrames /\ \A e \in ScopesOf(frames) : e < d
    BY <1>0, <2>2, DynScopeAssumption DEF ScopesOf
  <2>5. MainValues' = MainValues
    BY <1>2, <2>2
  <2>6. DOMAIN UndoOf(frames) = ScopesOf(frames) /\ d \notin ScopesOf(frames)
    BY <2>4, UndoShape
  <2> HIDE DEF d
  <2>7. UndoOf(frames') = AddScope(UndoOf(frames), d)
    <3> DEFINE fs == frames
               gs == frames'
    <3>1. /\ d \notin ScopesOf(fs) /\ ScopesOf(gs) = ScopesOf(fs) \cup {d}
          /\ \A i \in ScopesOf(fs) : gs[i] = fs[i]
          /\ gs[d].saves = <<>>
      BY <2>3, <2>6
    <3> HIDE DEF fs, gs
    <3>2. UndoOf(gs) = AddScope(UndoOf(fs), d)
      BY <3>1, EnterUndo
    <3> QED BY <3>2 DEF fs, gs
  <2> QED BY <2>4, <2>5, <2>6, <2>7, IsEnter
<1>14. CASE LocalEnds
  <2>1. PICK v \in Values : Store(Main, Top.name, v)
    BY <1>14 DEF LocalEnds
  <2>2. Top.name \in Names /\ Top.kind = "init" /\ frames' = Front(frames)
    BY <1>14, TopFrame DEF LocalEnds, FrameOK
  <2>3. /\ ScopesOf(frames') = ScopesOf(frames) \ {Len(frames)}
        /\ \A i \in ScopesOf(frames') : frames'[i] = frames[i]
    BY <1>0, <2>2, FrontLocal
  <2>4. Len(frames) \notin ScopesOf(frames)
    BY <1>0, <2>2 DEF ScopesOf, ScopeKinds
  <2>5. UndoOf(frames') = UndoOf(frames)
    BY <2>3, <2>4, SameScopes
  <2> QED BY <1>0, <2>1, <2>2, <2>5, StoreMain, IsAssign
<1>15. ASSUME NEW n \in Names, LocalBegins(n) PROVE Promise!Next
  <2> DEFINE d == Len(frames)
             s == SaveOf(n)
             f == [Top EXCEPT !.saves = Append(@, s)]
             g == NewFrame("init", n)
             fs == ChangeTop(f)
  <2>1. s \in Saves /\ s.name = n /\ s.val = MainValues[s.name]
    BY <1>15, ReadMain DEF LocalBegins
  <2>2. d \in ScopesOf(frames) /\ \A e \in ScopesOf(frames) : e <= d
    <3>1. d \in ScopesOf(frames)
      BY <1>15, TopScope DEF LocalBegins
    <3> QED BY <1>0, <3>1 DEF ScopesOf
  <2>3. frames' = Append(fs, g) /\ UNCHANGED <<cells, globals>>
    BY <1>15 DEF LocalBegins
  <2>4. FrameOK(f, cells) /\ FrameOK(g, cells)
    BY <1>0, <2>1, MoreSaves, TopFrame, NewFrameOK
  <2> HIDE DEF s
  <2>5. /\ f \in Frames /\ g \in Frames /\ f.kind = Top.kind /\ f.name = Top.name
        /\ f.slots = Top.slots /\ f.saves = Append(Top.saves, s)
    BY <1>0, <2>4 DEF FrameOK, Frames
  <2>6. LocalFrame(g) /\ g.kind = "init"
    BY NewFrameLocal
  <2> HIDE DEF f, g
  <2>7. LocalFrame(f)
    BY <1>0, <2>5 DEF LocalFrame, LocalOK
  <2>8. /\ LocalOK(fs) /\ Len(fs) = d /\ ScopesOf(fs) = ScopesOf(frames)
        /\ \A i \in 1..d : fs[i] = IF i = d THEN f ELSE frames[i]
    BY <1>0, <2>5, <2>7, ReplaceLocal DEF ChangeTop
  <2>9. fs \in Seq(Frames) /\ fs # <<>>
    BY <1>0, <2>5 DEF ChangeTop
  <2> HIDE DEF fs
  <2>10. /\ ScopesOf(frames') = ScopesOf(frames)
         /\ \A i \in ScopesOf(frames) : frames'[i] = fs[i]
    <3>1. g.kind \notin ScopeKinds /\ Len(fs) \in ScopesOf(fs)
      BY <2>2, <2>6, <2>8 DEF ScopeKinds
    <3>2. /\ ScopesOf(Append(fs, g)) = ScopesOf(fs)
          /\ \A i \in ScopesOf(fs) : Append(fs, g)[i] = fs[i]
      BY <2>5, <2>6, <2>8, <2>9, <3>1, AppendLocal
    <3> QED BY <2>3, <2>8, <3>2
  <2>11. \A i \in ScopesOf(frames) :
            frames'[i].saves = IF i = d THEN Append(frames[i].saves, s) ELSE frames[i].saves
    <3> TAKE i \in ScopesOf(frames)
    <3>1. i \in 1..d /\ frames'[i] = fs[i]
      BY <2>10 DEF ScopesOf
    <3>2. frames'[i] = IF i = d THEN f ELSE frames[i]
      BY <2>8, <3>1
    <3> QED BY <1>0, <2>5, <3>2
  <2> HIDE DEF d
  <2>12. UndoOf(frames') = AddSave(UndoOf(frames), d, s.name)
    BY <1>0, <2>1, <2>2, <2>10, <2>11, SaveIsSaved
  <2>13. MainValues' = MainValues
    BY <1>2, <2>3
  <2> QED BY <2>1, <2>2, <2>12, <2>13, IsSave
<1>16. CASE LocalListEnds
  <2> DEFINE d == Len(frames) - 1
             n == Top.name
             s == SaveOf(n)
             fs == Front(frames)
             f == [fs[d] EXCEPT !.saves = Append(@, s)]
  <2>0. Top.kind = "list" /\ n \in ListNames
    BY <1>0, <1>16 DEF LocalListEnds, LocalOK, LocalFrame
  <2>1. n \in Names /\ s \in Saves /\ s.name = n /\ s.val = MainValues[s.name]
    BY <2>0, ReadMain
  <2>2. d \in ScopesOf(frames) /\ \A e \in ScopesOf(frames) : e <= d
    <3>1. Len(frames) \notin ScopesOf(frames)
      BY <1>0, <2>0 DEF ScopesOf, ScopeKinds
    <3>2. d \in ScopesOf(frames)
      BY <1>0, <2>0 DEF LocalOK, ScopeKinds
    <3> QED BY <1>0, <3>1, <3>2 DEF ScopesOf
  <2>3. PICK v \in Values : Store(Main, n, v)
    BY <1>16 DEF LocalListEnds
  <2>4. frames' = [fs EXCEPT ![d] = f]
    BY <1>16 DEF LocalListEnds
  <2>5. FramesOK(fs, cells) /\ Len(fs) = d
    BY <1>0, <2>0, FrontFrames DEF Top, IInv
  <2>6. /\ LocalOK(fs) /\ ScopesOf(fs) = ScopesOf(frames)
        /\ \A i \in ScopesOf(frames) : fs[i] = frames[i]
    <3>1. Len(frames) \notin ScopesOf(frames)
      BY <1>0, <2>0 DEF ScopesOf, ScopeKinds
    <3> QED BY <1>0, <3>1, FrontLocal
  <2>7. d \in 1..Len(fs) /\ fs \in Seq(Frames)
    <3>1. d \in ScopesOf(fs)
      BY <2>2, <2>6
    <3> QED BY <2>5, <3>1 DEF FramesOK, ScopesOf
  <2>8. FrameOK(fs[d], cells) /\ LocalFrame(fs[d])
    BY <2>5, <2>6, <2>7 DEF FramesOK, LocalOK
  <2>9. FrameOK(f, cells)
    BY <2>1, <2>8, MoreSaves
  <2> HIDE DEF s
  <2>10. /\ f \in Frames /\ f.kind = fs[d].kind /\ f.name = fs[d].name
         /\ f.slots = fs[d].slots /\ f.saves = Append(fs[d].saves, s)
    BY <2>8, <2>9 DEF FrameOK, Frames
  <2> HIDE DEF f, fs, d, n
  <2>11. LocalFrame(f)
    BY <2>8, <2>10 DEF LocalFrame
  <2>12. /\ ScopesOf(frames') = ScopesOf(frames)
         /\ \A i \in 1..Len(fs) : frames'[i] = IF i = d THEN f ELSE fs[i]
    <3> DEFINE gs == [fs EXCEPT ![d] = f]
    <3>1. /\ ScopesOf(gs) = ScopesOf(fs)
          /\ \A i \in 1..Len(fs) : gs[i] = IF i = d THEN f ELSE fs[i]
      BY <2>6, <2>7, <2>10, <2>11, ReplaceLocal
    <3>2. frames' = gs
      BY <2>4
    <3> HIDE DEF gs
    <3> QED BY <2>6, <3>1, <3>2
  <2>13. \A i \in ScopesOf(frames) :
            frames'[i].saves = IF i = d THEN Append(frames[i].saves, s) ELSE frames[i].saves
    <3> TAKE i \in ScopesOf(frames)
    <3>1. i \in 1..Len(fs) /\ fs[i] = frames[i]
      BY <2>6 DEF ScopesOf
    <3>2. frames'[i] = IF i = d THEN f ELSE frames[i]
      BY <2>12, <3>1
    <3> QED BY <2>2, <2>6, <2>10, <3>2
  <2>14. UndoOf(frames') = AddSave(UndoOf(frames), d, s.name)
    BY <1>0, <2>1, <2>2, <2>12, <2>13, SaveIsSaved
  <2>15. MainValues' = [MainValues EXCEPT ![n] = v]
    BY <1>0, <2>1, <2>3, StoreMain
  <2> QED BY <2>1, <2>2, <2>14, <2>15, IsLocal
<1>17. CASE Leave
  <2> DEFINE d == Len(frames)
  <2>1. Top.kind \in {"block", "sub"} /\ frames' = Front(frames)
    BY <1>17 DEF Leave
  <2>2. /\ d \in ScopesOf(frames) /\ 1 \in ScopesOf(frames) /\ 1 < d
        /\ \A e \in ScopesOf(frames) : e <= d
    <3>1. d # 1
      BY <1>0, <2>1
    <3> QED BY <1>0, <2>1, <3>1 DEF ScopesOf, ScopeKinds
  <2>3. UndoOf(frames') = DropScope(UndoOf(frames), d)
    <3>1. /\ ScopesOf(frames') = ScopesOf(frames) \ {d}
          /\ \A i \in ScopesOf(frames') : frames'[i] = frames[i]
      BY <1>0, <2>1, FrontLocal
    <3> DEFINE gs == frames'
    <3>2. /\ ScopesOf(gs) = ScopesOf(frames) \ {d}
          /\ \A i \in ScopesOf(gs) : gs[i] = frames[i]
      BY <3>1
    <3> HIDE DEF gs, d
    <3>3. UndoOf(gs) = DropScope(UndoOf(frames), d)
      BY <3>2, LeaveUndo
    <3> QED BY <3>3 DEF gs
  <2>4. \A n \in Names : ReadQualified(Main, n)' = IF n \in Saved(frames[d].saves)
                                                  THEN FirstSave(frames[d].saves, n)
                                                  ELSE ReadQualified(Main, n)
    <3> DEFINE saves == Top.saves
    <3> TAKE n \in Names
    <3>1. saves \in Seq(Saves) /\ Top.saves = frames[d].saves
      BY <1>0 DEF Frames
    <3>2. n \in Saved(saves) => FirstSave(saves, n) \in Values
      BY <3>1, RestoredValue
    <3>3. /\ cells'[Main][n] = IF n \in Saved(saves) /\ cells[Main][n] # Absent
                               THEN FirstSave(saves, n) ELSE cells[Main][n]
          /\ globals'[Main][n] = IF n \in Saved(saves) /\ cells[Main][n] = Absent
                                 THEN FirstSave(saves, n) ELSE globals[Main][n]
      BY <1>0, <1>17 DEF Leave, StoresOK, Stores
    <3> HIDE DEF saves
    <3>4. ReadQualified(Main, n)' = IF n \in Saved(saves) THEN FirstSave(saves, n)
                                    ELSE ReadQualified(Main, n)
      BY <3>2, <3>3, DynScopeAssumption DEF ReadQualified, OrElse
    <3> QED BY <3>1, <3>4 DEF saves
  <2> HIDE DEF d
  <2> QED BY <2>2, <2>3, <2>4, IsLeave
<1>18. ASSUME NEW n \in Names, NEW v \in Values, OurList(n, v)
       PROVE  Promise!Next \/ UNCHANGED <<MainValues, UndoOf(frames)>>
  <2>1. /\ globals' = [globals EXCEPT ![Main][n] = v] /\ cells' = cells
        /\ UndoOf(frames') = UndoOf(frames)
    BY <1>1, <1>18 DEF OurList
  <2>2. globals \in Stores /\ v # Absent
    BY <1>0, DynScopeAssumption DEF StoresOK
  <2>3. \A m \in Names : globals'[Main][m] = IF m = n THEN v ELSE globals[Main][m]
    BY <1>0, <2>1, <2>2 DEF Stores
  <2>4. CASE cells[Main][n] # Absent
    <3>1. \A m \in Names : ReadQualified(Main, m)' = ReadQualified(Main, m)
      BY <2>1, <2>3, <2>4 DEF ReadQualified, OrElse
    <3>2. MainValues' = MainValues
      BY <3>1 DEF MainValues
    <3> QED BY <2>1, <3>2
  <2>5. CASE cells[Main][n] = Absent
    <3>1. \A m \in Names :
            ReadQualified(Main, m)' = IF m = n THEN v ELSE ReadQualified(Main, m)
      BY <2>1, <2>2, <2>3, <2>5 DEF ReadQualified, OrElse
    <3>2. MainValues' = [MainValues EXCEPT ![n] = v]
      BY <3>1 DEF MainValues
    <3> QED BY <2>1, <3>2, IsAssign
  <2> QED BY <2>4, <2>5
<1> QED
  BY <1>4, <1>6, <1>7, <1>8, <1>9, <1>10, <1>11, <1>12, <1>13, <1>14, <1>15, <1>16, <1>17,
     <1>18 DEF Next
\* The program starts where Localization does.
LEMMA RefineInit ==
    ASSUME Init
    PROVE  LocalOK(frames) /\ Promise!Init
<1> DEFINE f == NewFrame("file", Absent)
<1>1. frames = <<f>> /\ f.kind \in ScopeKinds /\ f.saves = <<>> /\ LocalFrame(f)
  BY NewFrameLocal DEF Init, ScopeKinds
<1> HIDE DEF f
<1>2. Len(frames) = 1 /\ frames[1] = f
  BY <1>1
<1>3. LocalOK(frames)
  BY <1>1, <1>2 DEF LocalOK
<1>4. ScopesOf(frames) = {1}
  BY <1>1, <1>2 DEF ScopesOf
<1>5. UndoOf(frames) = [e \in {1} |-> Promise!Nothing]
  <2>1. UndoOf(frames) = [e \in {1} |-> Entry(frames[e].saves)]
    BY <1>4, UndoShape
  <2> QED BY <1>1, <1>2, <2>1, NothingSaved
<1>6. 1 \in 1..MaxFrames
  BY DynScopeAssumption
<1>7. MainValues = [n \in Names |-> Undef]
  BY DynScopeAssumption DEF Init, MainValues, ReadQualified, OrElse
<1> QED BY <1>3, <1>5, <1>6, <1>7 DEF Promise!Init, MainValues

\* In package main, if no localized name is also declared with my, a scope that
\* localizes variables gives each the value it had before the scope's first local
\* of it, in whatever way the scope is left, and nothing else is changed by that:
\* push_scope, local and restore_locals keep the promise of local.
THEOREM LocalKept == MainOnly => (Spec => LocalizationKept)
<1> SUFFICES ASSUME MainOnly PROVE Spec => LocalizationKept
  OBVIOUS
<1>1. Init => IInv /\ LocalOK(frames) /\ Promise!Init
  BY InitIInv, RefineInit
<1>2. IInv /\ LocalOK(frames) /\ [Next]_vars => IInv' /\ LocalOK(frames)'
  BY NextIInv, NextLocal
<1>3. IInv /\ LocalOK(frames) /\ [Next]_vars =>
        [Promise!Next]_<<[n \in Names |-> ReadQualified(Main, n)], UndoOf(frames)>>
  BY RefineStep DEF MainValues
<1> QED BY <1>1, <1>2, <1>3, PTL DEF Spec, LocalizationKept, Promise!Spec
=============================================================================
