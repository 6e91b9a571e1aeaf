---------------------------- MODULE PhasesProofs ----------------------------
(***************************************************************************)
(* Proofs about Phases: the types, that a file is loaded once, that the    *)
(* exit status is the one asked for, the order of the phase blocks, and    *)
(* that run() passes over none that was registered in time.                *)
(*                                                                         *)
(* PhasesInv is the inductive invariant.  BottomOK says what run() is in   *)
(* the middle of: which piece of code is at the bottom of the stack at     *)
(* each place, and that only files, strings, import subs and BEGIN blocks  *)
(* are above it.  With it the steps of user code (Code) and those of run() *)
(* (Driver) separate: user code changes nothing that run() steps through   *)
(* (CodeFrame) and leaves the bottom of the stack alone (CodeStack).       *)
(***************************************************************************)
EXTENDS Phases, SequenceLemmas

Bottoms(place) ==
    CASE place = "compile" -> {"begin", "use"}
      [] place = "parse" -> {"begin"}
      [] place = "handler" -> {"handler"}
      [] place = "CHECK" -> {"check"}
      [] place = "INIT" -> {"init"}
      [] place = "RUN" -> {"main"}
      [] place \in {"lexical", "DESTRUCT"} -> {"destroy"}
      [] place = "END" -> {"end"}
      [] OTHER -> {}
Nested == {"file", "string", "import", "begin"}

BottomOK ==
    /\ stack # <<>> => stack[1].kind \in Bottoms(at)
    /\ \A i \in 2 .. Len(stack) : stack[i].kind \in Nested

\* No file has run that is not marked loaded.
LoadInv == \A f \in Files : loads[f] <= 1 /\ (loads[f] = 1 => f \in required)

\* The exit status on the way from the end of the main program to the exit.
StatusInv ==
    /\ at \in {"parse", "handler", "compile", "CHECK", "INIT", "RUN"} =>
           verdict = NoCode /\ setAfter = NoCode
    /\ at \in {"lexical", "END", "DESTRUCT"} => verdict # NoCode
    /\ at = "lexical" => setAfter = NoCode
    /\ at \in {"lexical", "DESTRUCT"} => exitCode = verdict \/ lateExit
    /\ at = "END" => IF setAfter = NoCode THEN exitCode = verdict \/ lateExit
                     ELSE setAfter = verdict
    /\ StatusKept

\* Blocks are numbered as they are registered, each is on one list, and
\* Precedes(a, b): they are on the same list and a is to run before b.
Holds(list, b) == \E i \in 1 .. Len(list) : list[i] = b
Precedes(a, b) ==
    \/ Holds(checks, a) /\ Holds(checks, b) /\ a > b
    \/ Holds(ends, a) /\ Holds(ends, b) /\ a > b
    \/ Holds(inits, a) /\ Holds(inits, b) /\ a < b
Ascending(list) == \A i, j \in 1 .. Len(list) : i < j => list[i] < list[j]
ListsInv ==
    /\ Ascending(checks) /\ Ascending(ends) /\ Ascending(inits)
    /\ \A b \in 1 .. MaxBlocks :
          /\ Holds(checks, b) \/ Holds(ends, b) \/ Holds(inits, b) => b < NewBlock
          /\ ~ (Holds(checks, b) /\ Holds(ends, b))
          /\ ~ (Holds(checks, b) /\ Holds(inits, b))
          /\ ~ (Holds(ends, b) /\ Holds(inits, b))

\* The blocks that a phase has still to run: the first of `todo` is no longer
\* one of them once it runs.
Phase == {"CHECK", "INIT", "END"}
Due(i) == i \in 1 .. Len(todo) /\ (stack # <<>> => i > 1)
PhaseList == CASE at = "CHECK" -> checks [] at = "INIT" -> inits [] at = "END" -> ends

RanInv ==
    /\ \A i \in 1 .. Len(ran) : ran[i] < NewBlock
    /\ at \in {"parse", "handler", "compile"} => ran = <<>>
    /\ at \in {"CHECK", "INIT", "RUN", "lexical"} =>
          \A i \in 1 .. Len(ran) : ~ Holds(ends, ran[i])
    /\ at = "CHECK" => \A i \in 1 .. Len(ran) : ~ Holds(inits, ran[i])
    /\ \A i, j \in 1 .. Len(ran) :
          i < j => ran[i] # ran[j] /\ ~ Precedes(ran[j], ran[i])

TodoInv ==
    at \in Phase =>
        /\ stack # <<>> => todo # <<>>
        /\ \A i \in 1 .. Len(todo) : Holds(PhaseList, todo[i])
        /\ \A i, j \in 1 .. Len(todo) : i < j => Precedes(todo[i], todo[j])
        /\ \A i \in 1 .. Len(todo), j \in 1 .. Len(ran) :
              Due(i) => todo[i] # ran[j] /\ ~ Precedes(todo[i], ran[j])

PhasesInv == TypeOK /\ BottomOK /\ LoadInv /\ StatusInv /\ ListsInv /\ RanInv /\ TodoInv

-----------------------------------------------------------------------------
(* Frames: what the steps of user code and of run() leave alone.           *)

\* User code runs only on the stack, and changes nothing that run() steps through;
\* an exit in a file is the only thing that changes the exit code.
LEMMA CodeFrame ==
    ASSUME Code
    PROVE  /\ stack # <<>>
           /\ UNCHANGED <<at, todo, ran, setAfter, cause, verdict>>
           /\ \/ UNCHANGED <<exitCode, lateExit>>
              \/ FileEnds /\ flow.tag = "Exit" /\ exitCode' = flow.code
                          /\ lateExit' = (lateExit \/ verdict # NoCode)
           /\ UNCHANGED blocks \/ Registers
           /\ UNCHANGED <<required, loads>> \/ \E how \in {"stmt", "use", "expr"}, f \in Files :
                 LoadAgain(how, f) \/ LoadFile(how, f)
<1> USE DEF InCode, history, blocks, loaded
<1>1. CASE SetRegister
  BY <1>1 DEF SetRegister
<1>2. CASE StatementRegisters
  BY <1>2 DEF StatementRegisters, Registers
<1>3. CASE SetInc
  BY <1>3 DEF SetInc
<1>4. CASE Park
  BY <1>4 DEF Park
<1>5. CASE TakePending
  BY <1>5 DEF TakePending, Takes
<1>6. CASE StatementEnds
  BY <1>6 DEF StatementEnds
<1>7. CASE DoFile
  BY <1>7 DEF DoFile, MayLoad
<1>8. CASE NestedBegin
  BY <1>8 DEF NestedBegin
<1>9. CASE BeginsDone
  BY <1>9 DEF BeginsDone
<1>10. CASE NestedBeginEnds
  <2>1. stack # <<>>
    BY <1>10 DEF NestedBeginEnds
  <2> QED BY <1>10, <2>1 DEF NestedBeginEnds
<1>11. CASE FileEnds
  BY <1>11 DEF FileEnds, FileExits
<1>12. CASE ImportEnds
  BY <1>12 DEF ImportEnds
<1>13. CASE UseOver
  BY <1>13 DEF UseOver, Within
<1>14. CASE EvalString
  BY <1>14 DEF EvalString
<1>15. CASE StringEnds
  BY <1>15 DEF StringEnds
<1>16. CASE Ignored
  BY <1>16 DEF Ignored
<1>17. CASE Load
  <2>1. PICK how \in {"stmt", "use", "expr"} :
            LoadAbsent(how) \/ \E f \in Files : LoadAgain(how, f) \/ LoadFile(how, f)
    BY <1>17 DEF Load
  <2>2. CASE LoadAbsent(how)
    BY <2>2 DEF LoadAbsent, MayLoad
  <2>3. ASSUME NEW f \in Files, LoadAgain(how, f)
        PROVE  /\ stack # <<>>
               /\ UNCHANGED <<at, todo, ran, setAfter, cause, verdict, exitCode, lateExit, blocks>>
    BY <2>3 DEF LoadAgain, MayLoad
  <2>4. ASSUME NEW f \in Files, LoadFile(how, f)
        PROVE  /\ stack # <<>>
               /\ UNCHANGED <<at, todo, ran, setAfter, cause, verdict, exitCode, lateExit, blocks>>
    BY <2>4 DEF LoadFile, MayLoad
  <2> QED BY <2>1, <2>2, <2>3, <2>4
<1> QED
  BY <1>1, <1>2, <1>3, <1>4, <1>5, <1>6, <1>7, <1>8, <1>9, <1>10, <1>11, <1>12,
     <1>13, <1>14, <1>15, <1>16, <1>17 DEF Code

\* run() does not load files, and registers blocks only while it compiles.
LEMMA DriverFrame ==
    ASSUME Driver
    PROVE  /\ UNCHANGED <<loaded, errsv, query, errno, lateExit>>
           /\ UNCHANGED blocks \/ TopRegister
<1> USE DEF interp, history, blocks, loaded, Ended
<1>1. CASE TopBegin \/ TopUse \/ Destroy
  BY <1>1 DEF TopBegin, TopUse, Destroy
<1>2. CASE TopRegister
  BY <1>2 DEF TopRegister, Registers
<1>3. CASE CompileFails \/ CompileEnds \/ PhaseEnds \/ EndsDone
  BY <1>3 DEF CompileFails, CompileEnds, PhaseEnds, EndsDone
<1>4. CASE EagerEnds
  BY <1>4 DEF EagerEnds
<1>5. CASE BlockBegins \/ BlockEnds \/ MainEnds
  BY <1>5 DEF BlockBegins, BlockEnds, BlockEndsWith, MainEnds
<1>6. CASE DestroyEnds \/ RunReturns
  BY <1>6 DEF DestroyEnds, DestroyParks, RunReturns, ReturnWith
<1>7. CASE ParseBeginEnds \/ ParseHandler \/ ParseFails
  BY <1>7 DEF ParseBeginEnds, ParseHandler, ParseFails
<1> QED
  BY <1>1, <1>2, <1>3, <1>4, <1>5, <1>6, <1>7 DEF Driver

-----------------------------------------------------------------------------
(* The stack.                                                              *)

Kinds == {"begin", "use", "check", "init", "main", "end", "destroy",
          "handler", "file", "string", "import"}
Hows == {"", "stmt", "use", "expr", "do"}
StackOK == stack \in Seq(Units) /\ Len(stack) <= MaxDepth + 1

\* The constructors of the pieces of code.
LEMMA UnitFacts ==
    /\ \A k \in Kinds, f \in Files \cup {Absent}, h \in Hows, s \in {"compile", "run", "over"} :
          Unit(k, f, h, s) \in Units /\ Unit(k, f, h, s).kind = k
    /\ \A k \in Kinds : Block(k) \in Units /\ Block(k).kind = k
    /\ \A u \in Units, s \in {"compile", "run", "over"} :
          [u EXCEPT !.stage = s] \in Units /\ [u EXCEPT !.stage = s].kind = u.kind
    /\ \A u \in Units : u.how \in Hows
BY ZenonT(60) DEF Units, Unit, Block, Kinds, Hows

\* The pieces of code that are loaded.
LEMMA LoadedUnits ==
    ASSUME NEW h \in Hows, NEW s \in {"compile", "run"}
    PROVE  /\ \A f \in Files : /\ Unit("file", f, h, s) \in Units
                              /\ Unit("file", f, h, s).kind \in Nested
           /\ Unit("string", Absent, h, s) \in Units
           /\ Unit("string", Absent, h, s).kind \in Nested
BY DEF Units, Unit, Hows, Nested

\* A stack that stands on the piece of code that `stack` stands on.
Rooted(s) ==
    /\ s \in Seq(Units) /\ s # <<>>
    /\ s[1].kind = stack[1].kind
    /\ \A i \in 2 .. Len(s) : s[i].kind \in Nested

\* The stack of a running program is rooted in a block of its phase.
LEMMA RootedStack ==
    ASSUME StackOK, BottomOK, stack # <<>>
    PROVE  Rooted(stack) /\ Len(stack) \in Nat /\ Len(stack) >= 1 /\ Top \in Units
BY LastOfSeq DEF Rooted, StackOK, BottomOK, Top

\* A nested unit on top of a rooted stack leaves it rooted;
LEMMA RootedAppend ==
    ASSUME NEW s, Rooted(s), NEW u \in Units, u.kind \in Nested
    PROVE  Rooted(Append(s, u)) /\ Len(Append(s, u)) = Len(s) + 1
<1>1. /\ s \in Seq(Units) /\ Len(s) \in Nat /\ Len(s) >= 1
      /\ s[1].kind = stack[1].kind /\ \A i \in 2 .. Len(s) : s[i].kind \in Nested
  BY LastOfSeq DEF Rooted
<1>2. /\ Append(s, u) \in Seq(Units)
      /\ Len(Append(s, u)) = Len(s) + 1
      /\ Append(s, u) # <<>>
      /\ \A i \in 1 .. Len(s) : Append(s, u)[i] = s[i]
      /\ Append(s, u)[Len(s) + 1] = u
  BY <1>1, AppendToSeq
<1>3. \A i \in 2 .. Len(s) + 1 : i \in 2 .. Len(s) \/ i = Len(s) + 1
  BY <1>1
<1>4. Append(s, u)[1] = s[1]
  BY <1>1, <1>2
<1>5. \A i \in 2 .. Len(s) + 1 : Append(s, u)[i].kind \in Nested
  <2> TAKE i \in 2 .. Len(s) + 1
  <2>1. CASE i \in 2 .. Len(s)
    BY <1>1, <1>2, <2>1
  <2>2. CASE i = Len(s) + 1
    BY <1>2, <2>2
  <2> QED BY <1>3, <2>1, <2>2
<1> QED BY <1>1, <1>2, <1>4, <1>5 DEF Rooted

\* so does the end of one that is not the bottom.
LEMMA RootedFront ==
    ASSUME NEW s, Rooted(s), Len(s) > 1
    PROVE  Rooted(Front(s)) /\ Len(Front(s)) = Len(s) - 1
<1>1. /\ s \in Seq(Units) /\ Len(s) \in Nat /\ Len(s) >= 1 /\ s # <<>>
      /\ s[1].kind = stack[1].kind /\ \A i \in 2 .. Len(s) : s[i].kind \in Nested
  BY LastOfSeq DEF Rooted
<1>2. /\ Front(s) \in Seq(Units)
      /\ Len(Front(s)) = Len(s) - 1
      /\ \A i \in 1 .. Len(s) - 1 : Front(s)[i] = s[i]
      /\ Front(s) = <<>> <=> Len(s) = 1
  BY <1>1, FrontOfSeq
<1>3. 1 \in 1 .. Len(s) - 1 /\ \A i \in 2 .. Len(s) - 1 : i \in 1 .. Len(s) - 1 /\ i \in 2 .. Len(s)
  BY <1>1
<1> HIDE DEF Nested
<1> QED BY <1>1, <1>2, <1>3 DEF Rooted

\* A piece of code of a kind that is never at the bottom is above another one.
LEMMA NestedAbove ==
    ASSUME NEW s, Rooted(s), BottomOK, stack # <<>>,
           s[Len(s)].kind \in {"file", "string", "import"}
    PROVE  Len(s) > 1
<1> DEFINE n == Len(s)
<1>1. n \in Nat /\ n >= 1
  BY LastOfSeq DEF Rooted
<1> SUFFICES n > 1
  OBVIOUS
<1>2. CASE n = 1
  <2>1. s[1].kind \in Bottoms(at) /\ s[1].kind \in {"file", "string", "import"}
    BY <1>2 DEF Rooted, BottomOK
  <2>2. \A k \in Bottoms(at) : k \notin {"file", "string", "import"}
    BY DEF Bottoms
  <2> QED BY <2>1, <2>2
<1> HIDE DEF n
<1> QED BY <1>1, <1>2

\* A piece of code of a kind that is not nested is the one run() has started.
LEMMA BottomRuns ==
    ASSUME StackOK, BottomOK, stack # <<>>, Top.kind \notin Nested
    PROVE  Top.kind \in Bottoms(at)
<1> DEFINE n == Len(stack)
<1>1. n \in Nat /\ n >= 1 /\ ~ (n \in 2 .. n)
  BY RootedStack DEF BottomOK, Top
<1>2. stack[1].kind \in Bottoms(at) /\ Top = stack[n]
  BY DEF BottomOK, Top
<1> HIDE DEF n
<1>3. n = 1
  BY <1>1
<1> QED BY <1>2, <1>3

\* What a statement that loads leaves in its place.
LEMMA CallerFacts ==
    ASSUME StackOK, BottomOK, stack # <<>>
    PROVE  Rooted(Caller) /\ Len(Caller) = Len(stack)
<1>0. Rooted(stack) /\ Len(stack) \in Nat /\ Len(stack) >= 1 /\ Top \in Units
  BY RootedStack
<1>1. CASE Top.kind # "use"
  BY <1>0, <1>1 DEF Caller
<1>2. CASE Top.kind = "use"
  <2> DEFINE over == [Top EXCEPT !.stage = "over"]
  <2>1. over \in Units /\ over.kind = "use"
    BY <1>0, <1>2, UnitFacts
  <2>2. Len(stack) = 1
    <3>1. \A i \in 2 .. Len(stack) : stack[i].kind # "use"
      BY DEF BottomOK, Nested
    <3> DEFINE n == Len(stack)
    <3>2. n \in Nat /\ n >= 1 /\ ~ (n \in 2 .. n)
      BY <1>0, <1>2, <3>1 DEF Top
    <3> HIDE DEF n
    <3>3. n = 1
      BY <3>2
    <3> QED BY <3>3 DEF n
  <2>3. Below = <<>>
    BY <2>2, FrontOfSeq DEF StackOK, Below
  <2>4. Caller = <<over>>
    BY <1>2, <2>3 DEF Caller
  <2> HIDE DEF over
  <2>5. Rooted(<<over>>) /\ Len(<<over>>) = 1
    BY <1>0, <1>2, <2>1, <2>2 DEF Rooted, Top
  <2> QED BY <2>2, <2>4, <2>5
<1> QED BY <1>1, <1>2

\* Where a statement goes on after loading.
LEMMA ResumeFacts ==
    ASSUME NEW rest, NEW how, NEW undef, NEW pend, NEW err, Resume(rest, how, undef, pend, err)
    PROVE  /\ stack' = rest \/ stack' = Append(rest, Block("import"))
           /\ flow' \in {Running, Die, pend} /\ pending' \in {None, pend}
           /\ how # "use" => stack' = rest
<1>1. CASE how = "stmt" /\ undef
  BY <1>1 DEF Resume
<1>2. CASE ~ (how = "stmt" /\ undef) /\ how = "use" /\ pend # None
  BY <1>2 DEF Resume
<1>3. CASE ~ (how = "stmt" /\ undef) /\ ~ (how = "use" /\ pend # None)
  BY <1>3 DEF Resume, Continue
<1> QED BY <1>1, <1>2, <1>3

\* User code pushes and pops above the piece of code that run() started.
LEMMA CodeStack ==
    ASSUME StackOK, BottomOK, Code
    PROVE  Rooted(stack') /\ Len(stack') <= MaxDepth + 1
<1> DEFINE n == Len(stack)
           m == Len(stack')
           b == Len(Below)
<1> HIDE DEF n, m, b
<1> SUFFICES Rooted(stack') /\ m <= MaxDepth + 1
  BY DEF m
<1>1. Rooted(stack) /\ n \in Nat /\ n >= 1 /\ n <= MaxDepth + 1 /\ Top \in Units /\ stack # <<>>
  BY RootedStack, CodeFrame DEF StackOK, n
<1>2. MaxDepth \in Nat
  BY PhasesAssumption
<1>3. n > 1 => Rooted(Below) /\ b = n - 1
  BY <1>1, RootedFront DEF Below, n, b
<1>4. Top.kind \in {"file", "string", "import"} => n > 1
  BY <1>1, NestedAbove DEF Top, n
<1>5. Rooted(Caller) /\ Len(Caller) = n
  BY <1>1, CallerFacts DEF n
<1>6. /\ Block("begin") \in Units /\ Block("begin").kind \in Nested
      /\ Block("import") \in Units /\ Block("import").kind \in Nested
  BY UnitFacts DEF Kinds, Nested
<1>7. ASSUME UNCHANGED stack
      PROVE  Rooted(stack') /\ m <= MaxDepth + 1
  BY <1>1, <1>7 DEF n, m
<1>8. CASE SetRegister \/ StatementRegisters \/ SetInc \/ Park \/ TakePending \/ StatementEnds
  BY <1>7, <1>8 DEF SetRegister, StatementRegisters, Registers, SetInc, Park, TakePending, Takes,
                    StatementEnds
<1>9. CASE DoFile
  <2>1. CASE UNCHANGED stack
    BY <1>7, <2>1
  <2>2. CASE \E f \in Files : Push(Unit("file", f, "do", "run"))
    <3>1. PICK f \in Files : stack' = Append(stack, Unit("file", f, "do", "run"))
      BY <2>2 DEF Push
    <3>2. Unit("file", f, "do", "run") \in Units /\ Unit("file", f, "do", "run").kind \in Nested
      BY LoadedUnits DEF Hows
    <3>3. Rooted(stack') /\ m = n + 1
      BY <1>1, <3>1, <3>2, RootedAppend DEF n, m
    <3>4. n < MaxDepth
      BY <1>9 DEF DoFile, MayLoad, n
    <3> QED BY <1>1, <1>2, <3>3, <3>4
  <2> QED BY <1>9, <2>1, <2>2 DEF DoFile
<1>10. CASE NestedBegin
  <2>1. stack' = Append(stack, Block("begin")) /\ n < MaxDepth
    BY <1>10 DEF NestedBegin, Push, n
  <2>2. Rooted(stack') /\ m = n + 1
    BY <1>1, <1>6, <2>1, RootedAppend DEF n, m, b
  <2> QED BY <1>1, <1>2, <2>1, <2>2
<1>11. CASE BeginsDone
  <2>1. n > 1 /\ stack' = Append(Below, [Top EXCEPT !.stage = "run"])
    <3>1. Top.kind \in {"file", "string", "import"}
      BY <1>11 DEF BeginsDone
    <3> QED BY <1>4, <1>11, <3>1 DEF BeginsDone
  <2>2. [Top EXCEPT !.stage = "run"] \in Units /\ [Top EXCEPT !.stage = "run"].kind \in Nested
    BY <1>1, <1>11, UnitFacts DEF BeginsDone, Nested
  <2>3. Rooted(stack') /\ m = b + 1
    BY <1>3, <2>1, <2>2, RootedAppend DEF n, m, b
  <2> QED BY <1>1, <1>3, <2>1, <2>3
<1>12. CASE NestedBeginEnds
  <2>1. n > 1
    BY <1>12 DEF NestedBeginEnds, n
  <2>2. CASE stack' = Below
    <3>1. m = b
      BY <2>2 DEF m, b
    <3> QED BY <1>1, <1>2, <1>3, <2>1, <2>2, <3>1
  <2>3. CASE stack' # Below
    <3>1. stack' = Front(Below) /\ Below[Len(Below)].kind \in {"file", "string", "import"}
      BY <1>12, <2>3 DEF NestedBeginEnds
    <3>2. Rooted(Below) /\ b = n - 1
      BY <1>3, <2>1
    <3>3. b > 1
      BY <1>1, <3>1, <3>2, NestedAbove DEF b
    <3>4. Rooted(stack') /\ m = b - 1
      BY <3>1, <3>2, <3>3, RootedFront DEF n, m, b
    <3> QED BY <1>1, <1>2, <3>2, <3>4
  <2> QED BY <2>2, <2>3
<1>13. ASSUME n > 1, stack' = Below \/ stack' = Append(Below, Block("import"))
       PROVE  Rooted(stack') /\ m <= MaxDepth + 1
  <2>1. Rooted(Below) /\ b = n - 1
    BY <1>3, <1>13
  <2>2. CASE stack' = Below
    <3>1. m = b
      BY <2>2 DEF m, b
    <3> QED BY <1>1, <1>2, <2>1, <2>2, <3>1
  <2>3. CASE stack' = Append(Below, Block("import"))
    <3>1. Rooted(stack') /\ m = b + 1
      BY <1>6, <2>1, <2>3, RootedAppend DEF n, m, b
    <3> QED BY <1>1, <2>1, <3>1
  <2> QED BY <1>13, <2>2, <2>3
<1>14. CASE FileEnds
  <2>1. Top.kind \in {"file", "string", "import"}
    BY <1>14 DEF FileEnds
  <2>2. stack' = Below \/ stack' = Append(Below, Block("import"))
    BY <1>14, ResumeFacts DEF FileEnds
  <2> QED BY <1>4, <1>13, <2>1, <2>2
<1>15. CASE ImportEnds \/ StringEnds
  <2>1. Top.kind \in {"file", "string", "import"} /\ stack' = Below
    BY <1>15 DEF ImportEnds, StringEnds
  <2> QED BY <1>4, <1>13, <2>1
<1>16. CASE UseOver \/ Ignored
  BY <1>7, <1>16 DEF UseOver, Ignored
<1>17. CASE EvalString
  <2>1. CASE UNCHANGED stack
    BY <1>7, <2>1
  <2>2. CASE Push(Unit("string", Absent, "", "compile"))
    <3>1. stack' = Append(stack, Unit("string", Absent, "", "compile")) /\ n < MaxDepth
      BY <1>17, <2>2 DEF EvalString, Push, n
    <3>2. /\ Unit("string", Absent, "", "compile") \in Units
          /\ Unit("string", Absent, "", "compile").kind \in Nested
      BY LoadedUnits DEF Hows
    <3>3. Rooted(stack') /\ m = n + 1
      BY <1>1, <3>1, <3>2, RootedAppend DEF n, m, b
    <3>4. n < MaxDepth
      BY <3>1
    <3> QED BY <1>1, <1>2, <3>3, <3>4
  <2> QED BY <1>17, <2>1, <2>2 DEF EvalString
<1>18. CASE Load
  <2>1. PICK how \in {"stmt", "use", "expr"} :
            LoadAbsent(how) \/ \E f \in Files : LoadAgain(how, f) \/ LoadFile(how, f)
    BY <1>18 DEF Load
  <2>2. n < MaxDepth
    BY <2>1 DEF LoadAbsent, LoadAgain, LoadFile, MayLoad, n
  <2>3. ASSUME stack' = Caller \/ stack' = Append(Caller, Block("import"))
        PROVE  Rooted(stack') /\ m <= MaxDepth + 1
    <3>1. CASE stack' = Caller
      <4>1. m = n
        BY <1>5, <3>1 DEF m
      <4> QED BY <1>1, <1>5, <3>1, <4>1
    <3>2. CASE stack' = Append(Caller, Block("import"))
      <4>1. Rooted(stack') /\ m = n + 1
        BY <1>5, <1>6, <3>2, RootedAppend DEF m
      <4> QED BY <1>1, <1>2, <2>2, <4>1
    <3> QED BY <2>3, <3>1, <3>2
  <2>4. CASE LoadAbsent(how)
    BY <2>3, <2>4, ResumeFacts DEF LoadAbsent
  <2>5. ASSUME NEW f \in Files, LoadAgain(how, f)
        PROVE  stack' = Caller \/ stack' = Append(Caller, Block("import"))
    BY <2>5, ResumeFacts DEF LoadAgain, Continue
  <2>6. ASSUME NEW f \in Files, LoadFile(how, f)
        PROVE  Rooted(stack') /\ m <= MaxDepth + 1
    <3>1. stack' = Append(Caller, Unit("file", f, how, "compile"))
      BY <2>6 DEF LoadFile
    <3>2. /\ Unit("file", f, how, "compile") \in Units
          /\ Unit("file", f, how, "compile").kind \in Nested
      BY LoadedUnits DEF Hows
    <3>3. Rooted(stack') /\ m = n + 1
      BY <1>5, <3>1, <3>2, RootedAppend DEF n, m, b
    <3> QED BY <1>1, <1>2, <2>2, <3>3
  <2> QED BY <2>1, <2>3, <2>4, <2>5, <2>6
<1> QED
  BY <1>8, <1>9, <1>10, <1>11, <1>12, <1>14, <1>15, <1>16, <1>17, <1>18 DEF Code

\* User code leaves it in place.
LEMMA CodeBottom ==
    ASSUME StackOK, BottomOK, Code
    PROVE  StackOK' /\ BottomOK' /\ stack # <<>> /\ stack' # <<>>
<1>1. Rooted(stack') /\ Len(stack') <= MaxDepth + 1 /\ stack # <<>> /\ at' = at
  BY CodeStack, CodeFrame
<1>2. stack[1].kind \in Bottoms(at)
  BY <1>1 DEF BottomOK
<1>3. stack'[1].kind \in Bottoms(at')
  BY <1>1, <1>2 DEF Rooted
<1> QED BY <1>1, <1>3 DEF StackOK, BottomOK, Rooted

\* run() has started a piece of code, or none is running.
LEMMA OneUnit ==
    ASSUME NEW u \in Units, stack' = <<u>>, u.kind \in Bottoms(at')
    PROVE  StackOK' /\ BottomOK'
<1>1. MaxDepth \in Nat
  BY PhasesAssumption
<1>2. stack' \in Seq(Units) /\ Len(stack') = 1 /\ stack'[1] = u
  OBVIOUS
<1>3. Len(stack') <= MaxDepth + 1
  BY <1>1, <1>2
<1>4. \A i \in 2 .. Len(stack') : FALSE
  BY <1>2
<1> QED BY <1>2, <1>3, <1>4 DEF StackOK, BottomOK

\* An empty stack needs no root.
LEMMA NoUnit ==
    ASSUME stack' = <<>>
    PROVE  StackOK' /\ BottomOK'
<1>1. MaxDepth \in Nat
  BY PhasesAssumption
<1>2. stack' \in Seq(Units) /\ Len(stack') = 0
  BY EmptySeq
<1> QED BY <1>1, <1>2 DEF StackOK, BottomOK

\* The steps of run() put at most one unit on the stack, of the phase it has reached.
LEMMA DriverBottom ==
    ASSUME Driver
    PROVE  StackOK' /\ BottomOK'
<1>1. /\ \A k \in {"begin", "check", "init", "main", "end", "destroy", "handler"} :
            Block(k) \in Units /\ Block(k).kind = k
      /\ Unit("use", Absent, "", "compile") \in Units
      /\ Unit("use", Absent, "", "compile").kind = "use"
  BY DEF Units, Block, Unit
<1>2. CASE TopBegin
  <2>1. stack' = <<Block("begin")>> /\ at' \in {"compile", "parse"}
    BY <1>2 DEF TopBegin, Enter
  <2>2. "begin" \in Bottoms(at')
    BY <2>1 DEF Bottoms
  <2> QED BY <1>1, <2>1, <2>2, OneUnit
<1>3. CASE TopUse
  <2>1. stack' = <<Unit("use", Absent, "", "compile")>> /\ at' = "compile"
    BY <1>3 DEF TopUse, Enter
  <2>2. "use" \in Bottoms(at')
    BY <2>1 DEF Bottoms
  <2> QED BY <1>1, <2>1, <2>2, OneUnit
<1>4. CASE BlockBegins
  <2>1. /\ stack' = <<Block(UnitOf(at))>> /\ at' = at /\ at \in Phase
    BY <1>4 DEF BlockBegins, Enter, Phase
  <2>2. UnitOf(at) \in Bottoms(at') /\ UnitOf(at) \in {"check", "init", "end"}
    BY <2>1 DEF Bottoms, UnitOf, Phase
  <2> QED BY <1>1, <2>1, <2>2, OneUnit
<1>5. CASE PhaseEnds
  <2>1. CASE stack' = <<>>
    BY <2>1, NoUnit
  <2>2. CASE stack' # <<>>
    <3>1. stack' = <<Block("main")>> /\ at' = "RUN"
      BY <1>5, <2>2 DEF PhaseEnds, Enter, Idle
    <3>2. "main" \in Bottoms(at')
      BY <3>1 DEF Bottoms
    <3> QED BY <1>1, <3>1, <3>2, OneUnit
  <2> QED BY <2>1, <2>2
<1>6. CASE Destroy
  <2>1. stack' = <<Block("destroy")>> /\ at' \in {"lexical", "DESTRUCT"}
    BY <1>6 DEF Destroy, Enter
  <2>2. "destroy" \in Bottoms(at')
    BY <2>1 DEF Bottoms
  <2> QED BY <1>1, <2>1, <2>2, OneUnit
<1>7. CASE ParseHandler
  <2>1. stack' = <<Block("handler")>> /\ at' = "handler"
    BY <1>7 DEF ParseHandler, Enter
  <2>2. "handler" \in Bottoms(at')
    BY <2>1 DEF Bottoms
  <2> QED BY <1>1, <2>1, <2>2, OneUnit
<1>8. CASE TopRegister \/ CompileFails \/ EagerEnds \/ CompileEnds \/ BlockEnds \/ MainEnds
  <2>1. stack' = <<>>
    BY <1>8 DEF TopRegister, Registers, CompileFails, EagerEnds, CompileEnds, BlockEnds,
                BlockEndsWith, MainEnds, Idle
  <2> QED BY <2>1, NoUnit
<1>9. CASE DestroyEnds \/ EndsDone \/ RunReturns \/ ParseBeginEnds \/ ParseFails
  <2>1. stack' = <<>>
    BY <1>9 DEF DestroyEnds, DestroyParks, EndsDone, RunReturns, ReturnWith, ParseBeginEnds,
                ParseFails, Idle
  <2> QED BY <2>1, NoUnit
<1> QED
  BY <1>2, <1>3, <1>4, <1>5, <1>6, <1>7, <1>8, <1>9 DEF Driver

\* The only other step is that of a program that has exited.
LEMMA Split ==
    ASSUME [Next]_vars
    PROVE  Driver \/ Code \/ UNCHANGED vars
BY DEF Next, Terminated

-----------------------------------------------------------------------------
(* Types of the registers.                                                 *)

FlowOK == flow \in Flows /\ pending \in {None} \cup Raised
CodesOK == /\ query \in Statuses /\ errno \in Errnos
           /\ exitCode \in Nat /\ setAfter \in Nat \cup {NoCode} /\ verdict \in Nat \cup {NoCode}
SwitchesOK == /\ at \in Places /\ errsv \in BOOLEAN /\ lateExit \in BOOLEAN
              /\ fuel \in 0 .. MaxFuel
              /\ cause \in {"none", "skip", "abort", "compile", "parse", "end", "exit",
                            "die", "jump"}
LoadingOK == required \subseteq Files /\ inc \subseteq Files /\ loads \in [Files -> Nat]

\* What can be raised, and what an exit carries.
LEMMA FlowFacts ==
    /\ Running \in Flows /\ None \in Flows /\ Die \in Flows /\ Jump \in Flows
    /\ Return(TRUE) \in Flows /\ Return(FALSE) \in Flows
    /\ Raised \subseteq Flows /\ Die \in Raised
    /\ \A c \in Codes \cup {2} : Exit(c) \in Raised
BY DEF Flows, Raised

\* The Flow of an exit carries a code.
LEMMA ExitFacts ==
    ASSUME NEW f \in Flows, f.tag = "Exit"
    PROVE  f \in Raised /\ f.code \in Nat
<1>1. CASE f \in {Running, None, Die, Jump, Return(TRUE), Return(FALSE)}
  BY <1>1 DEF Running, None, Die, Jump, Return
<1>2. ASSUME NEW c \in Codes \cup {2}, f = Exit(c)
      PROVE  f \in Raised /\ f.code \in Nat
  <2>1. c \in Nat /\ f.code = c
    BY <1>2, PhasesAssumption DEF Exit
  <2> QED BY <1>2, <2>1, FlowFacts
<1>3. CASE f = Die
  BY <1>1, <1>3
<1> QED BY <1>1, <1>2, <1>3 DEF Flows, Raised

\* Every step keeps the types of the Flow that is on its way and of the parked one;
LEMMA FlowStep ==
    ASSUME FlowOK, [Next]_vars
    PROVE  FlowOK'
<1> DEFINE P == {None} \cup Raised
<1> HIDE DEF P
<1>1. /\ Running \in Flows /\ None \in Flows /\ Die \in Flows /\ Jump \in Flows
      /\ Return(TRUE) \in Flows /\ Return(FALSE) \in Flows
      /\ None \in P /\ Die \in P /\ \A c \in Codes \cup {2} : Exit(c) \in P /\ Exit(c) \in Flows
      /\ \A f \in P : f \in Flows
      /\ \A f \in Raised : f \in P
  BY FlowFacts DEF P
<1>2. flow \in Flows /\ pending \in P
  BY DEF FlowOK, P
<1> SUFFICES flow' \in Flows /\ pending' \in P
  BY DEF FlowOK, P
<1> USE DEF interp
<1>3. ASSUME NEW rest, NEW how, NEW undef, NEW pend \in P, NEW err,
             Resume(rest, how, undef, pend, err)
      PROVE  flow' \in Flows /\ pending' \in P
  BY <1>1, <1>3, ResumeFacts
<1>4. CASE TopBegin \/ TopUse \/ TopRegister \/ Destroy \/ ParseHandler
  BY <1>1, <1>2, <1>4 DEF TopBegin, TopUse, TopRegister, Registers, Destroy, ParseHandler, Enter
<1>5. CASE CompileFails \/ CompileEnds \/ PhaseEnds \/ EndsDone \/ RunReturns
  BY <1>1, <1>2, <1>5 DEF CompileFails, CompileEnds, PhaseEnds, Enter, EndsDone, RunReturns,
                          ReturnWith
<1>6. CASE EagerEnds \/ MainEnds
  BY <1>1, <1>2, <1>6 DEF EagerEnds, MainEnds
<1>7. CASE BlockBegins \/ BlockEnds
  BY <1>1, <1>2, <1>7 DEF BlockBegins, BlockEnds, BlockEndsWith, Enter
<1>8. CASE DestroyEnds
  BY <1>1, <1>2, <1>8 DEF DestroyEnds, DestroyParks
<1>9. CASE ParseBeginEnds \/ ParseFails
  BY <1>1, <1>2, <1>9 DEF ParseBeginEnds, ParseFails
<1>10. CASE SetRegister \/ StatementRegisters \/ SetInc
  BY <1>1, <1>2, <1>10 DEF SetRegister, StatementRegisters, Registers, SetInc
<1>11. CASE Park \/ TakePending
  BY <1>1, <1>2, <1>11 DEF Park, TakePending, Takes
<1>12. CASE StatementEnds
  <2>1. pending' = pending
    BY <1>12 DEF StatementEnds
  <2>2. CASE flow' = None
    BY <1>1, <1>2, <2>1, <2>2
  <2>3. CASE flow' \in {Die, Jump, Return(TRUE), Return(FALSE)} \cup {Exit(c) : c \in Codes}
    BY <1>1, <1>2, <2>1, <2>3
  <2> QED BY <1>12, <2>2, <2>3 DEF StatementEnds
<1>13. CASE Load
  <2>1. PICK how \in {"stmt", "use", "expr"} :
            LoadAbsent(how) \/ \E f \in Files : LoadAgain(how, f) \/ LoadFile(how, f)
    BY <1>13 DEF Load
  <2>2. CASE LoadAbsent(how)
    <3>1. CASE flow' = NotFound /\ UNCHANGED pending
      BY <1>1, <1>2, <3>1 DEF NotFound
    <3>2. CASE Resume(Caller, how, TRUE, pending, TRUE)
      BY <1>2, <1>3, <3>2
    <3> QED BY <2>2, <3>1, <3>2 DEF LoadAbsent
  <2>3. ASSUME NEW f \in Files, LoadAgain(how, f)
        PROVE  flow' \in Flows /\ pending' \in P
    <3>1. CASE Continue(Caller, how) /\ UNCHANGED pending
      BY <1>1, <1>2, <3>1 DEF Continue
    <3>2. CASE Resume(Caller, how, FALSE, pending, errsv)
      BY <1>2, <1>3, <3>2
    <3> QED BY <2>3, <3>1, <3>2 DEF LoadAgain
  <2>4. ASSUME NEW f \in Files, LoadFile(how, f)
        PROVE  flow' \in Flows /\ pending' \in P
    BY <1>1, <1>2, <2>4 DEF LoadFile
  <2> QED BY <2>1, <2>2, <2>3, <2>4
<1>14. CASE DoFile \/ NestedBegin \/ EvalString
  BY <1>1, <1>2, <1>14 DEF DoFile, NestedBegin, EvalString, Push
<1>15. CASE BeginsDone \/ NestedBeginEnds \/ StringEnds \/ Ignored
  BY <1>1, <1>2, <1>15 DEF BeginsDone, NestedBeginEnds, StringEnds, Ignored
<1>16. CASE FileEnds
  <2> DEFINE pend == IF flow.tag = "Exit" THEN flow ELSE pending
  <2>1. pend \in P
    BY <1>1, <1>2, ExitFacts
  <2>2. Resume(Below, Top.how, flow \in Raised \/ flow = Return(FALSE), pend, errsv')
    BY <1>16 DEF FileEnds
  <2> HIDE DEF pend
  <2> QED BY <1>3, <2>1, <2>2
<1>17. CASE ImportEnds
  <2>1. /\ flow' \in {Running, flow, pending}
        /\ pending' = None
    BY <1>17 DEF ImportEnds
  <2> QED BY <1>1, <1>2, <2>1
<1>18. CASE UseOver
  BY <1>1, <1>2, <1>18 DEF UseOver
<1>19. CASE UNCHANGED vars
  BY <1>2, <1>19 DEF vars
<1> QED
  BY Split, <1>4, <1>5, <1>6, <1>7, <1>8, <1>9, <1>10, <1>11, <1>12, <1>13, <1>14, <1>15,
     <1>16, <1>17, <1>18, <1>19 DEF Driver, Code

\* Two places in which run() divides a status.
LEMMA StatusFacts ==
    ASSUME NEW q \in Nat, NEW e \in Nat
    PROVE  e % 256 \in Nat /\ (q \div 256) \in Nat /\ ((q \div 256) % 256) \in Nat
OBVIOUS

\* those of `$?`, `$!` and exit_code,
LEMMA CodesStep ==
    ASSUME CodesOK, FlowOK, [Next]_vars
    PROVE  CodesOK'
<1>1. /\ query \in Nat /\ errno \in Nat /\ exitCode \in Nat
      /\ DieStatus \in Nat /\ StatusOf(query) \in Nat
  <2>1. query \in Nat /\ errno \in Nat /\ exitCode \in Nat
    BY PhasesAssumption DEF CodesOK
  <2>2. /\ errno % 256 \in Nat /\ query % 256 \in Nat
        /\ (query \div 256) \in Nat /\ ((query \div 256) % 256) \in Nat
    BY <2>1, StatusFacts
  <2> QED BY <2>1, <2>2 DEF DieStatus, StatusOf
<1>2. /\ flow.tag = "Exit" => flow.code \in Nat
      /\ pending.tag = "Exit" => pending.code \in Nat
  BY ExitFacts, FlowFacts DEF FlowOK
<1>3. 0 \in Nat /\ 2 \in Nat /\ 255 \in Nat
  OBVIOUS
<1> USE DEF CodesOK, interp, history, Ended
<1>4. CASE TopBegin \/ TopUse \/ TopRegister \/ Destroy \/ ParseHandler \/ CompileEnds \/ PhaseEnds
  BY <1>4 DEF TopBegin, TopUse, TopRegister, Registers, Destroy, ParseHandler, CompileEnds, PhaseEnds
<1>5. CASE CompileFails
  BY <1>3, <1>5 DEF CompileFails
<1>6. CASE EagerEnds
  BY <1>2, <1>3, <1>6 DEF EagerEnds
<1>7. CASE MainEnds
  BY <1>1, <1>2, <1>3, <1>7 DEF MainEnds
<1>8. CASE BlockBegins \/ BlockEnds \/ DestroyEnds
  BY <1>8 DEF BlockBegins, BlockEnds, BlockEndsWith, DestroyEnds, DestroyParks
<1>9. CASE EndsDone
  <2>1. exitCode' \in {exitCode, setAfter} /\ (setAfter = NoCode => exitCode' = exitCode)
    BY <1>9 DEF EndsDone
  <2>2. exitCode' \in Nat
    BY <2>1
  <2> QED BY <1>9, <2>2 DEF EndsDone
<1>10. CASE RunReturns
  <2>1. exitCode' \in {exitCode, StatusOf(query)}
    BY <1>10 DEF RunReturns, ReturnWith
  <2>2. exitCode' \in Nat
    BY <1>1, <2>1
  <2> QED BY <1>10, <2>2 DEF RunReturns, ReturnWith
<1>11. CASE ParseBeginEnds
  BY <1>2, <1>11 DEF ParseBeginEnds
<1>12. CASE ParseFails
  <2>1. PICK code \in Nat : exitCode' = code /\ verdict' = code
    BY <1>2, <1>3, <1>12 DEF ParseFails
  <2> QED BY <1>12, <2>1 DEF ParseFails
<1>13. CASE Code
  <2>1. exitCode' \in Nat /\ UNCHANGED <<setAfter, verdict>>
    BY <1>2, <1>13, CodeFrame
  <2>2. query' \in Statuses /\ errno' \in Errnos
    <3> USE DEF Load, LoadAbsent, LoadAgain, LoadFile
    <3>1. CASE SetRegister
      BY <3>1 DEF SetRegister
    <3>2. CASE DoFile
      BY <3>2 DEF DoFile
    <3>3. CASE StatementRegisters \/ SetInc \/ Park \/ TakePending \/ StatementEnds
      BY <3>3 DEF StatementRegisters, Registers, SetInc, Park, TakePending, Takes, StatementEnds
    <3>4. CASE Load \/ NestedBegin \/ BeginsDone \/ NestedBeginEnds \/ FileEnds
      BY <3>4 DEF NestedBegin, BeginsDone, NestedBeginEnds, FileEnds
    <3>5. CASE ImportEnds \/ UseOver \/ EvalString \/ StringEnds \/ Ignored
      BY <3>5 DEF ImportEnds, UseOver, EvalString, StringEnds, Ignored
    <3> QED BY <1>13, <3>1, <3>2, <3>3, <3>4, <3>5 DEF Code
  <2> QED BY <2>1, <2>2
<1>14. CASE UNCHANGED vars
  BY <1>14 DEF vars
<1> QED
  BY Split, <1>4, <1>5, <1>6, <1>7, <1>8, <1>9, <1>10, <1>11, <1>12, <1>13, <1>14 DEF Driver

\* and those of the switches.
LEMMA SwitchesStep ==
    ASSUME SwitchesOK, [Next]_vars
    PROVE  SwitchesOK'
<1>1. MaxFuel \in Nat
  BY PhasesAssumption
<1>2. ASSUME Spend PROVE fuel' \in 0 .. MaxFuel
  BY <1>1, <1>2 DEF Spend, SwitchesOK
<1>3. CASE Driver
  <2>1. UNCHANGED <<errsv, lateExit>>
    BY <1>3, DriverFrame
  <2>2. at' \in Places /\ fuel' \in 0 .. MaxFuel /\ cause' \in
          {"none", "skip", "abort", "compile", "parse", "end", "exit", "die", "jump"}
    <3> USE DEF SwitchesOK, history, Ended, Places
    <3>1. CASE TopBegin \/ TopUse \/ TopRegister \/ Destroy
      BY <1>2, <3>1 DEF TopBegin, TopUse, TopRegister, Registers, Destroy
    <3>2. CASE CompileFails \/ EagerEnds \/ CompileEnds \/ PhaseEnds
      BY <3>2 DEF CompileFails, EagerEnds, CompileEnds, PhaseEnds, StartEnds
    <3>3. CASE BlockBegins \/ BlockEnds \/ MainEnds \/ DestroyEnds
      BY <3>3 DEF BlockBegins, BlockEnds, BlockEndsWith, MainEnds, DestroyEnds, DestroyParks
    <3>4. CASE EndsDone \/ RunReturns
      BY <3>4 DEF EndsDone, RunReturns, ReturnWith
    <3>5. CASE ParseBeginEnds \/ ParseHandler \/ ParseFails
      BY <3>5 DEF ParseBeginEnds, ParseHandler, ParseFails
    <3> QED BY <1>3, <3>1, <3>2, <3>3, <3>4, <3>5 DEF Driver
  <2> QED BY <2>1, <2>2 DEF SwitchesOK
<1>4. CASE Code
  <2>1. UNCHANGED <<at, cause>> /\ lateExit' \in BOOLEAN
    BY <1>4, CodeFrame DEF SwitchesOK
  <2>2. fuel' \in 0 .. MaxFuel
    <3>0. fuel \in 0 .. MaxFuel
      BY DEF SwitchesOK
    <3>1. CASE SetRegister \/ StatementRegisters \/ SetInc \/ Park \/ TakePending \/ StatementEnds
      BY <1>2, <3>0, <3>1 DEF SetRegister, StatementRegisters, Registers, SetInc, Park,
                              TakePending, Takes, StatementEnds
    <3>2. CASE Load \/ DoFile
      BY <1>2, <3>0, <3>2 DEF Load, LoadAbsent, LoadAgain, LoadFile, DoFile, MayLoad
    <3>3. CASE NestedBegin \/ BeginsDone \/ NestedBeginEnds \/ FileEnds \/ ImportEnds \/ UseOver
      BY <1>2, <3>0, <3>3 DEF NestedBegin, BeginsDone, NestedBeginEnds, FileEnds, ImportEnds, UseOver
    <3>4. CASE EvalString \/ StringEnds \/ Ignored
      BY <1>2, <3>0, <3>4 DEF EvalString, StringEnds, Ignored
    <3> QED BY <1>4, <3>1, <3>2, <3>3, <3>4 DEF Code
  <2>3. errsv' \in BOOLEAN
    <3>0. errsv \in BOOLEAN
      BY DEF SwitchesOK
    <3> USE DEF interp
    <3>1. CASE SetRegister \/ StatementRegisters \/ SetInc \/ Park \/ TakePending \/ StatementEnds
      BY <3>0, <3>1 DEF SetRegister, StatementRegisters, Registers, SetInc, Park, TakePending,
                        Takes, StatementEnds
    <3>2. CASE Load \/ DoFile
      BY <3>0, <3>2 DEF Load, LoadAbsent, LoadAgain, LoadFile, DoFile
    <3>3. CASE NestedBegin \/ BeginsDone \/ NestedBeginEnds \/ ImportEnds \/ UseOver
      BY <3>0, <3>3 DEF NestedBegin, BeginsDone, NestedBeginEnds, ImportEnds, UseOver
    <3>4. CASE FileEnds
      BY <3>0, <3>4 DEF FileEnds
    <3>5. CASE EvalString \/ StringEnds \/ Ignored
      BY <3>0, <3>5 DEF EvalString, StringEnds, Ignored
    <3> QED BY <1>4, <3>1, <3>2, <3>3, <3>4, <3>5 DEF Code
  <2> QED BY <2>1, <2>2, <2>3 DEF SwitchesOK
<1>5. CASE UNCHANGED vars
  BY <1>5 DEF vars, interp, history, SwitchesOK
<1> QED BY Split, <1>3, <1>4, <1>5

-----------------------------------------------------------------------------
(* Files.                                                                  *)

\* Only do_require counts a load, of a file that is not marked, and it marks it.
LEMMA LoadStep ==
    ASSUME LoadingOK, LoadInv, [Next]_vars
    PROVE  LoadingOK' /\ LoadInv'
<1>1. ASSUME UNCHANGED <<required, loads>>
      PROVE  required' \subseteq Files /\ loads' \in [Files -> Nat] /\ LoadInv'
  BY <1>1 DEF LoadingOK, LoadInv
<1>2. CASE Driver
  BY <1>1, <1>2, DriverFrame DEF loaded, LoadingOK
<1>3. CASE Code
  <2>1. ASSUME NEW how \in {"stmt", "use", "expr"}, NEW f \in Files, LoadAgain(how, f)
        PROVE  required' \subseteq Files /\ loads' \in [Files -> Nat] /\ LoadInv'
    BY <2>1 DEF LoadAgain, LoadingOK, LoadInv
  <2>2. ASSUME NEW how \in {"stmt", "use", "expr"}, NEW f \in Files, LoadFile(how, f)
        PROVE  required' \subseteq Files /\ loads' \in [Files -> Nat] /\ LoadInv'
    <3>1. /\ required' = required \cup {f} /\ f \notin required
          /\ loads' = [loads EXCEPT ![f] = @ + 1]
      BY <2>2 DEF LoadFile, MarkLoaded
    <3>2. loads[f] = 0
      BY <3>1 DEF LoadingOK, LoadInv
    <3>3. \A g \in Files : loads'[g] = IF g = f THEN 1 ELSE loads[g]
      BY <3>1, <3>2 DEF LoadingOK
    <3>4. LoadInv'
      BY <3>1, <3>3 DEF LoadInv
    <3> QED BY <3>1, <3>2, <3>4 DEF LoadingOK
  <2>3. inc' \subseteq Files
    <3>0. inc \subseteq Files
      BY DEF LoadingOK
    <3> USE DEF loaded
    <3>1. CASE SetRegister \/ StatementRegisters \/ Park \/ TakePending \/ StatementEnds
      BY <3>0, <3>1 DEF SetRegister, StatementRegisters, Registers, Park, TakePending, Takes,
                        StatementEnds
    <3>2. CASE SetInc
      BY <3>0, <3>2 DEF SetInc
    <3>3. CASE Load
      BY <3>0, <3>3 DEF Load, LoadAbsent, LoadAgain, LoadFile, MarkLoaded
    <3>4. CASE DoFile \/ NestedBegin \/ BeginsDone \/ NestedBeginEnds \/ FileEnds
      BY <3>0, <3>4 DEF DoFile, NestedBegin, BeginsDone, NestedBeginEnds, FileEnds
    <3>5. CASE ImportEnds \/ UseOver \/ EvalString \/ StringEnds \/ Ignored
      BY <3>0, <3>5 DEF ImportEnds, UseOver, EvalString, StringEnds, Ignored
    <3> QED BY <1>3, <3>1, <3>2, <3>3, <3>4, <3>5 DEF Code
  <2>4. required' \subseteq Files /\ loads' \in [Files -> Nat] /\ LoadInv'
    BY <1>1, <1>3, <2>1, <2>2, CodeFrame
  <2> QED BY <2>3, <2>4 DEF LoadingOK
<1>4. CASE UNCHANGED vars
  BY <1>1, <1>4 DEF vars, loaded, LoadingOK
<1> QED BY Split, <1>2, <1>3, <1>4

-----------------------------------------------------------------------------
(* The exit status.                                                        *)

\* Until run() returns, user code may change the exit code only by an exit in a
\* file; from then on no user code runs.
LEMMA StatusStep ==
    ASSUME StackOK, CodesOK, FlowOK, BottomOK, StatusInv, [Next]_vars
    PROVE  StatusInv'
<1>1. /\ flow.tag = "Exit" => flow.code # NoCode
      /\ pending.tag = "Exit" => pending.code # NoCode
      /\ exitCode # NoCode
  <2>1. /\ flow.tag = "Exit" => flow.code \in Nat
        /\ pending.tag = "Exit" => pending.code \in Nat
    BY ExitFacts, FlowFacts DEF FlowOK
  <2> QED BY <2>1 DEF CodesOK, NoCode
<1>2. 0 # NoCode /\ 2 # NoCode /\ 255 # NoCode
  BY DEF NoCode
<1>3. DieStatus # NoCode
  <2>1. query \in Nat /\ errno \in Nat
    BY PhasesAssumption DEF CodesOK
  <2>2. DieStatus \in Nat
    BY <2>1, StatusFacts DEF DieStatus
  <2> QED BY <2>2 DEF NoCode
<1> USE DEF StatusInv, StatusKept, history, interp, Ended
<1>4. CASE TopBegin \/ TopUse \/ TopRegister \/ CompileEnds
  BY <1>4 DEF TopBegin, TopUse, TopRegister, Registers, CompileEnds, Idle
<1>5. CASE CompileFails
  BY <1>2, <1>5 DEF CompileFails, StartEnds
<1>6. CASE EagerEnds
  BY <1>1, <1>2, <1>6 DEF EagerEnds, StartEnds
<1>7. CASE BlockBegins \/ BlockEnds \/ Destroy \/ DestroyEnds
  BY <1>7 DEF BlockBegins, BlockEnds, BlockEndsWith, Destroy, DestroyEnds, DestroyParks
<1>8. CASE PhaseEnds
  BY <1>8 DEF PhaseEnds, StartEnds
<1>9. CASE MainEnds
  <2>1. at = "RUN"
    <3>1. "main" \in Bottoms(at)
      BY <1>9, BottomRuns DEF MainEnds, Nested
    <3> QED BY <3>1 DEF Bottoms
  <2> QED BY <1>1, <1>2, <1>3, <1>9, <2>1 DEF MainEnds
<1>10. CASE EndsDone
  BY <1>10 DEF EndsDone
<1>11. CASE RunReturns
  BY <1>11 DEF RunReturns, ReturnWith
<1>12. CASE ParseBeginEnds
  BY <1>1, <1>12 DEF ParseBeginEnds
<1>13. CASE ParseHandler
  BY <1>13 DEF ParseHandler
<1>14. CASE ParseFails
  <2>1. exitCode' = verdict' /\ at' = "exited"
    BY <1>14 DEF ParseFails
  <2> QED BY <2>1
<1>15. CASE Code
  <2>1. at # "exited"
    BY <1>15, CodeFrame DEF BottomOK, Bottoms
  <2> QED BY <1>15, <2>1, CodeFrame
<1>16. CASE UNCHANGED vars
  BY <1>16 DEF vars
<1> QED
  BY Split, <1>4, <1>5, <1>6, <1>7, <1>8, <1>9, <1>10, <1>11, <1>12, <1>13, <1>14, <1>15,
     <1>16 DEF Driver

-----------------------------------------------------------------------------
(* The order of the blocks.                                                *)

Blocks == 1 .. MaxBlocks
ListsOK == /\ ends \in Seq(Blocks) /\ checks \in Seq(Blocks) /\ inits \in Seq(Blocks)
           /\ todo \in Seq(Blocks) /\ ran \in Seq(Blocks)

\* The elements of a list of blocks are blocks.
LEMMA ElementsOfLists ==
    ASSUME NEW s \in Seq(Blocks)
    PROVE  Len(s) \in Nat /\ \A i \in 1 .. Len(s) : s[i] \in Blocks /\ s[i] \in Nat
<1>1. Len(s) \in Nat /\ \A i \in 1 .. Len(s) : s[i] \in Blocks
  BY ElementOfSeq
<1> QED BY <1>1, PhasesAssumption DEF Blocks

\* A block at the end of its list.
LEMMA AppendHolds ==
    ASSUME NEW s \in Seq(Blocks), NEW n \in Blocks
    PROVE  /\ \A b : Holds(Append(s, n), b) <=> Holds(s, b) \/ b = n
           /\ Ascending(s) /\ (\A b \in Blocks : Holds(s, b) => b < n) => Ascending(Append(s, n))
<1> DEFINE t == Append(s, n)
           m == Len(s)
<1>1. m \in Nat /\ (\A i \in 1 .. m : s[i] \in Blocks /\ s[i] \in Nat) /\ n \in Nat
  BY ElementsOfLists, PhasesAssumption DEF Blocks
<1>2. Len(t) = m + 1 /\ (\A i \in 1 .. m : t[i] = s[i]) /\ t[m + 1] = n
  BY AppendToSeq
<1>3. Holds(s, n) \/ ~ Holds(s, n)
  OBVIOUS
<1>4. \A b : Holds(t, b) <=> Holds(s, b) \/ b = n
  <2> HIDE DEF t, m
  <2>1. 1 .. m + 1 = 1 .. m \cup {m + 1}
    BY <1>1
  <2>2. \A b : Holds(t, b) <=> \E i \in 1 .. m \cup {m + 1} : t[i] = b
    BY <1>2, <2>1 DEF Holds
  <2>3. \A b : Holds(s, b) <=> \E i \in 1 .. m : s[i] = b
    BY DEF Holds, m
  <2> QED BY <1>2, <2>2, <2>3
<1>5. ASSUME Ascending(s), \A b \in Blocks : Holds(s, b) => b < n
      PROVE  Ascending(t)
  <2>1. \A i \in 1 .. m : Holds(s, s[i])
    BY DEF Holds
  <2>2. \A i \in 1 .. m : s[i] < n
    BY <1>1, <1>5, <2>1
  <2>3. \A i, j \in 1 .. m : i < j => s[i] < s[j]
    BY <1>5 DEF Ascending
  <2> HIDE DEF t, m
  <2>4. \A i, j \in 1 .. m + 1 : i < j => i \in 1 .. m /\ (j \in 1 .. m \/ j = m + 1)
    BY <1>1
  <2>5. \A i, j \in 1 .. m + 1 : i < j => t[i] < t[j]
    BY <1>2, <2>2, <2>3, <2>4
  <2> QED BY <1>2, <2>5 DEF Ascending
<1> QED BY <1>4, <1>5

\* Registration: the new block is on one list, the other blocks where they were.
LEMMA RegistersFacts ==
    ASSUME ListsOK, ListsInv, Registers
    PROVE  /\ ends' \in Seq(Blocks) /\ checks' \in Seq(Blocks) /\ inits' \in Seq(Blocks)
           /\ ListsInv'
           /\ NewBlock' = NewBlock + 1 /\ NewBlock \in Nat
           /\ \A b \in Blocks : b < NewBlock =>
                 /\ Holds(ends, b)' <=> Holds(ends, b)
                 /\ Holds(checks, b)' <=> Holds(checks, b)
                 /\ Holds(inits, b)' <=> Holds(inits, b)
<1> DEFINE n == NewBlock
           x == Len(ends)
           y == Len(checks)
           z == Len(inits)
<1>1. x \in Nat /\ y \in Nat /\ z \in Nat /\ n = x + y + z + 1
  BY ElementsOfLists DEF ListsOK, NewBlock
<1>2. n <= MaxBlocks
  BY DEF Registers
<1>3. n \in Blocks /\ n \in Nat
  <2> HIDE DEF x, y, z, n
  <2> QED BY <1>1, <1>2, PhasesAssumption DEF Blocks
<1>4. \A b \in Blocks : Holds(checks, b) \/ Holds(ends, b) \/ Holds(inits, b) => b < n
  BY DEF ListsInv, Blocks
<1>5. ~ Holds(checks, n) /\ ~ Holds(ends, n) /\ ~ Holds(inits, n)
  <2>1. ~ (n < n)
    BY <1>3
  <2> HIDE DEF n
  <2> QED BY <1>3, <1>4, <2>1
<1>6. n' = n + 1
  <2>1. CASE ends' = Append(ends, n) /\ UNCHANGED <<checks, inits>>
    <3>1. Len(ends') = x + 1 /\ Len(checks') = y /\ Len(inits') = z
      BY <1>3, <2>1, AppendToSeq DEF ListsOK
    <3>2. n' = (x + 1) + y + z + 1
      BY <3>1 DEF NewBlock
    <3> HIDE DEF x, y, z, n
    <3> QED BY <1>1, <3>2
  <2>2. CASE checks' = Append(checks, n) /\ UNCHANGED <<ends, inits>>
    <3>1. Len(ends') = x /\ Len(checks') = y + 1 /\ Len(inits') = z
      BY <1>3, <2>2, AppendToSeq DEF ListsOK
    <3>2. n' = x + (y + 1) + z + 1
      BY <3>1 DEF NewBlock
    <3> HIDE DEF x, y, z, n
    <3> QED BY <1>1, <3>2
  <2>3. CASE inits' = Append(inits, n) /\ UNCHANGED <<ends, checks>>
    <3>1. Len(ends') = x /\ Len(checks') = y /\ Len(inits') = z + 1
      BY <1>3, <2>3, AppendToSeq DEF ListsOK
    <3>2. n' = x + y + (z + 1) + 1
      BY <3>1 DEF NewBlock
    <3> HIDE DEF x, y, z, n
    <3> QED BY <1>1, <3>2
  <2> QED BY <2>1, <2>2, <2>3 DEF Registers
<1> DEFINE Grows(old, new) ==
               /\ new \in Seq(Blocks) /\ Ascending(new)
               /\ \A b : Holds(new, b) <=> Holds(old, b) \/ b = n
           Stays(old, new) ==
               /\ new \in Seq(Blocks) /\ Ascending(new)
               /\ \A b : Holds(new, b) <=> Holds(old, b)
<1>7. \/ Grows(ends, ends') /\ Stays(checks, checks') /\ Stays(inits, inits')
      \/ Grows(checks, checks') /\ Stays(ends, ends') /\ Stays(inits, inits')
      \/ Grows(inits, inits') /\ Stays(ends, ends') /\ Stays(checks, checks')
  <2>1. /\ Ascending(ends) /\ Ascending(checks) /\ Ascending(inits)
        /\ ends \in Seq(Blocks) /\ checks \in Seq(Blocks) /\ inits \in Seq(Blocks)
    BY DEF ListsInv, ListsOK
  <2>2. ASSUME NEW s, s \in {ends, checks, inits}
        PROVE  Grows(s, Append(s, n)) /\ Stays(s, s)
    <3>1. s \in Seq(Blocks) /\ Ascending(s) /\ \A b \in Blocks : Holds(s, b) => b < n
      BY <1>4, <2>1, <2>2
    <3> HIDE DEF n
    <3>2. Append(s, n) \in Seq(Blocks)
      BY <1>3, <3>1, AppendToSeq
    <3> QED BY <1>3, <3>1, <3>2, AppendHolds
  <2> HIDE DEF Grows, Stays
  <2> QED BY <2>2 DEF Registers
<1> HIDE DEF n
<1>8. \A b \in Blocks : b < n => b # n
  <2> TAKE b \in Blocks
  <2>1. b \in Nat
    BY PhasesAssumption DEF Blocks
  <2> QED BY <1>3, <2>1
<1>9. /\ Ascending(checks)' /\ Ascending(ends)' /\ Ascending(inits)'
      /\ ends' \in Seq(Blocks) /\ checks' \in Seq(Blocks) /\ inits' \in Seq(Blocks)
      /\ \A b \in Blocks : b # n =>
                 /\ Holds(ends, b)' <=> Holds(ends, b)
                 /\ Holds(checks, b)' <=> Holds(checks, b)
                 /\ Holds(inits, b)' <=> Holds(inits, b)
  BY <1>7
<1>10. \A b \in Blocks :
          /\ (Holds(checks, b) \/ Holds(ends, b) \/ Holds(inits, b))' => b < n \/ b = n
          /\ ~ (Holds(checks, b) /\ Holds(ends, b))'
          /\ ~ (Holds(checks, b) /\ Holds(inits, b))'
          /\ ~ (Holds(ends, b) /\ Holds(inits, b))'
  <2> TAKE b \in Blocks
  <2>1. /\ ~ (Holds(checks, b) /\ Holds(ends, b))
        /\ ~ (Holds(checks, b) /\ Holds(inits, b))
        /\ ~ (Holds(ends, b) /\ Holds(inits, b))
    BY DEF ListsInv, Blocks
  <2> QED BY <1>4, <1>5, <1>7, <2>1
<1>11. \A b \in Blocks : b < n \/ b = n => b < n + 1
  <2> TAKE b \in Blocks
  <2>1. b \in Nat
    BY PhasesAssumption DEF Blocks
  <2> QED BY <1>3, <2>1
<1>12. ListsInv'
  <2>1. NewBlock' = n + 1
    BY <1>6 DEF n
  <2> QED BY <1>9, <1>10, <1>11, <2>1 DEF ListsInv, Blocks
<1> QED BY <1>3, <1>6, <1>8, <1>9, <1>12 DEF n

\* What has run and what is still to run are registered.
LEMMA Numbered ==
    ASSUME ListsOK, ListsInv, RanInv, TodoInv
    PROVE  /\ \A i \in 1 .. Len(ran) : ran[i] \in Blocks /\ ran[i] < NewBlock
           /\ at \in Phase => \A i \in 1 .. Len(todo) : todo[i] \in Blocks /\ todo[i] < NewBlock
<1>1. \A i \in 1 .. Len(ran) : ran[i] \in Blocks /\ ran[i] < NewBlock
  BY ElementsOfLists DEF ListsOK, RanInv
<1>2. ASSUME at \in Phase, NEW i \in 1 .. Len(todo)
      PROVE  todo[i] \in Blocks /\ todo[i] < NewBlock
  <2>1. todo[i] \in Blocks
    BY ElementsOfLists DEF ListsOK
  <2>2. Holds(checks, todo[i]) \/ Holds(inits, todo[i]) \/ Holds(ends, todo[i])
    <3>1. Holds(PhaseList, todo[i])
      BY <1>2 DEF TodoInv
    <3> QED BY <1>2, <3>1 DEF PhaseList, Phase
  <2> QED BY <2>1, <2>2 DEF ListsInv, Blocks
<1> QED BY <1>1, <1>2

\* A registration changes neither the order of those nor what they are due to.
LEMMA RegisterOrder ==
    ASSUME ListsOK, ListsInv, RanInv, TodoInv, UNCHANGED <<at, todo, ran>>,
           stack' = <<>> <=> stack = <<>>, UNCHANGED blocks \/ Registers
    PROVE  ListsOK' /\ ListsInv' /\ RanInv' /\ TodoInv'
<1> DEFINE n == NewBlock
<1>1. /\ ends' \in Seq(Blocks) /\ checks' \in Seq(Blocks) /\ inits' \in Seq(Blocks)
      /\ ListsInv'
      /\ n' \in {n, n + 1} /\ n \in Nat
      /\ \A b \in Blocks : b < n =>
                 /\ Holds(ends, b)' <=> Holds(ends, b)
                 /\ Holds(checks, b)' <=> Holds(checks, b)
                 /\ Holds(inits, b)' <=> Holds(inits, b)
  <2>1. CASE Registers
    BY <2>1, RegistersFacts
  <2>2. CASE UNCHANGED blocks
    <3>1. UNCHANGED <<ends, checks, inits>>
      BY <2>2 DEF blocks
    <3>2. n \in Nat /\ n' = n
      BY <3>1, ElementsOfLists DEF NewBlock, ListsOK
    <3>3. ListsInv' /\ \A b \in Blocks :
                 /\ Holds(ends, b)' <=> Holds(ends, b)
                 /\ Holds(checks, b)' <=> Holds(checks, b)
                 /\ Holds(inits, b)' <=> Holds(inits, b)
      BY <3>1 DEF ListsInv, Holds, Ascending, NewBlock
    <3> QED BY <3>1, <3>2, <3>3 DEF ListsOK
  <2> QED BY <2>1, <2>2
<1>2. /\ \A i \in 1 .. Len(ran) : ran[i] \in Blocks /\ ran[i] < n
      /\ at \in Phase => \A i \in 1 .. Len(todo) : todo[i] \in Blocks /\ todo[i] < n
  BY Numbered
<1> HIDE DEF n
<1>3. \A a, b \in Blocks : a < n /\ b < n => (Precedes(a, b)' <=> Precedes(a, b))
  BY <1>1 DEF Precedes
<1>4. \A b \in Blocks : b < n => b < n'
  <2> TAKE b \in Blocks
  <2>1. b \in Nat
    BY PhasesAssumption DEF Blocks
  <2> QED BY <1>1, <2>1
<1>5. RanInv'
  <2>1. \A i \in 1 .. Len(ran') : ran'[i] < n'
    BY <1>2, <1>4
  <2>2. \A i, j \in 1 .. Len(ran') : i < j => ran'[i] # ran'[j] /\ ~ Precedes(ran[j], ran[i])'
    BY <1>2, <1>3 DEF RanInv
  <2>3. \A i \in 1 .. Len(ran) : /\ Holds(ends, ran[i])' <=> Holds(ends, ran[i])
                                 /\ Holds(inits, ran[i])' <=> Holds(inits, ran[i])
    BY <1>1, <1>2
  <2>4. /\ at' \in {"CHECK", "INIT", "RUN", "lexical"} =>
              \A i \in 1 .. Len(ran') : ~ Holds(ends, ran[i])'
        /\ at' = "CHECK" => \A i \in 1 .. Len(ran') : ~ Holds(inits, ran[i])'
    BY <2>3 DEF RanInv
  <2>5. at' \in {"parse", "handler", "compile"} => ran' = <<>>
    BY DEF RanInv
  <2> QED BY <2>1, <2>2, <2>4, <2>5 DEF RanInv, n
<1>6. TodoInv'
  <2> SUFFICES ASSUME at \in Phase
               PROVE  TodoInv'
    BY DEF TodoInv
  <2>1. \A i \in 1 .. Len(todo) : Holds(PhaseList, todo[i])'
    <3>1. \A i \in 1 .. Len(todo) : Holds(PhaseList, todo[i])
      BY DEF TodoInv
    <3>2. \A i \in 1 .. Len(todo) : Holds(PhaseList, todo[i])' <=> Holds(PhaseList, todo[i])
      BY <1>1, <1>2 DEF PhaseList, Phase
    <3> QED BY <3>1, <3>2
  <2>2. \A i, j \in 1 .. Len(todo) : i < j => Precedes(todo[i], todo[j])'
    BY <1>2, <1>3 DEF TodoInv
  <2>3. \A i \in 1 .. Len(todo), j \in 1 .. Len(ran) :
              Due(i) => todo[i] # ran[j] /\ ~ Precedes(todo[i], ran[j])'
    BY <1>2, <1>3 DEF TodoInv
  <2>4. stack' # <<>> => todo' # <<>>
    BY DEF TodoInv
  <2>5. \A i : Due(i)' <=> Due(i)
    BY DEF Due
  <2> QED BY <2>1, <2>2, <2>3, <2>4, <2>5 DEF TodoInv
<1> QED BY <1>1, <1>5, <1>6 DEF ListsOK

\* The order is strict, on lists that share no block.
LEMMA PrecedesFacts ==
    ASSUME ListsInv, NEW a \in Blocks, NEW b \in Blocks, Precedes(a, b)
    PROVE  a # b /\ ~ Precedes(b, a)
<1>1. a \in Nat /\ b \in Nat
  BY PhasesAssumption DEF Blocks
<1>2. \A c \in {a, b} : /\ ~ (Holds(checks, c) /\ Holds(ends, c))
                        /\ ~ (Holds(checks, c) /\ Holds(inits, c))
                        /\ ~ (Holds(ends, c) /\ Holds(inits, c))
  BY DEF ListsInv, Blocks
<1>3. (a > b => a # b /\ ~ (b > a)) /\ (a < b => a # b /\ ~ (b < a))
  BY <1>1
<1> QED BY <1>2, <1>3 DEF Precedes

\* A step that starts, ends or skips no block.
LEMMA QuietOrder ==
    ASSUME ListsOK, ListsInv, RanInv, UNCHANGED <<blocks, ran, todo>>, at' \notin Phase,
           at' \in {"parse", "handler", "compile"} => at \in {"parse", "handler", "compile"},
           at' \in {"RUN", "lexical"} => at \in {"INIT", "RUN", "lexical"}
    PROVE  ListsOK' /\ ListsInv' /\ RanInv' /\ TodoInv'
<1>1. UNCHANGED <<ends, checks, inits, ran, todo>>
  BY DEF blocks
<1>2. ListsOK' /\ ListsInv'
  BY <1>1 DEF ListsOK, ListsInv, Holds, Ascending, NewBlock
<1>3. RanInv'
  BY <1>1 DEF RanInv, Holds, Precedes, NewBlock, Phase
<1> QED BY <1>2, <1>3 DEF TodoInv

\* The reverse of a list is the order in which CHECK and END blocks run.
LEMMA ReversedOrder ==
    ASSUME ListsOK, ListsInv, NEW s \in {checks, ends}
    PROVE  /\ Reverse(s) \in Seq(Blocks)
           /\ \A i \in 1 .. Len(Reverse(s)) : Holds(s, Reverse(s)[i])
           /\ \A i, j \in 1 .. Len(Reverse(s)) : i < j => Precedes(Reverse(s)[i], Reverse(s)[j])
<1> DEFINE r == Reverse(s)
           n == Len(s)
<1>1. s \in Seq(Blocks) /\ Ascending(s) /\ n \in Nat /\ \A i \in 1 .. n : s[i] \in Nat
  BY ElementsOfLists DEF ListsOK, ListsInv
<1>2. r \in Seq(Blocks) /\ Len(r) = n /\ \A i \in 1 .. n : r[i] = s[n - i + 1]
  BY <1>1, ReverseOfSeq
<1> HIDE DEF r, n
<1>3. \A i \in 1 .. n : n - i + 1 \in 1 .. n
  BY <1>1
<1>4. \A i, j \in 1 .. n : i < j => n - j + 1 < n - i + 1
  BY <1>1
<1>5. \A i \in 1 .. n : Holds(s, r[i])
  BY <1>2, <1>3 DEF Holds, n
<1>6. \A i, j \in 1 .. n : i < j => s[i] < s[j]
  BY <1>1 DEF Ascending, n
<1>7. \A i, j \in 1 .. n : i < j => r[j] < r[i]
  BY <1>2, <1>3, <1>4, <1>6, ZenonT(60)
<1>8. \A i \in 1 .. n : r[i] \in Nat
  BY <1>1, <1>2, <1>3
<1>9. \A i, j \in 1 .. n : i < j => r[i] > r[j]
  BY <1>7, <1>8
<1>10. \A i, j \in 1 .. n : i < j => Precedes(r[i], r[j])
  BY <1>5, <1>9 DEF Precedes
<1> QED BY <1>2, <1>5, <1>10 DEF r

\* A phase starts on the clone of its list, CHECK and END on its reverse.
LEMMA PhaseBegins ==
    ASSUME ListsOK, ListsInv, UNCHANGED <<blocks, ran>>, stack' = <<>>,
           \/ at' = "CHECK" /\ todo' = Reverse(checks)
                 /\ \A i \in 1 .. Len(ran) : ~ Holds(checks, ran[i])
           \/ at' = "INIT" /\ todo' = inits
                 /\ \A i \in 1 .. Len(ran) : ~ Holds(inits, ran[i])
           \/ at' = "END" /\ todo' = Reverse(ends)
                 /\ \A i \in 1 .. Len(ran) : ~ Holds(ends, ran[i])
    PROVE  ListsOK' /\ ListsInv' /\ TodoInv'
<1>1. UNCHANGED <<ends, checks, inits, ran>>
  BY DEF blocks
<1>2. ListsInv'
  BY <1>1 DEF ListsInv, Holds, Ascending, NewBlock
<1>3. \A a, b : Precedes(a, b)' <=> Precedes(a, b)
  BY <1>1 DEF Precedes, Holds
<1>4. ASSUME NEW s \in {checks, ends}
      PROVE  /\ Reverse(s) \in Seq(Blocks)
             /\ \A i \in 1 .. Len(Reverse(s)) : Holds(s, Reverse(s)[i])
             /\ \A i, j \in 1 .. Len(Reverse(s)) : i < j => Precedes(Reverse(s)[i], Reverse(s)[j])
  BY <1>4, ReversedOrder
<1>5. /\ inits \in Seq(Blocks)
      /\ \A i \in 1 .. Len(inits) : Holds(inits, inits[i])
      /\ \A i, j \in 1 .. Len(inits) : i < j => Precedes(inits[i], inits[j])
  BY DEF ListsOK, ListsInv, Ascending, Precedes, Holds
<1>6. PICK s \in {checks, ends, inits} :
         /\ PhaseList' = s /\ at' \in Phase
         /\ todo' \in Seq(Blocks)
         /\ \A i \in 1 .. Len(todo') : Holds(s, todo'[i])
         /\ \A i, j \in 1 .. Len(todo') : i < j => Precedes(todo'[i], todo'[j])
         /\ \A i \in 1 .. Len(ran) : ~ Holds(s, ran[i])
  <2>1. CASE at' = "CHECK" /\ todo' = Reverse(checks)
                 /\ \A i \in 1 .. Len(ran) : ~ Holds(checks, ran[i])
    BY <1>1, <1>4, <2>1 DEF PhaseList, Phase
  <2>2. CASE at' = "INIT" /\ todo' = inits
                 /\ \A i \in 1 .. Len(ran) : ~ Holds(inits, ran[i])
    BY <1>1, <1>5, <2>2 DEF PhaseList, Phase
  <2>3. CASE at' = "END" /\ todo' = Reverse(ends)
                 /\ \A i \in 1 .. Len(ran) : ~ Holds(ends, ran[i])
    BY <1>1, <1>4, <2>3 DEF PhaseList, Phase
  <2> QED BY <2>1, <2>2, <2>3
<1>7. \A i \in 1 .. Len(todo'), j \in 1 .. Len(ran) :
         todo'[i] # ran[j] /\ ~ Precedes(todo'[i], ran[j])
  <2> TAKE i \in 1 .. Len(todo'), j \in 1 .. Len(ran)
  <2>1. Holds(s, todo'[i]) /\ ~ Holds(s, ran[j])
    BY <1>6
  <2>2. todo'[i] \in Blocks
    BY <1>6, ElementsOfLists
  <2>3. /\ ~ (Holds(checks, todo'[i]) /\ Holds(ends, todo'[i]))
        /\ ~ (Holds(checks, todo'[i]) /\ Holds(inits, todo'[i]))
        /\ ~ (Holds(ends, todo'[i]) /\ Holds(inits, todo'[i]))
    BY <2>2 DEF ListsInv, Blocks
  <2> QED BY <2>1, <2>3, <1>6 DEF Precedes
<1>8. \A b : Holds(PhaseList, b)' <=> Holds(s, b)
  BY <1>6 DEF Holds
<1>9. TodoInv'
  BY <1>1, <1>3, <1>6, <1>7, <1>8 DEF TodoInv
<1> QED BY <1>1, <1>2, <1>6, <1>9 DEF ListsOK

\* A block that begins is the first of those still to run.
LEMMA BlockBeginsOrder ==
    ASSUME ListsOK, ListsInv, RanInv, TodoInv, BlockBegins
    PROVE  ListsOK' /\ ListsInv' /\ RanInv' /\ TodoInv'
<1> DEFINE b == todo[1]
           m == Len(ran)
<1>1. /\ UNCHANGED <<ends, checks, inits, at, todo>> /\ at \in Phase
      /\ stack = <<>> /\ stack' # <<>> /\ todo # <<>> /\ ran' = Append(ran, b)
  BY DEF BlockBegins, blocks, Enter, Idle, Phase
<1>2. Len(todo) \in Nat /\ 1 \in 1 .. Len(todo) /\ m \in Nat
  <2>1. Len(todo) \in Nat /\ m \in Nat /\ Len(todo) >= 1
    BY <1>1, LastOfSeq, ElementsOfLists DEF ListsOK
  <2> QED BY <2>1
<1>3. b \in Blocks /\ b < NewBlock /\ Holds(PhaseList, b)
  BY <1>1, <1>2, Numbered DEF TodoInv
<1>4. /\ ran' \in Seq(Blocks) /\ Len(ran') = m + 1 /\ ran'[m + 1] = b
      /\ \A i \in 1 .. m : ran'[i] = ran[i]
  BY <1>1, <1>3, AppendToSeq DEF ListsOK
<1>5. ListsOK' /\ ListsInv' /\ NewBlock' = NewBlock
  BY <1>1, <1>4 DEF ListsOK, ListsInv, Holds, Ascending, NewBlock
<1>6. \A x, y : Precedes(x, y)' <=> Precedes(x, y)
  BY <1>1 DEF Precedes, Holds
<1>7. \A i \in 1 .. m : ran[i] # b /\ ~ Precedes(b, ran[i])
  <2>1. Due(1)
    BY <1>1, <1>2 DEF Due
  <2> QED BY <1>1, <1>2, <2>1 DEF TodoInv
<1>8. /\ ~ (Holds(checks, b) /\ Holds(ends, b))
      /\ ~ (Holds(checks, b) /\ Holds(inits, b))
      /\ ~ (Holds(ends, b) /\ Holds(inits, b))
  BY <1>3 DEF ListsInv, Blocks
<1>9. \A i \in 2 .. Len(todo) : todo[i] # b /\ ~ Precedes(todo[i], b)
  <2> TAKE i \in 2 .. Len(todo)
  <2>1. i \in 1 .. Len(todo) /\ 1 < i
    BY <1>2
  <2>2. Precedes(b, todo[i]) /\ todo[i] \in Blocks
    BY <1>1, <1>2, <2>1, Numbered DEF TodoInv
  <2> QED BY <1>3, <2>2, PrecedesFacts
<1> HIDE DEF b, m
<1>10. \A i \in 1 .. m + 1 : i \in 1 .. m \/ i = m + 1
  BY <1>2
<1>11. \A i, j \in 1 .. m + 1 : i < j => i \in 1 .. m /\ (j \in 1 .. m \/ j = m + 1)
  BY <1>2
<1>12. RanInv'
  <2>1. \A i \in 1 .. m + 1 : ran'[i] < NewBlock'
    BY <1>3, <1>4, <1>5, <1>10 DEF RanInv, m
  <2>2. \A i, j \in 1 .. m + 1 : i < j => ran'[i] # ran'[j] /\ ~ Precedes(ran'[j], ran'[i])
    <3>1. \A i, j \in 1 .. m : i < j => ran[i] # ran[j] /\ ~ Precedes(ran[j], ran[i])
      BY DEF RanInv, m
    <3> QED BY <1>4, <1>7, <1>11, <3>1
  <2>3. /\ at \in {"CHECK", "INIT"} => ~ Holds(ends, b)
        /\ at = "CHECK" => ~ Holds(inits, b)
    BY <1>3, <1>8 DEF PhaseList
  <2>4. /\ at' \in {"CHECK", "INIT", "RUN", "lexical"} =>
              \A i \in 1 .. m + 1 : ~ Holds(ends, ran'[i])
        /\ at' = "CHECK" => \A i \in 1 .. m + 1 : ~ Holds(inits, ran'[i])
    BY <1>1, <1>4, <1>10, <2>3 DEF RanInv, m, Phase
  <2>5. at' \notin {"parse", "handler", "compile"}
    BY <1>1 DEF Phase
  <2>6. \A x : (Holds(ends, x)' <=> Holds(ends, x)) /\ (Holds(inits, x)' <=> Holds(inits, x))
    BY <1>1 DEF Holds
  <2> QED BY <1>4, <1>6, <2>1, <2>2, <2>4, <2>5, <2>6 DEF RanInv
<1>13. TodoInv'
  <2>1. \A i : Due(i)' <=> i \in 2 .. Len(todo)
    BY <1>1, <1>2 DEF Due
  <2>2. \A i \in 2 .. Len(todo), j \in 1 .. m : todo[i] # ran[j] /\ ~ Precedes(todo[i], ran[j])
    <3> TAKE i \in 2 .. Len(todo), j \in 1 .. m
    <3>1. i \in 1 .. Len(todo) /\ Due(i)
      BY <1>1, <1>2 DEF Due
    <3> QED BY <1>1, <3>1 DEF TodoInv, m
  <2>3. \A i \in 2 .. Len(todo), j \in 1 .. m + 1 :
             todo[i] # ran'[j] /\ ~ Precedes(todo[i], ran'[j])
    BY <1>4, <1>9, <1>10, <2>2
  <2>4. \A x : Holds(PhaseList, x)' <=> Holds(PhaseList, x)
    BY <1>1 DEF Holds, PhaseList
  <2>5. /\ \A i \in 1 .. Len(todo) : Holds(PhaseList, todo[i])
        /\ \A i, j \in 1 .. Len(todo) : i < j => Precedes(todo[i], todo[j])
    BY <1>1 DEF TodoInv
  <2> QED BY <1>1, <1>4, <1>6, <2>1, <2>3, <2>4, <2>5 DEF TodoInv
<1> QED BY <1>5, <1>12, <1>13

\* A block that ends is taken from those still to run.
LEMMA BlockEndsOrder ==
    ASSUME StackOK, BottomOK, ListsOK, ListsInv, RanInv, TodoInv, BlockEnds
    PROVE  ListsOK' /\ ListsInv' /\ RanInv' /\ TodoInv'
<1>1. /\ UNCHANGED <<ends, checks, inits, at, ran>>
      /\ stack # <<>> /\ stack' = <<>> /\ todo' = Tail(todo)
  BY DEF BlockEnds, BlockEndsWith, blocks
<1>2. at \in Phase
  <2>1. Top.kind \in Bottoms(at) /\ Top.kind \in {"check", "init", "end"}
    BY <1>1, BottomRuns DEF BlockEnds, BlockEndsWith, Nested
  <2> QED BY <2>1 DEF Bottoms, Phase
<1> DEFINE n == Len(todo)
<1>3. /\ todo' \in Seq(Blocks) /\ Len(todo') = n - 1 /\ n \in Nat
      /\ \A i \in 1 .. n - 1 : todo'[i] = todo[i + 1]
  <2>1. todo # <<>> /\ todo \in Seq(Blocks)
    BY <1>1, <1>2 DEF TodoInv, ListsOK
  <2> QED BY <1>1, <2>1, HeadTailProperties
<1> HIDE DEF n
<1>4. \A i \in 1 .. n - 1 : i + 1 \in 1 .. n /\ i + 1 > 1
  BY <1>3
<1>5. ListsOK' /\ ListsInv'
  BY <1>1, <1>3 DEF ListsOK, ListsInv, Holds, Ascending, NewBlock
<1>6. \A x, y : Precedes(x, y)' <=> Precedes(x, y)
  BY <1>1 DEF Precedes, Holds
<1>7. \A x : Holds(PhaseList, x)' <=> Holds(PhaseList, x)
  BY <1>1 DEF Holds, PhaseList
<1>8. RanInv'
  BY <1>1 DEF RanInv, Holds, Precedes, NewBlock
<1>9. TodoInv'
  <2>1. \A i \in 1 .. n - 1 : Holds(PhaseList, todo'[i])
    BY <1>2, <1>3, <1>4 DEF TodoInv, n
  <2>2. \A i, j \in 1 .. n - 1 : i < j => Precedes(todo'[i], todo'[j])
    <3> TAKE i, j \in 1 .. n - 1
    <3>1. i < j => i + 1 < j + 1
      BY <1>3
    <3> QED BY <1>2, <1>3, <1>4, <3>1 DEF TodoInv, n
  <2>3. \A i \in 1 .. n - 1, j \in 1 .. Len(ran) :
           todo'[i] # ran[j] /\ ~ Precedes(todo'[i], ran[j])
    <3> TAKE i \in 1 .. n - 1, j \in 1 .. Len(ran)
    <3>1. i + 1 \in 1 .. Len(todo) /\ Due(i + 1)
      BY <1>4 DEF Due, n
    <3> QED BY <1>2, <1>3, <3>1 DEF TodoInv
  <2> QED BY <1>1, <1>3, <1>6, <1>7, <2>1, <2>2, <2>3 DEF TodoInv
<1> QED BY <1>5, <1>8, <1>9

\* Every step keeps the order of the blocks.
LEMMA OrderStep ==
    ASSUME StackOK, BottomOK, ListsOK, ListsInv, RanInv, TodoInv, [Next]_vars
    PROVE  ListsOK' /\ ListsInv' /\ RanInv' /\ TodoInv'
<1> USE DEF history, interp
<1>1. CASE TopBegin \/ TopUse \/ Destroy \/ DestroyEnds
  <2>1. UNCHANGED <<blocks, ran, todo, at>>
    BY <1>1 DEF TopBegin, TopUse, Destroy, DestroyEnds, DestroyParks
  <2>2. at \in {"compile", "parse", "lexical", "DESTRUCT"}
    <3>1. CASE TopBegin \/ TopUse \/ Destroy
      BY <3>1 DEF TopBegin, TopUse, Destroy
    <3>2. CASE DestroyEnds
      <4>1. "destroy" \in Bottoms(at)
        BY <3>2, BottomRuns DEF DestroyEnds, DestroyParks, Nested
      <4> QED BY <4>1 DEF Bottoms
    <3> QED BY <1>1, <3>1, <3>2
  <2> QED BY <2>1, <2>2, QuietOrder DEF Phase
<1>2. CASE TopRegister
  BY <1>2, RegisterOrder DEF TopRegister, Registers
<1>3. CASE CompileFails
  <2>1. ran = <<>>
    BY <1>3 DEF CompileFails, RanInv
  <2>2. RanInv'
    BY <1>3, <2>1, EmptySeq DEF CompileFails, StartEnds, RanInv
  <2>3. \A i \in 1 .. Len(ran) : ~ Holds(ends, ran[i])
    BY <2>1, EmptySeq
  <2>4. /\ UNCHANGED <<blocks, ran>> /\ stack' = <<>>
        /\ at' = "END" /\ todo' = Reverse(ends)
    BY <1>3 DEF CompileFails, Idle, StartEnds
  <2> QED BY <2>2, <2>3, <2>4, PhaseBegins
<1>4. CASE EagerEnds
  <2>1. CASE UNCHANGED <<at, todo>>
    BY <1>4, <2>1, QuietOrder DEF EagerEnds, Phase
  <2>2. CASE at' = "exited" /\ UNCHANGED todo
    BY <1>4, <2>2, QuietOrder DEF EagerEnds, Phase
  <2>3. CASE StartEnds
    <3>1. ran = <<>>
      BY <1>4 DEF EagerEnds, RanInv
    <3>2. RanInv'
      BY <1>4, <2>3, <3>1, EmptySeq DEF EagerEnds, StartEnds, RanInv
    <3>3. \A i \in 1 .. Len(ran) : ~ Holds(ends, ran[i])
      BY <3>1, EmptySeq
    <3>4. /\ UNCHANGED <<blocks, ran>> /\ stack' = <<>>
          /\ at' = "END" /\ todo' = Reverse(ends)
      BY <1>4, <2>3 DEF EagerEnds, StartEnds
    <3> QED BY <3>2, <3>3, <3>4, PhaseBegins
  <2> QED BY <1>4, <2>1, <2>2, <2>3 DEF EagerEnds
<1>5. CASE CompileEnds
  <2>1. ran = <<>>
    BY <1>5 DEF CompileEnds, RanInv
  <2>2. RanInv'
    BY <1>5, <2>1, EmptySeq DEF CompileEnds, RanInv
  <2>3. \A i \in 1 .. Len(ran) : ~ Holds(checks, ran[i])
    BY <2>1, EmptySeq
  <2>4. /\ UNCHANGED <<blocks, ran>> /\ stack' = <<>>
        /\ at' = "CHECK" /\ todo' = Reverse(checks)
    BY <1>5 DEF CompileEnds, Idle
  <2> QED BY <2>2, <2>3, <2>4, PhaseBegins
<1>6. CASE BlockBegins
  BY <1>6, BlockBeginsOrder
<1>7. CASE BlockEnds
  BY <1>7, BlockEndsOrder
<1>8. CASE PhaseEnds
  <2>1. CASE at = "CHECK" /\ at' = "INIT" /\ todo' = inits /\ UNCHANGED <<stack, flow>>
    <3>1. \A i \in 1 .. Len(ran) : ~ Holds(inits, ran[i])
      BY <2>1 DEF RanInv
    <3>2. UNCHANGED <<blocks, ran>> /\ stack' = <<>>
      BY <1>8, <2>1 DEF PhaseEnds, Idle
    <3>3. RanInv'
      BY <2>1, <3>2 DEF RanInv, blocks, Holds, Precedes, NewBlock
    <3> QED BY <2>1, <3>1, <3>2, <3>3, PhaseBegins
  <2>2. CASE at = "INIT" /\ at' = "RUN" /\ UNCHANGED todo
    BY <1>8, <2>2, QuietOrder DEF PhaseEnds, Phase
  <2>3. CASE at = "lexical" /\ StartEnds /\ UNCHANGED <<stack, flow>>
    <3>1. \A i \in 1 .. Len(ran) : ~ Holds(ends, ran[i])
      BY <2>3 DEF RanInv
    <3>2. /\ UNCHANGED <<blocks, ran>> /\ stack' = <<>>
          /\ at' = "END" /\ todo' = Reverse(ends)
      BY <1>8, <2>3 DEF PhaseEnds, Idle, StartEnds
    <3>3. RanInv'
      BY <3>2 DEF RanInv, blocks, Holds, Precedes, NewBlock
    <3> QED BY <3>1, <3>2, <3>3, PhaseBegins
  <2> QED BY <1>8, <2>1, <2>2, <2>3 DEF PhaseEnds
<1>9. CASE MainEnds
  <2>1. at = "RUN"
    <3>1. "main" \in Bottoms(at)
      BY <1>9, BottomRuns DEF MainEnds, Nested
    <3> QED BY <3>1 DEF Bottoms
  <2> QED BY <1>9, <2>1, QuietOrder DEF MainEnds, Phase
<1>10. CASE EndsDone \/ RunReturns
  BY <1>10, QuietOrder DEF EndsDone, RunReturns, ReturnWith, Phase
<1>11. CASE ParseBeginEnds \/ ParseHandler \/ ParseFails
  BY <1>11, QuietOrder DEF ParseBeginEnds, ParseHandler, ParseFails, Phase
<1>12. CASE Code
  <2>1. /\ UNCHANGED <<at, todo, ran>>
        /\ UNCHANGED blocks \/ Registers
    BY <1>12, CodeFrame
  <2>2. stack # <<>> /\ stack' # <<>>
    BY <1>12, CodeBottom
  <2> QED BY <2>1, <2>2, RegisterOrder
<1>13. CASE UNCHANGED vars
  BY <1>13, RegisterOrder DEF vars
<1> QED
  BY Split, <1>1, <1>2, <1>3, <1>4, <1>5, <1>6, <1>7, <1>8, <1>9, <1>10, <1>11, <1>12, <1>13
  DEF Driver

-----------------------------------------------------------------------------
(* The theorems.                                                           *)

\* The parts of the type invariant, as the lemmas above take them.
LEMMA TypeGroups ==
    TypeOK <=> StackOK /\ FlowOK /\ CodesOK /\ SwitchesOK /\ LoadingOK /\ ListsOK
BY DEF TypeOK, StackOK, FlowOK, CodesOK, SwitchesOK, LoadingOK, ListsOK, Blocks

\* The inductive invariant holds at first
LEMMA InitPhases == Init => PhasesInv
<1> SUFFICES ASSUME Init PROVE PhasesInv
  OBVIOUS
<1>1. stack = <<>> /\ ends = <<>> /\ checks = <<>> /\ inits = <<>> /\ todo = <<>> /\ ran = <<>>
  BY DEF Init
<1>2. StackOK /\ BottomOK
  <2>1. stack \in Seq(Units) /\ Len(stack) = 0 /\ MaxDepth \in Nat
    BY <1>1, PhasesAssumption
  <2> QED BY <1>1, <2>1 DEF StackOK, BottomOK
<1>3. ListsOK
  BY <1>1 DEF ListsOK
<1>4. FlowOK
  BY FlowFacts DEF Init, FlowOK
<1>5. CodesOK /\ StatusInv
  BY PhasesAssumption DEF Init, CodesOK, StatusInv, StatusKept
<1>6. SwitchesOK /\ LoadingOK /\ LoadInv
  <2>1. SwitchesOK
    <3>1. fuel \in 0 .. MaxFuel
      BY PhasesAssumption DEF Init
    <3>2. /\ at \in {"compile", "parse"} /\ errsv = FALSE /\ lateExit = FALSE
          /\ cause = "none"
      BY DEF Init
    <3> QED BY <3>1, <3>2 DEF SwitchesOK, Places
  <2>2. required = {} /\ inc = {} /\ loads = [f \in Files |-> 0]
    BY DEF Init
  <2>3. LoadingOK /\ LoadInv
    BY <2>2 DEF LoadingOK, LoadInv
  <2> QED BY <2>1, <2>3
<1>7. \A b : ~ Holds(ends, b) /\ ~ Holds(checks, b) /\ ~ Holds(inits, b)
  BY <1>1, EmptySeq DEF Holds
<1>8. ListsInv
  <2>1. Ascending(<<>>)
    BY DEF Ascending
  <2> QED BY <1>1, <1>7, <2>1 DEF ListsInv
<1>9. RanInv
  BY <1>1, <1>7 DEF RanInv
<1>10. TodoInv
  BY DEF Init, TodoInv, Phase
<1> QED
  BY <1>2, <1>3, <1>4, <1>5, <1>6, <1>8, <1>9, <1>10, TypeGroups DEF PhasesInv

\* and is kept by every step.
LEMMA NextPhases == PhasesInv /\ [Next]_vars => PhasesInv'
<1> SUFFICES ASSUME PhasesInv, [Next]_vars PROVE PhasesInv'
  OBVIOUS
<1>1. /\ StackOK /\ FlowOK /\ CodesOK /\ SwitchesOK /\ LoadingOK /\ ListsOK
      /\ BottomOK /\ LoadInv /\ StatusInv /\ ListsInv /\ RanInv /\ TodoInv
  BY TypeGroups DEF PhasesInv
<1>2. StackOK' /\ BottomOK'
  <2>1. CASE UNCHANGED vars
    BY <1>1, <2>1 DEF vars, StackOK, BottomOK
  <2> QED BY <1>1, <2>1, Split, CodeBottom, DriverBottom
<1>3. FlowOK' /\ CodesOK' /\ SwitchesOK'
  BY <1>1, FlowStep, CodesStep, SwitchesStep
<1>4. LoadingOK' /\ LoadInv'
  BY <1>1, LoadStep
<1>5. StatusInv'
  BY <1>1, StatusStep
<1>6. ListsOK' /\ ListsInv' /\ RanInv' /\ TodoInv'
  BY <1>1, OrderStep
<1>7. TypeOK'
  BY <1>2, <1>3, <1>4, <1>6 DEF TypeOK, StackOK, FlowOK, CodesOK, SwitchesOK, LoadingOK,
                               ListsOK, Blocks
<1> QED BY <1>2, <1>4, <1>5, <1>6, <1>7 DEF PhasesInv

\* The inductive invariant.
THEOREM SpecPhases == Spec => []PhasesInv
BY InitPhases, NextPhases, PTL DEF Spec

\* The types of run()'s registers, whatever the program does.
THEOREM TypeCorrect == Spec => []TypeOK
<1>1. PhasesInv => TypeOK
  BY DEF PhasesInv
<1> QED BY <1>1, SpecPhases, PTL

\* No file is run a second time by require or use (do_require).
THEOREM FilesLoadOnce == Spec => []LoadedOnce
<1>1. PhasesInv => LoadedOnce
  BY DEF PhasesInv, LoadInv, LoadedOnce
<1> QED BY <1>1, SpecPhases, PTL

\* The program exits with the status that its end asked for (run).
THEOREM ExitStatusKept == Spec => []StatusKept
<1>1. PhasesInv => StatusKept
  BY DEF PhasesInv, StatusInv
<1> QED BY <1>1, SpecPhases, PTL

\* Blocks on one list that run, run in the order of the list.
LEMMA OrderOfList ==
    ASSUME ListsOK, RanInv, NEW list \in Seq(Blocks),
           \A i, j \in 1 .. Len(list) : i < j => Precedes(list[i], list[j]) /\ list[i] # list[j],
           NEW i \in 1 .. Len(list), NEW j \in 1 .. Len(list), i < j,
           NEW p \in 1 .. Len(ran), NEW q \in 1 .. Len(ran), ran[p] = list[i], ran[q] = list[j]
    PROVE  p < q
<1>1. Len(ran) \in Nat
  BY ElementsOfLists DEF ListsOK
<1>2. Precedes(ran[p], ran[q]) /\ ran[p] # ran[q]
  OBVIOUS
<1>3. ~ (q < p)
  BY <1>2 DEF RanInv
<1> QED BY <1>1, <1>2, <1>3

\* CHECK, INIT and END blocks run in the order perl documents, none twice (run,
\* run_end_blocks_for_compile_error).
THEOREM BlocksInOrder == Spec => []RunOrder
<1>1. PhasesInv => RunOrder
  <2> SUFFICES ASSUME PhasesInv PROVE RunOrder
    OBVIOUS
  <2>1. ListsOK /\ ListsInv /\ RanInv
    BY TypeGroups DEF PhasesInv
  <2>2. ran \in Seq(Blocks) /\ DOMAIN ran = 1 .. Len(ran) /\ Len(ran) \in Nat
    BY <2>1, ElementsOfLists DEF ListsOK
  <2> DEFINE pos(b) == CHOOSE i \in DOMAIN ran : ran[i] = b
  <2>3. \A i, j \in 1 .. Len(ran) : ran[i] = ran[j] => i = j
    <3>1. \A i, j \in 1 .. Len(ran) : i < j \/ j < i \/ i = j
      BY <2>2
    <3> QED BY <2>1, <3>1 DEF RanInv
  <2>4. IsInjective(ran)
    BY <2>2, <2>3 DEF IsInjective
  <2>5. ASSUME NEW list \in Seq(Blocks), 
               \A i, j \in 1 .. Len(list) : i < j => Precedes(list[i], list[j]) /\ list[i] # list[j]
        PROVE  \A i, j \in DOMAIN list :
                  i < j /\ {list[i], list[j]} \subseteq ToSet(ran) => pos(list[i]) < pos(list[j])
    <3> SUFFICES ASSUME NEW i \in DOMAIN list, NEW j \in DOMAIN list, i < j,
                        list[i] \in ToSet(ran), list[j] \in ToSet(ran)
                 PROVE  pos(list[i]) < pos(list[j])
      OBVIOUS
    <3>1. i \in 1 .. Len(list) /\ j \in 1 .. Len(list)
      OBVIOUS
    <3>2. /\ \E p \in 1 .. Len(ran) : ran[p] = list[i]
          /\ \E q \in 1 .. Len(ran) : ran[q] = list[j]
      BY <2>2 DEF ToSet
    <3>3. /\ pos(list[i]) \in 1 .. Len(ran) /\ ran[pos(list[i])] = list[i]
          /\ pos(list[j]) \in 1 .. Len(ran) /\ ran[pos(list[j])] = list[j]
      BY <2>2, <3>2
    <3> HIDE DEF pos
    <3> QED BY <2>1, <2>5, <3>1, <3>3, OrderOfList
  <2>6. \A a, b \in Blocks : Precedes(a, b) => a # b
    BY <2>1, PrecedesFacts
  <2>7. /\ inits \in Seq(Blocks)
        /\ \A i, j \in 1 .. Len(inits) : i < j => Precedes(inits[i], inits[j]) /\ inits[i] # inits[j]
    <3>1. inits \in Seq(Blocks) /\ \A i \in 1 .. Len(inits) : inits[i] \in Blocks
      BY <2>1, ElementsOfLists DEF ListsOK
    <3>2. \A i, j \in 1 .. Len(inits) : i < j => Precedes(inits[i], inits[j])
      BY <2>1 DEF ListsInv, Ascending, Precedes, Holds
    <3> QED BY <2>6, <3>1, <3>2
  <2>8. ASSUME NEW s \in {checks, ends}
        PROVE  /\ Reverse(s) \in Seq(Blocks)
               /\ \A i, j \in 1 .. Len(Reverse(s)) :
                     i < j => Precedes(Reverse(s)[i], Reverse(s)[j]) /\ Reverse(s)[i] # Reverse(s)[j]
    <3>1. /\ Reverse(s) \in Seq(Blocks)
          /\ \A i, j \in 1 .. Len(Reverse(s)) : i < j => Precedes(Reverse(s)[i], Reverse(s)[j])
      BY <2>1, ReversedOrder
    <3>2. \A i \in 1 .. Len(Reverse(s)) : Reverse(s)[i] \in Blocks
      BY <3>1, ElementsOfLists
    <3> QED BY <2>6, <3>1, <3>2
  <2> HIDE DEF pos
  <2>9. /\ \A i, j \in DOMAIN inits :
             i < j /\ {inits[i], inits[j]} \subseteq ToSet(ran) => pos(inits[i]) < pos(inits[j])
        /\ \A i, j \in DOMAIN Reverse(ends) :
             i < j /\ {Reverse(ends)[i], Reverse(ends)[j]} \subseteq ToSet(ran)
                 => pos(Reverse(ends)[i]) < pos(Reverse(ends)[j])
        /\ \A i, j \in DOMAIN Reverse(checks) :
             i < j /\ {Reverse(checks)[i], Reverse(checks)[j]} \subseteq ToSet(ran)
                 => pos(Reverse(checks)[i]) < pos(Reverse(checks)[j])
    BY <2>5, <2>7, <2>8
  <2> QED BY <2>4, <2>9 DEF RunOrder, pos
<1> QED BY <1>1, SpecPhases, PTL

-----------------------------------------------------------------------------
(* No block is forgotten.                                                  *)

\* A block registered in time has run when its phase is over: a CHECK block before INIT
\* begins, an INIT block before the main program, an END block before the global
\* destructors and the exit, however the blocks before it end and whatever they
\* register (run, run_end_blocks_for_compile_error); unless the program ends first.
\* It is what BlocksRun says without that the phase does end.
InTime == {"parse", "compile", "CHECK", "INIT", "RUN", "lexical"}
Compiling == {"parse", "handler", "compile"}
NotCompiled == {"skip", "abort", "compile", "parse"}
NoneForgotten ==
    \A b \in 1 .. MaxBlocks :
        /\ [](b \in ToSet(checks) /\ at \in {"parse", "compile"}
                 => [](at \notin Compiling \cup {"CHECK"}
                         => b \in ToSet(ran) \/ cause \in NotCompiled))
        /\ [](b \in ToSet(inits) /\ at \in {"parse", "compile", "CHECK"}
                 => [](at \notin Compiling \cup {"CHECK", "INIT"}
                         => b \in ToSet(ran) \/ cause \in NotCompiled))
        /\ [](b \in ToSet(ends) /\ at \in InTime
                 => [](at \in {"DESTRUCT", "exited"}
                         => b \in ToSet(ran) \/ cause \in {"skip", "parse"}))

\* A block of the phase that run() is in has run, or is still to run.
Served(b) == Holds(ran, b) \/ \E i \in 1 .. Len(todo) : Due(i) /\ todo[i] = b
\* A phase starts: every block of its list is still to run.
Starts(list) == \A b : Holds(list, b) => Served(b)'

\* From where to where a step takes run(), and how the program may end there.
Moves ==
    \/ at = "parse" /\ at' = "handler" /\ cause' = cause
    \/ at \in {"parse", "handler"} /\ at' = "exited" /\ cause' = "parse"
    \/ at = "compile" /\ at' = "exited" /\ cause' = "skip"
    \/ at = "compile" /\ at' = "END" /\ cause' \in {"abort", "compile"} /\ Starts(ends)
    \/ at = "compile" /\ at' = "CHECK" /\ cause' = cause /\ Starts(checks)
    \/ at = "CHECK" /\ at' = "INIT" /\ cause' = cause /\ Starts(inits) /\ todo = <<>>
    \/ at = "INIT" /\ at' = "RUN" /\ cause' = cause /\ todo = <<>>
    \/ at = "RUN" /\ at' = "lexical" /\ cause' \in {"end", "exit", "die", "jump"}
    \/ at = "lexical" /\ at' = "END" /\ cause' = cause /\ Starts(ends)
    \/ at = "END" /\ cause \in {"abort", "compile"} /\ at' = "exited" /\ cause' = cause /\ todo = <<>>
    \/ at = "END" /\ cause \notin {"abort", "compile"} /\ at' = "DESTRUCT" /\ cause' = cause
          /\ todo = <<>>
    \/ at = "DESTRUCT" /\ at' = "exited" /\ cause' = cause
DueKept == \A b : Served(b) => Served(b)'
Stays == at' = at /\ cause' = cause /\ (at \in Phase => DueKept)
RanKept == \A b : Holds(ran, b) => Holds(ran', b)
ListsKept ==
    \A b : /\ Holds(checks, b) => Holds(checks', b)
           /\ Holds(inits, b) => Holds(inits', b)
           /\ Holds(ends, b) => Holds(ends', b)

\* A block that is registered stays so.
LEMMA RegisteredKept ==
    ASSUME ListsOK, UNCHANGED blocks \/ Registers
    PROVE  ListsKept
<1>1. CASE UNCHANGED blocks
  BY <1>1 DEF ListsKept, blocks, Holds
<1>2. CASE Registers
  <2>1. NewBlock \in Blocks
    <3>1. Len(ends) \in Nat /\ Len(checks) \in Nat /\ Len(inits) \in Nat
      BY ElementsOfLists DEF ListsOK
    <3>2. NewBlock \in Nat /\ NewBlock >= 1
      BY <3>1 DEF NewBlock
    <3>3. NewBlock <= MaxBlocks
      BY <1>2 DEF Registers
    <3> HIDE DEF NewBlock
    <3> QED BY <3>2, <3>3, PhasesAssumption DEF Blocks
  <2>2. ASSUME NEW s \in {checks, inits, ends}, NEW b, Holds(s, b)
        PROVE  Holds(Append(s, NewBlock), b)
    <3>1. s \in Seq(Blocks)
      BY DEF ListsOK
    <3> QED BY <2>1, <2>2, <3>1, AppendHolds
  <2>3. /\ checks' \in {checks, Append(checks, NewBlock)}
        /\ inits' \in {inits, Append(inits, NewBlock)}
        /\ ends' \in {ends, Append(ends, NewBlock)}
    BY <1>2 DEF Registers
  <2>4. ASSUME NEW b
        PROVE  /\ Holds(checks, b) => Holds(checks', b)
               /\ Holds(inits, b) => Holds(inits', b)
               /\ Holds(ends, b) => Holds(ends', b)
    BY <2>2, <2>3
  <2> QED BY <2>4 DEF ListsKept
<1> QED BY <1>1, <1>2

\* A phase starts on its list or on the reverse of it.
LEMMA StartsAll ==
    ASSUME ListsOK, NEW list \in {checks, inits, ends}, stack' = <<>>,
           todo' \in {list, Reverse(list)}
    PROVE  Starts(list)
<1> SUFFICES ASSUME NEW b, Holds(list, b) PROVE Served(b)'
  BY DEF Starts
<1> DEFINE n == Len(list)
<1>1. PICK i \in 1 .. n : list[i] = b
  BY DEF Holds
<1>2. list \in Seq(Blocks) /\ n \in Nat
  BY ElementsOfLists DEF ListsOK
<1>3. CASE todo' = list
  BY <1>1, <1>3 DEF Served, Due
<1>4. CASE todo' = Reverse(list)
  <2>1. Len(todo') = n /\ \A j \in 1 .. n : todo'[j] = list[n - j + 1]
    BY <1>2, <1>4, ReverseOfSeq
  <2> HIDE DEF n
  <2>2. n - i + 1 \in 1 .. n /\ n - (n - i + 1) + 1 = i
    BY <1>1, <1>2
  <2>3. todo'[n - i + 1] = b
    BY <1>1, <2>1, <2>2
  <2> QED BY <2>1, <2>2, <2>3 DEF Served, Due
<1> QED BY <1>3, <1>4

\* A block begins: the first that is due is now one that ran.
LEMMA BeginServes ==
    ASSUME ListsOK, BlockBegins
    PROVE  DueKept /\ RanKept
<1>1. /\ UNCHANGED todo /\ stack = <<>> /\ todo # <<>> /\ ran' = Append(ran, todo[1])
  BY DEF BlockBegins, Enter, Idle
<1>2. Len(todo) \in Nat /\ Len(todo) >= 1 /\ todo[1] \in Blocks /\ ran \in Seq(Blocks)
  <2>1. todo \in Seq(Blocks) /\ Len(todo) \in Nat /\ Len(todo) >= 1
    BY <1>1, LastOfSeq, ElementsOfLists DEF ListsOK
  <2> QED BY <2>1, ElementsOfLists DEF ListsOK
<1>3. \A b : Holds(ran', b) <=> Holds(ran, b) \/ b = todo[1]
  BY <1>1, <1>2, AppendHolds
<1>4. ASSUME NEW b, NEW i \in 1 .. Len(todo), todo[i] = b PROVE Served(b)'
  <2>1. CASE i = 1
    BY <1>3, <1>4, <2>1 DEF Served
  <2>2. CASE i # 1
    <3>1. i > 1
      BY <1>2, <2>2
    <3> QED BY <1>1, <1>4, <3>1 DEF Served, Due
  <2> QED BY <2>1, <2>2
<1>5. ASSUME NEW b, Served(b) PROVE Served(b)'
  BY <1>3, <1>4, <1>5 DEF Served
<1> QED BY <1>3, <1>5 DEF DueKept, RanKept

\* A block ends: those behind it move up.
LEMMA EndServes ==
    ASSUME StackOK, BottomOK, ListsOK, TodoInv, BlockEnds
    PROVE  UNCHANGED <<at, ran, cause, blocks>> /\ DueKept
<1>1. /\ UNCHANGED <<at, ran, cause, blocks>>
      /\ stack # <<>> /\ stack' = <<>> /\ todo' = Tail(todo)
  BY DEF BlockEnds, BlockEndsWith, history
<1>2. todo # <<>> /\ todo \in Seq(Blocks)
  <2>1. Top.kind \in Bottoms(at) /\ Top.kind \in {"check", "init", "end"}
    BY <1>1, BottomRuns DEF BlockEnds, BlockEndsWith, Nested
  <2>2. at \in Phase
    BY <2>1 DEF Bottoms, Phase
  <2> QED BY <1>1, <2>2 DEF TodoInv, ListsOK
<1> DEFINE n == Len(todo)
<1>3. Len(todo') = n - 1 /\ n \in Nat /\ \A i \in 1 .. n - 1 : todo'[i] = todo[i + 1]
  BY <1>1, <1>2, HeadTailProperties
<1>4. ASSUME NEW b, NEW i \in 1 .. n, Due(i), todo[i] = b PROVE Served(b)'
  <2>1. i > 1
    BY <1>1, <1>4 DEF Due
  <2> HIDE DEF n
  <2>2. i - 1 \in 1 .. n - 1 /\ i - 1 + 1 = i
    BY <1>3, <2>1
  <2>3. todo'[i - 1] = b
    BY <1>3, <1>4, <2>2
  <2> QED BY <1>1, <1>3, <2>2, <2>3 DEF Served, Due
<1>5. \A b : Holds(ran, b)' <=> Holds(ran, b)
  BY <1>1 DEF Holds
<1>6. ASSUME NEW b, Served(b) PROVE Served(b)'
  BY <1>4, <1>5, <1>6 DEF Served
<1> QED BY <1>1, <1>6 DEF DueKept

\* A step that leaves todo alone and begins no block leaves what is due.
LEMMA QuietServes ==
    ASSUME UNCHANGED <<todo, ran>>, stack # <<>> \/ UNCHANGED stack
    PROVE  DueKept
BY DEF DueKept, Served, Due, Holds

\* Every step: where run() goes, and that no block is taken from its list, none that ran
\* is forgotten and none that is due is passed over.
LEMMA RunMoves ==
    ASSUME StackOK, BottomOK, ListsOK, TodoInv, [Next]_vars
    PROVE  (Stays \/ Moves) /\ RanKept /\ ListsKept
<1> USE DEF history, interp
<1>0. UNCHANGED blocks \/ Registers
  <2>1. CASE UNCHANGED vars
    BY <2>1 DEF vars
  <2> QED BY <2>1, Split, CodeFrame, DriverFrame DEF TopRegister
<1>13. ListsKept
  BY <1>0, RegisteredKept
<1>14. UNCHANGED ran => RanKept
  BY DEF RanKept, Holds
<1>1. CASE TopBegin \/ TopUse \/ TopRegister \/ Destroy
  <2>1. UNCHANGED <<at, cause, ran>> /\ at \notin Phase
    BY <1>1 DEF TopBegin, TopUse, TopRegister, Registers, Destroy, Phase
  <2> QED BY <1>13, <1>14, <2>1 DEF Stays
<1>2. CASE DestroyEnds
  <2>1. "destroy" \in Bottoms(at)
    BY <1>2, BottomRuns DEF DestroyEnds, DestroyParks, Nested
  <2>2. UNCHANGED <<at, cause, ran>> /\ at \notin Phase
    BY <1>2, <2>1 DEF DestroyEnds, DestroyParks, Bottoms, Phase
  <2> QED BY <1>13, <1>14, <2>2 DEF Stays
<1>3. CASE CompileFails
  <2>1. /\ at = "compile" /\ at' = "END" /\ cause' = "compile" /\ UNCHANGED ran
        /\ stack' = <<>> /\ todo' = Reverse(ends)
    BY <1>3 DEF CompileFails, Idle, StartEnds, Ended
  <2>2. Starts(ends)
    BY <2>1, StartsAll
  <2> QED BY <1>13, <1>14, <2>1, <2>2 DEF Moves
<1>4. CASE EagerEnds
  <2>1. UNCHANGED ran /\ at = "compile" /\ stack' = <<>>
    BY <1>4 DEF EagerEnds
  <2>2. \/ UNCHANGED <<at, cause>>
        \/ at' = "exited" /\ cause' = "skip"
        \/ at' = "END" /\ cause' = "abort" /\ todo' = Reverse(ends)
    BY <1>4 DEF EagerEnds, Ended, StartEnds
  <2>3. at' = "END" /\ todo' = Reverse(ends) => Starts(ends)
    BY <2>1, StartsAll
  <2> QED BY <1>13, <1>14, <2>1, <2>2, <2>3 DEF Moves, Stays, Phase
<1>5. CASE CompileEnds
  <2>1. /\ at = "compile" /\ at' = "CHECK" /\ UNCHANGED <<cause, ran>>
        /\ stack' = <<>> /\ todo' = Reverse(checks)
    BY <1>5 DEF CompileEnds, Idle
  <2>2. Starts(checks)
    BY <2>1, StartsAll
  <2> QED BY <1>13, <1>14, <2>1, <2>2 DEF Moves
<1>6. CASE BlockBegins
  <2>1. UNCHANGED <<at, cause>>
    BY <1>6 DEF BlockBegins
  <2> QED BY <1>6, <1>13, <2>1, BeginServes DEF Stays
<1>7. CASE BlockEnds
  <2>1. UNCHANGED <<at, ran, cause>> /\ DueKept
    BY <1>7, EndServes
  <2> QED BY <1>13, <1>14, <2>1 DEF Stays
<1>8. CASE PhaseEnds
  <2>1. UNCHANGED <<cause, ran>> /\ stack = <<>> /\ todo = <<>>
    BY <1>8 DEF PhaseEnds, Idle
  <2>2. \/ at = "CHECK" /\ at' = "INIT" /\ todo' = inits /\ stack' = <<>>
        \/ at = "INIT" /\ at' = "RUN"
        \/ at = "lexical" /\ at' = "END" /\ todo' = Reverse(ends) /\ stack' = <<>>
    BY <1>8, <2>1 DEF PhaseEnds, StartEnds
  <2>3. /\ todo' = inits /\ stack' = <<>> => Starts(inits)
        /\ todo' = Reverse(ends) /\ stack' = <<>> => Starts(ends)
    BY StartsAll
  <2> QED BY <1>13, <1>14, <2>1, <2>2, <2>3 DEF Moves
<1>9. CASE MainEnds
  <2>1. at = "RUN"
    <3>1. "main" \in Bottoms(at)
      BY <1>9, BottomRuns DEF MainEnds, Nested
    <3> QED BY <3>1 DEF Bottoms
  <2>2. at' = "lexical" /\ cause' \in {"end", "exit", "die", "jump"} /\ UNCHANGED ran
    BY <1>9 DEF MainEnds, Ended
  <2> QED BY <1>13, <1>14, <2>1, <2>2 DEF Moves
<1>10. CASE EndsDone \/ RunReturns
  <2>1. \/ /\ at = "END" /\ UNCHANGED <<cause, ran>> /\ todo = <<>>
           /\ \/ cause \in {"abort", "compile"} /\ at' = "exited"
              \/ cause \notin {"abort", "compile"} /\ at' = "DESTRUCT"
        \/ at = "DESTRUCT" /\ at' = "exited" /\ UNCHANGED <<cause, ran>>
    BY <1>10 DEF EndsDone, RunReturns, ReturnWith
  <2> QED BY <1>13, <1>14, <2>1 DEF Moves
<1>11. CASE ParseBeginEnds \/ ParseHandler \/ ParseFails
  <2>1. /\ UNCHANGED ran
        /\ \/ at = "parse" /\ at' = at /\ cause' = cause
           \/ at = "parse" /\ at' = "handler" /\ cause' = cause
           \/ at \in {"parse", "handler"} /\ at' = "exited" /\ cause' = "parse"
    BY <1>11 DEF ParseBeginEnds, ParseHandler, ParseFails, Ended
  <2> QED BY <1>13, <1>14, <2>1 DEF Moves, Stays, Phase
<1>12. CASE Code \/ UNCHANGED vars
  <2>1. UNCHANGED <<at, todo, ran, cause>> /\ (stack # <<>> \/ UNCHANGED stack)
    BY <1>12, CodeFrame DEF vars
  <2>2. DueKept
    BY <2>1, QuietServes
  <2> QED BY <1>13, <1>14, <2>1, <2>2 DEF Stays
<1> QED
  BY Split, <1>1, <1>2, <1>3, <1>4, <1>5, <1>6, <1>7, <1>8, <1>9, <1>10, <1>11, <1>12
  DEF Driver

\* How the program ended without its main program says how far it got.
CauseInv ==
    /\ cause \in {"skip", "parse"} => at = "exited"
    /\ cause \in {"abort", "compile"} => at \in {"END", "exited"}
\* A block on one of the lists is still in time, or is served, or the program has ended.
CheckCovered(b) ==
    \/ at \in Compiling /\ Holds(checks, b)
    \/ at = "CHECK" /\ Served(b)
    \/ Holds(ran, b) \/ cause \in NotCompiled
InitCovered(b) ==
    \/ at \in Compiling \cup {"CHECK"} /\ Holds(inits, b)
    \/ at = "INIT" /\ Served(b)
    \/ Holds(ran, b) \/ cause \in NotCompiled
EndCovered(b) ==
    \/ at \in InTime \cup {"handler"} /\ Holds(ends, b)
    \/ at = "END" /\ Served(b)
    \/ Holds(ran, b) \/ cause \in {"skip", "parse"}

\* When all is run, what is served has run.
LEMMA AllServed ==
    ASSUME todo = <<>>, NEW b, Served(b)
    PROVE  Holds(ran, b)
<1>1. \A i : ~ (i \in 1 .. Len(todo))
  BY EmptySeq
<1> QED BY <1>1 DEF Served, Due

\* No step leaves a block behind.
LEMMA CoverStep ==
    ASSUME PhasesInv, CauseInv, [Next]_vars, NEW b
    PROVE  /\ CauseInv'
           /\ CheckCovered(b) => CheckCovered(b)'
           /\ InitCovered(b) => InitCovered(b)'
           /\ EndCovered(b) => EndCovered(b)'
<1>0. (Stays \/ Moves) /\ RanKept /\ ListsKept
  BY RunMoves, TypeGroups DEF PhasesInv
<1>1. /\ Holds(ran, b) => Holds(ran, b)'
      /\ Holds(checks, b) => Holds(checks, b)'
      /\ Holds(inits, b) => Holds(inits, b)'
      /\ Holds(ends, b) => Holds(ends, b)'
  <2>1. /\ Holds(ran, b)' <=> Holds(ran', b)
        /\ Holds(checks, b)' <=> Holds(checks', b)
        /\ Holds(inits, b)' <=> Holds(inits', b)
        /\ Holds(ends, b)' <=> Holds(ends', b)
    BY DEF Holds
  <2>2. /\ Holds(ran, b) => Holds(ran', b)
        /\ Holds(checks, b) => Holds(checks', b)
        /\ Holds(inits, b) => Holds(inits', b)
        /\ Holds(ends, b) => Holds(ends', b)
    BY <1>0 DEF RanKept, ListsKept
  <2> QED BY <2>1, <2>2
<1>2. todo = <<>> => (Served(b) => Holds(ran, b))
  BY AllServed
<1>3. CauseInv'
  <2>1. CASE Stays
    BY <2>1 DEF CauseInv, Stays
  <2>2. CASE Moves
    BY <2>2 DEF CauseInv, Moves
  <2> QED BY <1>0, <2>1, <2>2
<1>4. /\ Stays => (at \in Phase /\ Served(b) => Served(b)')
      /\ Starts(checks) => (Holds(checks, b) => Served(b)')
      /\ Starts(inits) => (Holds(inits, b) => Served(b)')
      /\ Starts(ends) => (Holds(ends, b) => Served(b)')
  BY DEF Stays, DueKept, Starts
<1>5. CheckCovered(b) => CheckCovered(b)'
  BY <1>0, <1>1, <1>2, <1>4 DEF CheckCovered, CauseInv, Stays, Moves, Compiling, NotCompiled, Phase
<1>6. InitCovered(b) => InitCovered(b)'
  BY <1>0, <1>1, <1>2, <1>4 DEF InitCovered, CauseInv, Stays, Moves, Compiling, NotCompiled, Phase
<1>7. EndCovered(b) => EndCovered(b)'
  BY <1>0, <1>1, <1>2, <1>4 DEF EndCovered, CauseInv, Stays, Moves, InTime, Phase
<1> QED BY <1>3, <1>5, <1>6, <1>7

\* For any number of blocks and whatever they and the main program do, run() passes over
\* no block that was registered in time.
THEOREM NoBlockForgotten == Spec => NoneForgotten
<1> SUFFICES ASSUME NEW b \in 1 .. MaxBlocks
             PROVE  Spec => /\ [](b \in ToSet(checks) /\ at \in {"parse", "compile"}
                                    => [](at \notin Compiling \cup {"CHECK"}
                                            => b \in ToSet(ran) \/ cause \in NotCompiled))
                            /\ [](b \in ToSet(inits) /\ at \in {"parse", "compile", "CHECK"}
                                    => [](at \notin Compiling \cup {"CHECK", "INIT"}
                                            => b \in ToSet(ran) \/ cause \in NotCompiled))
                            /\ [](b \in ToSet(ends) /\ at \in InTime
                                    => [](at \in {"DESTRUCT", "exited"}
                                            => b \in ToSet(ran) \/ cause \in {"skip", "parse"}))
  BY DEF NoneForgotten
<1>1. Init => CauseInv
  BY DEF Init, CauseInv
<1>2. PhasesInv /\ CauseInv /\ [Next]_vars =>
        /\ CauseInv'
        /\ CheckCovered(b) => CheckCovered(b)'
        /\ InitCovered(b) => InitCovered(b)'
        /\ EndCovered(b) => EndCovered(b)'
  BY CoverStep
<1>3. PhasesInv => /\ b \in ToSet(checks) <=> Holds(checks, b)
                   /\ b \in ToSet(inits) <=> Holds(inits, b)
                   /\ b \in ToSet(ends) <=> Holds(ends, b)
                   /\ b \in ToSet(ran) <=> Holds(ran, b)
  <2> SUFFICES ASSUME PhasesInv
               PROVE  \A list \in {checks, inits, ends, ran} : b \in ToSet(list) <=> Holds(list, b)
    OBVIOUS
  <2>1. \A list \in {checks, inits, ends, ran} : DOMAIN list = 1 .. Len(list)
    BY DEF PhasesInv, TypeOK
  <2> QED BY <2>1 DEF ToSet, Holds
<1>4. PhasesInv =>
        /\ b \in ToSet(checks) /\ at \in {"parse", "compile"} => CheckCovered(b)
        /\ b \in ToSet(inits) /\ at \in {"parse", "compile", "CHECK"} => InitCovered(b)
        /\ b \in ToSet(ends) /\ at \in InTime => EndCovered(b)
  BY <1>3 DEF CheckCovered, InitCovered, EndCovered, Compiling
<1>5. PhasesInv =>
        /\ CheckCovered(b) => (at \notin Compiling \cup {"CHECK"}
                                  => b \in ToSet(ran) \/ cause \in NotCompiled)
        /\ InitCovered(b) => (at \notin Compiling \cup {"CHECK", "INIT"}
                                 => b \in ToSet(ran) \/ cause \in NotCompiled)
        /\ EndCovered(b) => (at \in {"DESTRUCT", "exited"}
                                => b \in ToSet(ran) \/ cause \in {"skip", "parse"})
  BY <1>3 DEF CheckCovered, InitCovered, EndCovered, InTime
<1> QED BY <1>1, <1>2, <1>4, <1>5, SpecPhases, PTL DEF Spec
=============================================================================
