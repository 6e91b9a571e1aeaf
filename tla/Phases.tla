------------------------------- MODULE Phases -------------------------------
(***************************************************************************)
(* The life of a program: what `Interpreter::run` does from the first      *)
(* top-level statement to the exit status, and the files and strings that  *)
(* user code loads on the way.  `at` is the place run() has reached (and   *)
(* with it ${^GLOBAL_PHASE}); `stack` holds the pieces of user code being  *)
(* executed: a phase block or the main program, and on it the files,       *)
(* strings, BEGIN blocks and import subs it loads.  What a piece of user   *)
(* code does is any sequence of the statements that concern the phases;    *)
(* `flow` is what its statement has just returned.                         *)
(***************************************************************************)
EXTENDS Integers, Sequences, FiniteSets, SequencesExt

CONSTANTS Files,        \* files that exist; `Absent` is a file that does not
          Absent,
          Codes,        \* arguments of exit
          Statuses,     \* values of $?
          Errnos,       \* values of $!
          MaxBlocks,    \* END, CHECK and INIT blocks registered
          MaxFuel,      \* statements of user code that matter here
          MaxDepth      \* nested pieces of user code

ASSUME PhasesAssumption ==
    /\ Absent \notin Files
    /\ Codes \subseteq Nat /\ 0 \in Codes
    /\ Statuses \subseteq Nat /\ 0 \in Statuses
    /\ Errnos \subseteq Nat /\ 0 \in Errnos
    /\ MaxBlocks \in Nat /\ MaxFuel \in Nat /\ MaxDepth \in Nat

VARIABLES at,          \* where run() is
          stack,       \* user code being executed, innermost last
          flow,        \* what the innermost code's statement has returned
          pending,     \* pending_flow
          errsv,       \* $@ is not empty
          query,       \* $?
          errno,       \* $!
          exitCode,    \* self.exit_code
          setAfter,    \* the exit code an early return assigns after the END blocks
          ends, checks, inits, \* registered blocks
          todo,        \* the clone of a list that a phase is running
          required,    \* required_files
          inc,         \* keys of %INC
          fuel,
          ran,         \* history: blocks executed, in order
          loads,       \* history: times a file's body was started by require or use
          cause,       \* history: how the main program or its compilation ended
          verdict,     \* history: the exit code that ending asked for
          lateExit     \* history: a file executed since then has called exit

interp == <<pending, errsv, query, errno>>
blocks == <<ends, checks, inits>>
loaded == <<required, inc, loads>>
history == <<cause, verdict, lateExit>>
vars == <<at, stack, flow, interp, exitCode, setAfter, blocks, todo, loaded,
          fuel, ran, history>>

NoCode == -1
Places == {"parse", "handler", "compile", "CHECK", "INIT", "RUN", "lexical",
           "END", "DESTRUCT", "exited"}
Running == [tag |-> "Running"]
None == [tag |-> "None"]
Die == [tag |-> "Die"]
Jump == [tag |-> "Jump"]
Return(defined) == [tag |-> "Return", defined |-> defined]
Exit(c) == [tag |-> "Exit", code |-> c]
Raised == {Die} \cup {Exit(c) : c \in Codes \cup {2}}
Flows == {Running, None, Die, Jump, Return(TRUE), Return(FALSE)} \cup Raised

\* kind: what is being executed; file and how: which file and which construct
\* loads it; stage: a file or string runs its BEGIN blocks before its statements.
Unit(kind, file, how, stage) ==
    [kind |-> kind, file |-> file, how |-> how, stage |-> stage]
Block(kind) == Unit(kind, Absent, "", "run")
Top == stack[Len(stack)]
Below == Front(stack)
InCode == stack # <<>> /\ flow = Running
Idle == stack = <<>> /\ at # "exited"
Within(kind) == InCode /\ Top.kind = kind
EvalDepth == Cardinality({i \in DOMAIN stack : stack[i].kind = "string"})
Spend == fuel > 0 /\ fuel' = fuel - 1

Init ==
    /\ at \in {"compile", "parse"}
    /\ stack = <<>> /\ flow = Running /\ pending = None /\ errsv = FALSE
    /\ query = 0 /\ errno = 0 /\ exitCode = 0 /\ setAfter = NoCode
    /\ ends = <<>> /\ checks = <<>> /\ inits = <<>> /\ todo = <<>>
    /\ required = {} /\ inc = {} /\ loads = [f \in Files |-> 0]
    /\ fuel = MaxFuel /\ ran = <<>>
    /\ cause = "none" /\ verdict = NoCode /\ lateExit = FALSE

-----------------------------------------------------------------------------
(* run(): the top-level statements in source order.                        *)

Enter(unit) == stack' = <<unit>> /\ flow' = Running

\* BEGIN { ... }
TopBegin ==
    /\ Idle /\ at \in {"compile", "parse"} /\ Spend
    /\ Enter(Block("begin"))
    /\ UNCHANGED <<at, interp, exitCode, setAfter, blocks, todo, loaded, ran, history>>

\* use Module; a statement already deferred to the main program may hold a `use`
\* of an absent module, which is reported first (CompileFails).
TopUse ==
    /\ Idle /\ at = "compile" /\ Spend
    /\ Enter(Unit("use", Absent, "", "compile"))
    /\ UNCHANGED <<at, interp, exitCode, setAfter, blocks, todo, loaded, ran, history>>

NewBlock == Len(ends) + Len(checks) + Len(inits) + 1

\* END, CHECK and INIT blocks, at the top level or executed as a statement.
Registers ==
    /\ NewBlock <= MaxBlocks /\ Spend
    /\ \/ ends' = Append(ends, NewBlock) /\ UNCHANGED <<checks, inits>>
       \/ checks' = Append(checks, NewBlock) /\ UNCHANGED <<ends, inits>>
       \/ inits' = Append(inits, NewBlock) /\ UNCHANGED <<ends, checks>>
    /\ UNCHANGED <<at, stack, flow, interp, exitCode, setAfter, todo, loaded, ran, history>>

TopRegister == Idle /\ at = "compile" /\ Registers

Ended(why, code) == cause' = why /\ verdict' = code /\ UNCHANGED lateExit

\* run_end_blocks_for_compile_error: the list is cloned, so blocks registered by
\* an END block are not run.
\* (Faulty variant: in the order of registration.)
StartEndsInOrder == at' = "END" /\ todo' = ends
StartEnds == at' = "END" /\ todo' = Reverse(ends)

\* A deferred statement uses an absent module or needs File::Glob.  Before an
\* eager `use` the status is assigned after the END blocks, at the end before them.
CompileFails ==
    /\ Idle /\ at = "compile"
    /\ \/ setAfter' = 2 /\ UNCHANGED exitCode
       \/ exitCode' = 2 /\ UNCHANGED setAfter
    /\ Ended("compile", 2) /\ StartEnds
    /\ UNCHANGED <<stack, flow, interp, blocks, loaded, fuel, ran>>

\* A top-level BEGIN or use has ended.
EagerEnds ==
    /\ stack # <<>> /\ Len(stack) = 1 /\ at = "compile" /\ flow # Running
    /\ Top.kind \in {"begin", "use"}
    /\ stack' = <<>> /\ flow' = Running
    /\ \/ /\ flow.tag \notin {"Die", "Exit"}
          /\ UNCHANGED <<at, todo, exitCode, setAfter, history>>
       \/ /\ flow = Exit(0)
          /\ exitCode' = 0 /\ at' = "exited" /\ Ended("skip", 0)
          /\ UNCHANGED <<todo, setAfter>>
       \/ /\ flow.tag = "Exit" /\ flow # Exit(0)
          /\ setAfter' = flow.code /\ StartEnds /\ Ended("abort", flow.code)
          /\ UNCHANGED exitCode
       \/ /\ flow = Die
          /\ exitCode' = 255 /\ StartEnds /\ Ended("abort", 255)
          /\ UNCHANGED setAfter
    /\ UNCHANGED <<interp, blocks, loaded, fuel, ran>>

\* The whole file has been read: CHECK, then INIT, then the main program.
CompileEnds ==
    /\ Idle /\ at = "compile"
    /\ at' = "CHECK" /\ todo' = Reverse(checks)
    /\ UNCHANGED <<stack, flow, interp, exitCode, setAfter, blocks, loaded, fuel, ran, history>>

UnitOf(place) == CASE place = "CHECK" -> "check"
                   [] place = "INIT" -> "init"
                   [] place = "END" -> "end"

BlockBegins ==
    /\ Idle /\ at \in {"CHECK", "INIT", "END"} /\ todo # <<>>
    /\ Enter(Block(UnitOf(at)))
    /\ ran' = Append(ran, Head(todo))
    /\ UNCHANGED <<at, interp, exitCode, setAfter, blocks, todo, loaded, fuel, history>>

\* However it ends, its flow is dropped.  (Faulty variant: a block that
\* exits ends the phase.)
BlockEndsWith(rest) ==
    /\ stack # <<>> /\ Top.kind \in {"check", "init", "end"} /\ flow # Running
    /\ stack' = <<>> /\ flow' = Running /\ todo' = rest
    /\ UNCHANGED <<at, interp, exitCode, setAfter, blocks, loaded, fuel, ran, history>>
BlockEndsOnExit == BlockEndsWith(IF flow.tag = "Exit" THEN <<>> ELSE Tail(todo))
BlockEnds == BlockEndsWith(Tail(todo))

PhaseEnds ==
    /\ Idle /\ todo = <<>>
    /\ \/ at = "CHECK" /\ at' = "INIT" /\ todo' = inits /\ UNCHANGED <<stack, flow>>
       \/ at = "INIT" /\ at' = "RUN" /\ Enter(Block("main")) /\ UNCHANGED todo
       \/ at = "lexical" /\ StartEnds /\ UNCHANGED <<stack, flow>>
    /\ UNCHANGED <<interp, exitCode, setAfter, blocks, loaded, fuel, ran, history>>

\* `$!` if it is not 0, else `$? >> 8` if that is not 0, else 255.
DieStatus == IF errno # 0 THEN errno % 256
             ELSE IF query \div 256 # 0 THEN (query \div 256) % 256
             ELSE 255

MainEnds ==
    /\ stack # <<>> /\ Top.kind = "main" /\ flow # Running
    /\ stack' = <<>> /\ flow' = Running /\ at' = "lexical"
    /\ \/ /\ flow.tag = "Exit"
          /\ exitCode' = flow.code /\ Ended("exit", flow.code)
       \/ flow = Die /\ exitCode' = DieStatus /\ Ended("die", DieStatus)
       \/ flow = Jump /\ exitCode' = 255 /\ Ended("jump", 255)
       \/ /\ flow.tag \in {"None", "Return"}
          /\ Ended("end", exitCode) /\ UNCHANGED exitCode
    /\ UNCHANGED <<interp, setAfter, blocks, todo, loaded, fuel, ran>>

\* The DESTROY of an object in a lexical, or after END of one in a global.
\* call_sub_named leaves what it raises in pending_flow, where nobody looks.
Destroy ==
    /\ Idle /\ (at = "lexical" \/ at = "DESTRUCT") /\ Spend
    /\ Enter(Block("destroy"))
    /\ UNCHANGED <<at, interp, exitCode, setAfter, blocks, todo, loaded, ran, history>>

\* (Faulty variant: any flow is parked.)
DestroyParks(parked) ==
    /\ stack # <<>> /\ Top.kind = "destroy" /\ flow # Running
    /\ stack' = <<>> /\ flow' = Running
    /\ pending' = parked
    /\ UNCHANGED <<at, errsv, query, errno, exitCode, setAfter, blocks, todo, loaded, fuel, ran, history>>
DestroyEndsParksAll == DestroyParks(flow)
DestroyEnds == DestroyParks(IF flow \in Raised THEN flow ELSE pending)

\* Only the normal path goes on to DESTRUCT; an early return leaves here.
EndsDone ==
    /\ Idle /\ at = "END" /\ todo = <<>>
    /\ \/ cause \in {"compile", "abort"} /\ at' = "exited"
       \/ cause \notin {"compile", "abort"} /\ at' = "DESTRUCT"
    /\ exitCode' = IF setAfter = NoCode THEN exitCode ELSE setAfter
    /\ UNCHANGED <<stack, flow, interp, setAfter, blocks, todo, loaded, fuel, ran, history>>

\* `$?` replaces a status of 0.  (Faulty variant: any status.)
StatusOf(q) == IF (q \div 256) % 256 # 0 THEN (q \div 256) % 256 ELSE q % 256

ReturnWith(code) ==
    /\ Idle /\ at = "DESTRUCT"
    /\ at' = "exited" /\ exitCode' = code
    /\ UNCHANGED <<stack, flow, interp, setAfter, blocks, todo, loaded, fuel, ran, history>>
RunReturnsStatus == ReturnWith(IF query # 0 THEN StatusOf(query) ELSE exitCode)
RunReturns ==
    ReturnWith(IF query # 0 /\ exitCode = 0 THEN StatusOf(query) ELSE exitCode)

-----------------------------------------------------------------------------
(* run_with_parse_error: only BEGIN blocks run, then $SIG{__DIE__}.        *)

ParseBeginEnds ==
    /\ at = "parse" /\ Len(stack) = 1 /\ Top.kind = "begin" /\ flow # Running
    /\ stack' = <<>> /\ flow' = Running
    /\ \/ /\ pending.tag = "Exit"
          /\ exitCode' = pending.code /\ pending' = None /\ at' = "exited"
          /\ Ended("parse", pending.code)
       \/ /\ pending.tag # "Exit"
          /\ UNCHANGED <<at, exitCode, pending, history>>
    /\ UNCHANGED <<errsv, query, errno, setAfter, blocks, todo, loaded, fuel, ran>>

ParseHandler ==
    /\ Idle /\ at = "parse"
    /\ at' = "handler" /\ Enter(Block("handler"))
    /\ UNCHANGED <<interp, exitCode, setAfter, blocks, todo, loaded, fuel, ran, history>>

\* The handler is a sub: what it raises arrives in pending_flow.
ParseFails ==
    /\ at = "handler" /\ stack # <<>> /\ Top.kind = "handler" /\ flow # Running
    /\ LET raised == IF flow \in Raised THEN flow ELSE pending
           code == IF raised.tag = "Exit" THEN raised.code ELSE 255
       IN exitCode' = code /\ Ended("parse", code)
    /\ pending' = None
    /\ stack' = <<>> /\ flow' = Running /\ at' = "exited"
    /\ UNCHANGED <<errsv, query, errno, setAfter, blocks, todo, loaded, fuel, ran>>

-----------------------------------------------------------------------------
(* Statements of user code.                                                *)

\* `system` and an assignment set $?; a failing call or an assignment sets $!.
SetRegister ==
    /\ InCode /\ Top.stage = "run" /\ Top.kind # "use" /\ Spend
    /\ \/ query' \in Statuses \ {query} /\ UNCHANGED errno
       \/ errno' \in Errnos \ {errno} /\ UNCHANGED query
    /\ UNCHANGED <<at, stack, flow, pending, errsv, exitCode, setAfter, blocks, todo, loaded, ran, history>>

StatementRegisters == InCode /\ (Top.stage = "run" \/ Top.kind = "file") /\ Registers

\* $INC{FILE} is a variable of the program.
SetInc ==
    /\ InCode /\ Top.stage = "run" /\ Top.kind # "use" /\ Spend
    /\ \E f \in Files : inc' = IF f \in inc THEN inc \ {f} ELSE inc \cup {f}
    /\ UNCHANGED <<at, stack, flow, interp, exitCode, setAfter, blocks, todo, required, loads, ran, history>>

\* An expression raises where its statement does not look (a condition, say),
\* and a later statement takes what it finds in pending_flow.
Park ==
    /\ InCode /\ Top.stage = "run" /\ Top.kind # "use" /\ Spend
    /\ pending' \in {Die} \cup {Exit(c) : c \in Codes}
    /\ UNCHANGED <<at, stack, flow, errsv, query, errno, exitCode, setAfter, blocks, todo, loaded, ran, history>>

\* (Faulty variant: it reads and does not take.)
Takes(left) ==
    /\ InCode /\ Top.stage = "run" /\ Top.kind # "use" /\ pending # None
    /\ flow' = pending /\ pending' = left
    /\ UNCHANGED <<at, stack, errsv, query, errno, exitCode, setAfter, blocks, todo, loaded, fuel, ran, history>>
TakePendingReads == Takes(pending)
TakePending == Takes(None)

\* A statement ends the list it is in, or is the last one.
StatementEnds ==
    /\ InCode /\ Top.stage = "run" /\ Top.kind # "use"
    /\ \/ flow' = None /\ UNCHANGED fuel
       \/ /\ Spend
          /\ flow' \in {Die, Jump, Return(TRUE), Return(FALSE)} \cup {Exit(c) : c \in Codes}
    /\ UNCHANGED <<at, stack, interp, exitCode, setAfter, blocks, todo, loaded, ran, history>>

-----------------------------------------------------------------------------
(* require, use and do FILE.                                               *)

Push(unit) == stack' = Append(stack, unit) /\ flow' = Running

\* The statement that loads is over and its list goes on; a `use` goes on to call
\* the module's import, if it has one.
Continue(rest, how) ==
    /\ flow' = Running
    /\ \/ stack' = rest
       \/ how = "use" /\ stack' = Append(rest, Block("import"))

\* What the statement that loaded a file makes of its result: `undef` is what a
\* file that died, exited or returned undef gives.  Stmt::Require takes whatever
\* is pending and drops it unless it is an exit; Stmt::Use takes any flow.
Resume(rest, how, undef, pend, err) ==
    CASE how = "stmt" /\ undef ->
            /\ pending' = None /\ stack' = rest
            /\ flow' = IF pend.tag = "Exit" THEN pend ELSE IF err THEN Die ELSE Running
      [] how = "use" /\ pend # None ->
            /\ pending' = None /\ stack' = rest
            /\ flow' = IF EvalDepth > 0 THEN Die ELSE pend
      [] OTHER -> pending' = pend /\ Continue(rest, how)

MayLoad(how) ==
    /\ InCode /\ Len(stack) < MaxDepth
    /\ \/ Top.kind = "use" /\ Top.stage = "compile" /\ how = "use" /\ UNCHANGED fuel
       \/ Top.kind # "use" /\ Top.stage = "run" /\ Spend

\* A `use` at the top level is one statement: it is over once it has loaded.
Caller == IF Top.kind = "use" THEN Append(Below, [Top EXCEPT !.stage = "over"])
          ELSE stack

\* Not in @INC: the statements `require` and `use` die inside an eval and exit
\* with 2 outside.
NotFound == IF EvalDepth > 0 THEN Die ELSE Exit(2)

\* A path, or a require that is an expression, gets as far as do_require, which
\* only sets $@.
LoadAbsent(how) ==
    /\ MayLoad(how)
    /\ \/ /\ how # "expr"
          /\ stack' = Caller /\ flow' = NotFound
          /\ UNCHANGED <<pending, errsv>>
       \/ /\ how # "use"
          /\ errsv' = TRUE /\ Resume(Caller, how, TRUE, pending, TRUE)
    /\ UNCHANGED <<at, query, errno, exitCode, setAfter, blocks, todo, loaded, ran, history>>

\* do_require of a file that is loaded; `use` looks at %INC itself first.
LoadAgain(how, f) ==
    /\ f \in required \cup inc /\ MayLoad(how)
    /\ IF how = "use" /\ f \in inc
       THEN Continue(Caller, how) /\ UNCHANGED <<required, pending>>
       ELSE Resume(Caller, how, FALSE, pending, errsv) /\ required' = required \cup {f}
    /\ UNCHANGED <<at, errsv, query, errno, exitCode, setAfter, blocks, todo, inc, loads, ran, history>>

\* do_require: the file counts as loaded before its first statement runs.
\* (Faulty variant: it does not yet.)
MarkLoadedLater(f) == UNCHANGED <<required, inc>>
MarkLoaded(f) ==
    required' = required \cup {f} /\ inc' = inc \cup {f}

LoadFile(how, f) ==
    /\ f \notin required \cup inc /\ MayLoad(how)
    /\ MarkLoaded(f) /\ loads' = [loads EXCEPT ![f] = @ + 1]
    /\ stack' = Append(Caller, Unit("file", f, how, "compile")) /\ flow' = Running
    /\ errsv' = FALSE
    /\ UNCHANGED <<at, pending, query, errno, exitCode, setAfter, blocks, todo, ran, history>>

\* do FILE reads the file each time; an unreadable one sets $!, a syntax error $@.
DoFile ==
    /\ MayLoad("do")
    /\ \/ /\ \E f \in Files : Push(Unit("file", f, "do", "run"))
          /\ errsv' = FALSE /\ UNCHANGED errno
       \/ errno' \in Errnos \ {0} /\ UNCHANGED <<stack, flow, errsv>>
       \/ errsv' = TRUE /\ UNCHANGED <<stack, flow, errno>>
    /\ Top.kind # "use"
    /\ UNCHANGED <<at, pending, query, exitCode, setAfter, blocks, todo, loaded, ran, history>>

\* BEGIN of a file (its flow is ignored) or of a string.
NestedBegin ==
    /\ InCode /\ Top.kind \in {"file", "string"} /\ Len(stack) < MaxDepth /\ Spend
    /\ Top.stage = "compile" \/ Top.how = "do"
    /\ Push(Block("begin"))
    /\ UNCHANGED <<at, interp, exitCode, setAfter, blocks, todo, loaded, ran, history>>

BeginsDone ==
    /\ InCode /\ Top.kind \in {"file", "string"} /\ Top.stage = "compile"
    /\ stack' = Append(Below, [Top EXCEPT !.stage = "run"])
    /\ UNCHANGED <<at, flow, interp, exitCode, setAfter, blocks, todo, loaded, fuel, ran, history>>

NestedBeginEnds ==
    /\ Len(stack) > 1 /\ Top.kind = "begin" /\ flow # Running
    /\ LET unit == Below[Len(Below)]
           stops == unit.kind = "string" /\ flow \in Raised
       IN /\ stack' = IF stops THEN Front(Below) ELSE Below
          /\ errsv' = IF stops /\ flow = Die THEN TRUE ELSE errsv
    /\ flow' = Running
    /\ UNCHANGED <<at, pending, query, errno, exitCode, setAfter, blocks, todo, loaded, fuel, ran, history>>

\* exit in a file is assigned to exit_code at once, and raised again.
FileExits(c) ==
    /\ exitCode' = c
    /\ lateExit' = (lateExit \/ verdict # NoCode)
    /\ UNCHANGED <<cause, verdict>>

FileEnds ==
    /\ stack # <<>> /\ Top.kind = "file" /\ flow \notin {Running, Jump}
    /\ errsv' = (errsv \/ flow = Die)
    /\ IF flow.tag = "Exit" /\ Top.how # "do"
       THEN FileExits(flow.code) ELSE UNCHANGED <<exitCode, history>>
    /\ Resume(Below, Top.how,
              flow \in Raised \/ flow = Return(FALSE),
              IF flow.tag = "Exit" THEN flow ELSE pending,
              errsv')
    /\ UNCHANGED <<at, query, errno, setAfter, blocks, todo, loaded, fuel, ran>>

ImportEnds ==
    /\ stack # <<>> /\ Top.kind = "import" /\ flow # Running
    /\ LET raised == IF flow \in Raised THEN flow ELSE pending
       IN flow' = IF raised = None THEN Running ELSE raised
    /\ stack' = Below /\ pending' = None
    /\ UNCHANGED <<at, errsv, query, errno, exitCode, setAfter, blocks, todo, loaded, fuel, ran, history>>

UseOver ==
    /\ Within("use") /\ Top.stage = "over"
    /\ flow' = None
    /\ UNCHANGED <<at, stack, interp, exitCode, setAfter, blocks, todo, loaded, fuel, ran, history>>

-----------------------------------------------------------------------------
(* eval STRING.                                                            *)

EvalString ==
    /\ InCode /\ Top.kind # "use" /\ Top.stage = "run" /\ Len(stack) < MaxDepth /\ Spend
    /\ \/ Push(Unit("string", Absent, "", "compile")) /\ errsv' = FALSE
       \/ errsv' = TRUE /\ UNCHANGED <<stack, flow>>   \* it does not compile
    /\ UNCHANGED <<at, pending, query, errno, exitCode, setAfter, blocks, todo, loaded, ran, history>>

StringEnds ==
    /\ stack # <<>> /\ Top.kind = "string" /\ flow.tag \in {"None", "Return", "Die"}
    /\ stack' = Below /\ flow' = Running
    /\ errsv' = CASE flow.tag = "None" -> errsv
                  [] flow.tag = "Return" -> FALSE
                  [] flow.tag = "Die" -> TRUE
    /\ UNCHANGED <<at, pending, query, errno, exitCode, setAfter, blocks, todo, loaded, fuel, ran, history>>

\* `_ => {}`: the statement loops of files and strings go on after a jump that
\* no loop took, those of strings also after an exit.
Ignored ==
    /\ stack # <<>>
    /\ \/ Top.kind = "file" /\ flow = Jump
       \/ Top.kind = "string" /\ flow.tag \in {"Jump", "Exit"}
    /\ flow' = Running
    /\ UNCHANGED <<at, stack, interp, exitCode, setAfter, blocks, todo, loaded, fuel, ran, history>>

-----------------------------------------------------------------------------
Terminated == at = "exited" /\ UNCHANGED vars

Load ==
    \E how \in {"stmt", "use", "expr"} :
        \/ LoadAbsent(how)
        \/ \E f \in Files : LoadAgain(how, f) \/ LoadFile(how, f)

Driver == \/ TopBegin \/ TopUse \/ TopRegister \/ CompileFails \/ EagerEnds
          \/ CompileEnds \/ BlockBegins \/ BlockEnds \/ PhaseEnds \/ MainEnds
          \/ Destroy \/ DestroyEnds \/ EndsDone \/ RunReturns
          \/ ParseBeginEnds \/ ParseHandler \/ ParseFails

Code == \/ SetRegister \/ StatementRegisters \/ SetInc \/ Park \/ TakePending
        \/ StatementEnds \/ Load \/ DoFile \/ NestedBegin \/ BeginsDone
        \/ NestedBeginEnds \/ FileEnds \/ ImportEnds \/ UseOver
        \/ EvalString \/ StringEnds \/ Ignored

Next == Driver \/ Code \/ Terminated

Spec == Init /\ [][Next]_vars
FairSpec == Spec /\ WF_vars(Driver \/ Code)

-----------------------------------------------------------------------------
(* Properties.                                                             *)

Units == [kind : {"begin", "use", "check", "init", "main", "end", "destroy",
                  "handler", "file", "string", "import"},
          file : Files \cup {Absent}, how : {"", "stmt", "use", "expr", "do"},
          stage : {"compile", "run", "over"}]

\* Types; registers and places (run, eval_string, eval_file_string).
TypeOK ==
    /\ at \in Places
    /\ stack \in Seq(Units) /\ Len(stack) <= MaxDepth + 1
    /\ flow \in Flows /\ pending \in {None} \cup Raised /\ errsv \in BOOLEAN
    /\ query \in Statuses /\ errno \in Errnos
    /\ exitCode \in Nat /\ setAfter \in Nat \cup {NoCode}
    /\ \A list \in {ends, checks, inits, todo, ran} : list \in Seq(1..MaxBlocks)
    /\ required \subseteq Files /\ inc \subseteq Files /\ loads \in [Files -> Nat]
    /\ fuel \in 0..MaxFuel /\ verdict \in Nat \cup {NoCode}
    /\ lateExit \in BOOLEAN
    /\ cause \in {"none", "skip", "abort", "compile", "parse", "end", "exit", "die", "jump"}

\* Blocks run in the order perl documents - CHECK and END last registered first,
\* INIT first registered first - and none runs twice, whatever path leads to the
\* END blocks and whatever blocks the running ones register.
RunOrder ==
    LET pos(b) == CHOOSE i \in DOMAIN ran : ran[i] = b
        inOrder(list) == \A i, j \in DOMAIN list :
            i < j /\ {list[i], list[j]} \subseteq ToSet(ran) => pos(list[i]) < pos(list[j])
    IN /\ IsInjective(ran)
       /\ inOrder(inits) /\ inOrder(Reverse(ends)) /\ inOrder(Reverse(checks))

\* A file is not run a second time by require or use: not when it requires itself
\* or requires one that requires it, not after it died or exited in the middle,
\* not when $INC{FILE} is deleted (do_require).
LoadedOnce == \A f \in Files : loads[f] <= 1

\* The exit status is the one that the end of the main program, or of its
\* compilation, asked for.  What may still change it: a file run by an END block
\* or destructor that calls exit, and $? when the status would be 0.
StatusKept ==
    at = "exited" =>
        \/ exitCode = verdict \/ lateExit
        \/ verdict = 0 /\ query # 0 /\ exitCode = StatusOf(query)

\* run() always gets to an exit status, if each piece of user code ends: no phase
\* runs its list for ever, none waits for a register that nobody takes.
Terminates == <>(at = "exited")

\* A block registered in time runs, however the main program ends: an END block
\* registered before END unless a BEGIN or use exits with 0 or the program has a
\* syntax error, an INIT block registered before INIT unless compilation ends early.
BlocksRun ==
    \A b \in 1..MaxBlocks :
        /\ (b \in ToSet(ends) /\ at \in {"parse", "compile", "CHECK", "INIT", "RUN", "lexical"})
               ~> (b \in ToSet(ran) \/ cause \in {"skip", "parse"})
        /\ (b \in ToSet(inits) /\ at \in {"parse", "compile", "CHECK"})
               ~> (b \in ToSet(ran) \/ cause \in {"skip", "abort", "compile", "parse"})
=============================================================================
