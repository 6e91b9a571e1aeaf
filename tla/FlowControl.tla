---------------------------- MODULE FlowControl ----------------------------
(***************************************************************************)
(* Control flow of the tree-walking interpreter: exec_stmt / exec_stmts,   *)
(* the sub-call machinery, `do`, `eval`, `map` blocks, `defer` blocks and  *)
(* the two registers through which an expression hands a jump to the       *)
(* statement that contains it (pending_flow, pending_return).              *)
(*                                                                         *)
(* exec_stmt returns a Flow; eval_expr returns a Value, so a `die`, `exit` *)
(* or `last` raised below an expression is parked in pending_flow until    *)
(* some statement looks there.  The Rust call stack is the variable stack: *)
(* one frame per construct being executed, the innermost last.  The        *)
(* program is arbitrary: at each statement or operand any construct in     *)
(* Constructs may come next, so the behaviours are those of every program  *)
(* built from them, up to MaxDepth open constructs and MaxFuel statements. *)
(***************************************************************************)
EXTENDS Integers, Sequences

CONSTANTS
    Labels,      \* loop labels the program uses
    NoLabel,     \* an unlabelled loop, an unlabelled last / next / redo
    Constructs,  \* the constructs the program is built from
    Sites,       \* the places where it evaluates expressions that may jump
    Jumps,       \* the jump statements it uses
    MaxDepth,    \* bound on open constructs
    MaxFuel      \* bound on statements and operands executed

BlockKinds == {"if", "bare", "named", "while", "until", "for", "foreach",
               "cont", "evalS"}                     \* statements with bodies
CallKinds  == {"subS", "subL", "do", "doL", "map", "evalE"}  \* expressions
Kinds      == BlockKinds \cup CallKinds \cup {"file", "defer", "expr"}
AllJumps   == {"Last", "Next", "Redo", "Goto", "GotoSub", "Return"}

\* Where an expression is evaluated.  "stmt", "my", "return", "step" and the
\* operand check of && || // look at pending_flow afterwards; the others do not.
AllSites == {"stmt", "my", "return", "step", "init", "cond", "list", "print",
             "tail", "die", "handler", "operand", "destroy", "defer"}
ExprPhases == AllSites
ListPhases == {"body", "continue", "last", "branch"}
Phases == ListPhases \cup ExprPhases \cup
            {"test", "unwind", "close", "tailcall", "tailed"}

ASSUME FlowControlAssumption ==
    /\ NoLabel \notin Labels
    /\ Constructs \subseteq (BlockKinds \cup CallKinds)
    /\ Sites \subseteq AllSites
    /\ Jumps \subseteq AllJumps
    /\ MaxDepth \in Nat \ {0}
    /\ MaxFuel \in Nat

(***************************************************************************)
(* enum Flow.  "Running" is not a Flow: it says that no statement has just *)
(* returned, control is inside the innermost construct.                    *)
(***************************************************************************)
LabelsN == Labels \cup {NoLabel}
FlowTags == {"None", "Last", "Next", "Redo", "Goto", "GotoSub", "Return",
             "Die", "Exit"}
Flow(t) == [t |-> t, l |-> NoLabel]
Jump(t, l) == [t |-> t, l |-> l]
Flows == [t : FlowTags, l : LabelsN]
None == Flow("None")
Running == Flow("Running")

VARIABLES
    stack,      \* the Rust call stack: frames of open constructs
    flow,       \* Running, or the Flow a statement list has just returned
    pending,    \* pending_flow
    retPending, \* pending_return.is_some()
    errsv,      \* $@ is not empty
    scopes,     \* defer_blocks: deferred bodies registered per lexical scope
    evalDepth,  \* eval_depth
    ctxDepth,   \* call_context.len()
    callDepth,  \* call_stack.len()
    dieDepth,   \* in_die_handler
    fuel,       \* statements and operands left
    outcome     \* what run() made of the main program's Flow

vars == <<stack, flow, pending, retPending, errsv, scopes, evalDepth,
          ctxDepth, callDepth, dieDepth, fuel, outcome>>

Outcomes == {"running", "ok", "die", "exit"}

(***************************************************************************)
(* A frame.  at holds the lengths of the interpreter's parallel stacks when *)
(* the construct was entered, clean whether both registers were empty then. *)
(* Both are history: no action reads them.                                 *)
(***************************************************************************)
Depths == [sc : Nat, ev : Nat, cx : Nat, cs : Nat, dh : Nat]
NoDepth == [sc |-> 0, ev |-> 0, cx |-> 0, cs |-> 0, dh |-> 0]
Frames == [kind : Kinds, label : LabelsN, phase : Phases, held : Flows,
           at : Depths, clean : BOOLEAN]

Live == [sc |-> Len(scopes), ev |-> evalDepth, cx |-> ctxDepth,
         cs |-> callDepth, dh |-> dieDepth]
Frame(k, l, p, d) ==
    [kind |-> k, label |-> l, phase |-> p, held |-> None, at |-> d,
     clean |-> pending = None /\ ~retPending]

Top == stack[Len(stack)]
Parent == stack[Len(stack) - 1]
Pop == SubSeq(stack, 1, Len(stack) - 1)
ReplaceTop(f) == [stack EXCEPT ![Len(stack)] = f]
SetPhase(p) == ReplaceTop([Top EXCEPT !.phase = p])
SetHeld(p, fl) == ReplaceTop([Top EXCEPT !.phase = p, !.held = fl])
\* The innermost frame is done and the one around it goes on as f.
PopTo(f) == [Pop EXCEPT ![Len(stack) - 1] = f]

TopScope == scopes[Len(scopes)]
PushScope == Append(scopes, 0)
PopScope == SubSeq(scopes, 1, Len(scopes) - 1)
----------------------------------------------------------------------------
(***************************************************************************)
(* What exec_stmts does with the Flow of one of its statements.  A Goto is *)
(* looked up among the labels of this list; the bodies of subs and of do / *)
(* map blocks are run statement by statement and do not look.  A `do` block *)
(* also stops after a statement that left pending_return set.              *)
(***************************************************************************)
DirectLists == {"subS", "subL", "do", "doL", "map"}

AfterStmt(f, fl, rp) ==
    IF fl.t = "None"
    THEN {IF f.phase = "last" \/ (f.kind = "do" /\ rp) THEN fl ELSE Running}
    ELSE IF fl.t = "Goto" /\ f.kind \notin DirectLists THEN {fl, Running} ELSE {fl}

AtStmt == /\ stack # <<>>
          /\ flow = Running
          /\ Top.phase \in ListPhases
          /\ fuel > 0
          /\ fuel' = fuel - 1

depths == <<evalDepth, ctxDepth, callDepth, dieDepth>>
registers == <<pending, retPending, errsv>>

\* last / next / redo / goto LABEL / goto &SUB / return
JumpFlows ==
    {Jump(t, l) : t \in Jumps \cap {"Last", "Next", "Redo"}, l \in LabelsN}
      \cup {Jump(t, l) : t \in Jumps \cap {"Goto"}, l \in Labels}
      \cup {Flow(t) : t \in Jumps \cap {"GotoSub", "Return"}}

JumpStmt ==
    /\ AtStmt
    /\ \E fl \in JumpFlows : flow' \in AfterStmt(Top, fl, retPending)
    /\ UNCHANGED <<stack, registers, scopes, depths, outcome>>

\* defer { ... } queues its body on the innermost scope.
DeferStmt ==
    /\ "defer" \in Sites
    /\ AtStmt
    /\ scopes' = [scopes EXCEPT ![Len(scopes)] = @ + 1]
    /\ flow' \in AfterStmt(Top, None, retPending)
    /\ UNCHANGED <<stack, registers, depths, outcome>>

\* A statement whose expression may call, die or exit.
ExprStmt(site) ==
    /\ site \in Sites
    /\ AtStmt
    /\ Len(stack) < MaxDepth
    /\ stack' = Append(stack, Frame("expr", NoLabel, site, Live))
    /\ UNCHANGED <<flow, registers, scopes, depths, outcome>>

\* The last expression of a list-context sub or of a do / map block is
\* evaluated by eval_list / eval_expr directly, not as a statement.
TailExpr ==
    /\ ExprStmt("tail")
    /\ \/ Top.kind \in {"subL", "do"} /\ Top.phase = "body"
       \/ Top.kind \in {"doL", "map"} /\ Top.phase = "last"

\* The statement list of the innermost construct is exhausted.
EndOfList ==
    /\ stack # <<>>
    /\ flow = Running
    /\ Top.phase \in ListPhases
    /\ flow' = None
    /\ UNCHANGED <<stack, registers, scopes, depths, fuel, outcome>>

(***************************************************************************)
(* Entering a construct.                                                   *)
(***************************************************************************)
EntryPhase(k) ==
    CASE k \in {"if", "while", "until"} -> "cond"
      [] k \in {"for", "foreach"} -> "init"
      [] OTHER -> "body"

LabelsOf(k) ==
    CASE k \in {"while", "until", "for", "foreach", "cont"} -> LabelsN
      [] k = "named" -> Labels
      [] OTHER -> {NoLabel}

\* Constructs that push a scope before anything else is evaluated.
EnterBlock(k) ==
    /\ k \in Constructs \cap BlockKinds
    /\ AtStmt
    /\ Len(stack) < MaxDepth
    /\ \E l \in LabelsOf(k) :
         stack' = Append(stack, Frame(k, l, EntryPhase(k), Live))
    /\ scopes' = IF k \in {"until", "foreach"} THEN scopes ELSE PushScope
    /\ evalDepth' = IF k = "evalS" THEN evalDepth + 1 ELSE evalDepth
    /\ errsv' = IF k = "evalS" THEN FALSE ELSE errsv
    /\ UNCHANGED <<flow, pending, retPending, ctxDepth, callDepth, dieDepth, outcome>>
----------------------------------------------------------------------------
(***************************************************************************)
(* Expressions.  Operands are evaluated left to right; only && || // and a *)
(* list literal look at pending_flow between two of them, so any other     *)
(* operator ("operand") goes on after a call that died.                    *)
(***************************************************************************)
InExpr == /\ stack # <<>>
          /\ flow = Running
          /\ Top.kind = "expr"

Operand == /\ InExpr
           /\ fuel > 0
           /\ fuel' = fuel - 1
           /\ Top.phase # "handler"
           /\ pending = None \/ "operand" \in Sites

\* The builtins die (sets $@) and the operators that raise an error.
RaiseDie ==
    /\ Operand
    /\ pending' = Flow("Die")
    /\ errsv' \in {TRUE, errsv}
    /\ UNCHANGED <<stack, flow, retPending, scopes, depths, outcome>>

CallExit ==
    /\ Operand
    /\ pending' = Flow("Exit")
    /\ UNCHANGED <<stack, flow, retPending, errsv, scopes, depths, outcome>>

\* call_sub_named, call_sub_list_named, do BLOCK (scalar and list), a map
\* block, and eval BLOCK used as an operand.
EnterCall(k) ==
    /\ k \in Constructs \cap CallKinds
    /\ Operand
    /\ Len(stack) < MaxDepth
    /\ stack' = Append(stack, Frame(k, NoLabel, "body", Live))
    /\ scopes' = PushScope
    /\ callDepth' = IF k \in {"subS", "subL"} THEN callDepth + 1 ELSE callDepth
    /\ ctxDepth' = IF k \in {"subS", "subL", "map"} THEN ctxDepth + 1 ELSE ctxDepth
    /\ evalDepth' = IF k = "evalE" THEN evalDepth + 1 ELSE evalDepth
    /\ errsv' = IF k = "evalE" THEN FALSE ELSE errsv
    /\ UNCHANGED <<flow, pending, retPending, dieDepth, outcome>>

\* The statement around the expression completes with Flow fl.
Complete(fl) == /\ stack' = Pop
                /\ flow' \in AfterStmt(Parent, fl, retPending')

\* Faulty variants: pending_return is read and not taken, or pending_flow is.
FinishStmtKeepsReturn ==
    /\ InExpr /\ Top.phase = "stmt"
    /\ UNCHANGED retPending
    /\ IF retPending THEN pending' = pending /\ Complete(Flow("Return"))
                     ELSE pending' = None /\ Complete(pending)
    /\ UNCHANGED <<errsv, scopes, depths, fuel, outcome>>
FinishStmtKeepsFlow ==
    /\ InExpr /\ Top.phase = "stmt"
    /\ retPending' = FALSE
    /\ pending' = pending
    /\ Complete(IF retPending THEN Flow("Return") ELSE None)
    /\ UNCHANGED <<errsv, scopes, depths, fuel, outcome>>

\* Stmt::Expr looks at pending_return first, then at pending_flow.
FinishStmt ==
    /\ InExpr /\ Top.phase = "stmt"
    /\ IF retPending
       THEN retPending' = FALSE /\ pending' = pending /\ Complete(Flow("Return"))
       ELSE retPending' = retPending /\ pending' = None /\ Complete(pending)
    /\ UNCHANGED <<errsv, scopes, depths, fuel, outcome>>

\* Faulty variant: my does not look at pending_flow.
FinishMyLooksAway ==
    /\ InExpr /\ Top.phase \in {"my", "return"}
    /\ retPending' = retPending
    /\ pending' = IF Top.phase = "return" THEN None ELSE pending
    /\ Complete(IF Top.phase # "return" THEN None
                ELSE IF pending # None THEN pending ELSE Flow("Return"))
    /\ UNCHANGED <<errsv, scopes, depths, fuel, outcome>>

\* my $x = EXPR and return EXPR look at pending_flow only.
FinishMyOrReturn ==
    /\ InExpr /\ Top.phase \in {"my", "return"}
    /\ retPending' = retPending
    /\ pending' = None
    /\ Complete(IF pending # None THEN pending
                ELSE IF Top.phase = "return" THEN Flow("Return") ELSE None)
    /\ UNCHANGED <<errsv, scopes, depths, fuel, outcome>>

\* print looks at pending_flow to stop its output, and leaves it there.
FinishPrint ==
    /\ InExpr /\ Top.phase = "print"
    /\ UNCHANGED <<registers, scopes, depths, fuel, outcome>>
    /\ Complete(None)

\* The arguments of die are evaluated; then $SIG{__DIE__} is called, unless
\* one is already running, and the statement dies.
FinishDie ==
    /\ InExpr /\ Top.phase = "die"
    /\ Complete(Flow("Die"))
    /\ UNCHANGED <<registers, scopes, depths, fuel, outcome>>

CallHandler ==
    /\ InExpr /\ Top.phase = "die"
    /\ "handler" \in Sites /\ dieDepth = 0
    /\ Len(stack) < MaxDepth
    /\ fuel > 0 /\ fuel' = fuel - 1
    /\ stack' = Append(SetPhase("handler"),
                       Frame("subS", NoLabel, "body", [Live EXCEPT !.dh = dieDepth + 1]))
    /\ dieDepth' = dieDepth + 1
    /\ scopes' = PushScope
    /\ ctxDepth' = ctxDepth + 1
    /\ callDepth' = callDepth + 1
    /\ UNCHANGED <<flow, registers, evalDepth, outcome>>

\* The handler returned: whatever pending_flow holds is taken, and the
\* statement dies (with the handler's message if that was a Die).
FinishHandler ==
    /\ InExpr /\ Top.phase = "handler"
    /\ dieDepth' = dieDepth - 1
    /\ pending' = None
    /\ retPending' = retPending
    /\ Complete(Flow("Die"))
    /\ UNCHANGED <<errsv, scopes, evalDepth, ctxDepth, callDepth, fuel, outcome>>

\* The value of the block is the value of this expression; pending_flow stays.
FinishTail ==
    /\ InExpr /\ Top.phase = "tail"
    /\ stack' = PopTo([Parent EXCEPT !.phase = "close", !.held = None])
    /\ UNCHANGED <<flow, registers, scopes, depths, fuel, outcome>>

\* A condition: nobody looks at pending_flow.
FinishCond ==
    /\ InExpr /\ Top.phase = "cond"
    /\ stack' = PopTo([Parent EXCEPT !.phase = "test"])
    /\ UNCHANGED <<flow, registers, scopes, depths, fuel, outcome>>

\* The list of a foreach is evaluated before its scope is pushed; nobody
\* looks at pending_flow.
FinishList ==
    /\ InExpr /\ Top.phase = "list"
    /\ stack' = PopTo([Parent EXCEPT !.phase = "cond"])
    /\ scopes' = PushScope
    /\ UNCHANGED <<flow, registers, depths, fuel, outcome>>

\* exec_stmt(init) of a C-style for, an expression or a my: its Flow is dropped.
FinishInit ==
    /\ InExpr /\ Top.phase = "init"
    /\ stack' = PopTo([Parent EXCEPT !.phase = "cond"])
    /\ \/ retPending /\ retPending' = FALSE /\ pending' = pending
       \/ retPending' = retPending /\ pending' = None
    /\ UNCHANGED <<flow, errsv, scopes, depths, fuel, outcome>>

Expression ==
    \/ RaiseDie \/ CallExit \/ \E k \in CallKinds : EnterCall(k)
    \/ FinishStmt \/ FinishMyOrReturn \/ FinishPrint \/ FinishDie
    \/ CallHandler \/ FinishHandler \/ FinishTail \/ FinishCond \/ FinishList
    \/ FinishInit
----------------------------------------------------------------------------
(***************************************************************************)
(* Conditions and loops.                                                   *)
(***************************************************************************)
In(kinds, phases) == /\ stack # <<>>
                     /\ flow = Running
                     /\ Top.kind \in kinds
                     /\ Top.phase \in phases

\* Faulty variant: the label is not compared.
MineWhatever(l) == TRUE

\* l.is_none() || l == *label
Mine(l) == l = NoLabel \/ l = Top.label

\* Evaluate an expression that belongs to the construct itself.
OwnExpr(site) ==
    /\ site \in Sites
    /\ fuel > 0 /\ fuel' = fuel - 1
    /\ Len(stack) < MaxDepth
    /\ stack' = Append(stack, Frame("expr", NoLabel, site, Live))
    /\ UNCHANGED <<flow, registers, scopes, depths, outcome>>

EvalOwnExpr ==
    \/ In({"if", "while", "until", "for"}, {"cond"}) /\ OwnExpr("cond")
    \/ In({"for"}, {"init"}) /\ OwnExpr("init")
    \/ In({"for"}, {"step"}) /\ OwnExpr("step")
    \/ In({"foreach"}, {"init"}) /\ OwnExpr("list")

\* An init, list or step without a call in it.
SkipOwnExpr ==
    /\ \/ In({"for"}, {"init", "step"}) /\ UNCHANGED scopes
       \/ In({"foreach"}, {"init"}) /\ scopes' = PushScope
    /\ stack' = SetPhase("cond")
    /\ UNCHANGED <<flow, registers, depths, fuel, outcome>>

\* The condition holds, or the foreach list has another item: run the body.
\* while, until and foreach give each iteration a scope of its own.
ScopedBody == {"while", "until", "foreach"}
EnterBody ==
    /\ In({"if", "while", "until", "for", "foreach"}, {"cond", "test"})
    /\ stack' = SetPhase("body")
    /\ scopes' = IF Top.kind \in ScopedBody THEN PushScope ELSE scopes
    /\ UNCHANGED <<flow, registers, depths, fuel, outcome>>

\* elsif: the next condition of the chain.
ElsIf ==
    /\ In({"if"}, {"test"})
    /\ stack' = SetPhase("cond")
    /\ UNCHANGED <<flow, registers, scopes, depths, fuel, outcome>>

\* No branch is taken, or the loop is over.
CondFails ==
    /\ In({"if", "while", "for"}, {"cond", "test"}) \/ In({"foreach"}, {"cond"})
    /\ stack' = SetHeld("close", None)
    /\ UNCHANGED <<flow, registers, scopes, depths, fuel, outcome>>

UntilEnds ==
    /\ In({"until"}, {"cond", "test"})
    /\ retPending' = retPending
    /\ Complete(None)
    /\ UNCHANGED <<pending, errsv, scopes, depths, fuel, outcome>>

\* "Use of freed value in iteration": the foreach dies before an item is used
\* (in phase "test" it is about to redo one).
FreedValue ==
    /\ In({"foreach"}, {"cond", "test"})
    /\ stack' = SetHeld("close", Flow("Die"))
    /\ UNCHANGED <<flow, registers, scopes, depths, fuel, outcome>>

\* The step expression of a C-style for is evaluated: a jump parked there is
\* treated like one of the body.
FinishStep ==
    /\ InExpr /\ Top.phase = "step"
    /\ LET mine == pending.l = NoLabel \/ pending.l = Parent.label
       IN stack' = PopTo(IF pending = None \/ (pending.t = "Next" /\ mine)
                         THEN [Parent EXCEPT !.phase = "cond"]
                         ELSE [Parent EXCEPT !.phase = "close",
                                 !.held = IF pending.t = "Last" /\ mine THEN None ELSE pending])
    /\ pending' = None
    /\ UNCHANGED <<flow, retPending, errsv, scopes, depths, fuel, outcome>>
----------------------------------------------------------------------------
(***************************************************************************)
(* A statement list has ended with a Flow.  Unwind leaves the body of an   *)
(* iteration, Close the whole construct; both first run the deferred       *)
(* blocks of the scope they pop (PopScope... below).                       *)
(***************************************************************************)
Ended(kinds, phases) == /\ stack # <<>>
                        /\ flow # Running
                        /\ Top.kind \in kinds
                        /\ Top.phase \in phases

Hold(p, fl) == /\ stack' = SetHeld(p, fl)
               /\ flow' = Running

BodyEnds ==
    /\ \/ Ended({"if", "bare", "named", "file"}, {"body"}) /\ Hold("close", flow)
       \/ Ended({"while", "until", "foreach", "cont"}, {"body"}) /\ Hold("unwind", flow)
       \/ Ended({"cont"}, {"continue"}) /\ Hold("close", flow)
    /\ UNCHANGED <<registers, scopes, depths, fuel, outcome>>

\* Faulty variant: eval_depth stays up when the body dies.
EvalBodyEndsLeaks ==
    /\ Ended({"evalS", "evalE"}, {"body"})
    /\ Hold("close", flow)
    /\ evalDepth' = IF flow.t = "Die" THEN evalDepth ELSE evalDepth - 1
    /\ UNCHANGED <<registers, scopes, ctxDepth, callDepth, dieDepth, fuel, outcome>>

EvalBodyEnds ==
    /\ Ended({"evalS", "evalE"}, {"body"})
    /\ Hold("close", flow)
    /\ evalDepth' = evalDepth - 1
    /\ UNCHANGED <<registers, scopes, ctxDepth, callDepth, dieDepth, fuel, outcome>>

\* A C-style for has one scope, pushed outside init: the body has none.
ForBodyEnds ==
    /\ Ended({"for"}, {"body"})
    /\ CASE flow.t = "None" \/ (flow.t = "Next" /\ Mine(flow.l)) -> Hold("step", None)
         [] flow.t = "Redo" /\ Mine(flow.l) -> Hold("body", None)
         [] flow.t = "Last" /\ Mine(flow.l) -> Hold("close", None)
         [] OTHER -> Hold("close", flow)
    /\ UNCHANGED <<registers, scopes, depths, fuel, outcome>>

\* The continue block of while / until / foreach: last, return, die and exit
\* leave the loop, any other Flow is dropped.  (Faulty variant: exit is.)
LeaveLoopNotExit == {"Return", "Die"}
LeaveLoop == {"Return", "Die", "Exit"}

Leave(fl) ==
    IF Top.kind = "until"
    THEN Complete(fl) ELSE stack' = SetHeld("close", fl) /\ flow' = Running

ContinueEnds ==
    /\ Ended(ScopedBody, {"continue"})
    /\ UNCHANGED <<registers, scopes, depths, fuel, outcome>>
    /\ IF flow.t = "Last" /\ Mine(flow.l) THEN Leave(None)
       ELSE IF flow.t \in LeaveLoop THEN Leave(flow) ELSE Hold("cond", None)

\* call_sub_named: a Redo or a Goto LABEL is dropped and the body goes on.
SubBodyEnds ==
    /\ Ended({"subS"}, {"body"})
    /\ CASE flow.t \in {"Redo", "Goto"} -> flow' = Running /\ UNCHANGED stack
         [] flow.t = "GotoSub" -> Hold("tailcall", None)
         [] OTHER -> Hold("close", flow)
    /\ UNCHANGED <<registers, scopes, depths, fuel, outcome>>

\* call_sub_list_named: only return and die leave the body.
ListSubBodyEnds ==
    /\ Ended({"subL"}, {"body"})
    /\ IF flow.t \in {"None", "Return", "Die"}
       THEN Hold("close", flow)
       ELSE flow' = Running /\ UNCHANGED stack
    /\ UNCHANGED <<registers, scopes, depths, fuel, outcome>>

\* do BLOCK, scalar: an exit or a redo is dropped and the block goes on.
DoBodyEnds ==
    /\ Ended({"do"}, {"body"})
    /\ IF flow.t \in {"Exit", "Redo"} /\ ~retPending
       THEN flow' = Running /\ UNCHANGED stack
       ELSE Hold("close", IF flow.t \in {"Exit", "Redo"} THEN None ELSE flow)
    /\ UNCHANGED <<registers, scopes, depths, fuel, outcome>>

\* do BLOCK in list context and map BLOCK: any Flow but return ends the
\* leading statements and the last one is executed all the same.
ListBlockEnds ==
    /\ Ended({"doL", "map"}, {"body"})
    /\ IF flow.t = "Return" THEN Hold("close", flow) ELSE Hold("last", None)
    /\ UNCHANGED <<registers, scopes, depths, fuel, outcome>>

\* exec_block_list: the Flow of the last statement is parked, except a return.
LastStmtEnds ==
    /\ Ended({"doL", "map"}, {"last"})
    /\ Hold("close", None)
    /\ pending' = IF flow.t \in {"None", "Return"} THEN pending ELSE flow
    /\ UNCHANGED <<retPending, errsv, scopes, depths, fuel, outcome>>

\* The last statement is an if or a block (a condition without a call in it):
\* exec_block_list runs the branch too, without a scope; a jump before its last
\* statement is dropped.
EnterBranch ==
    /\ In({"doL", "map"}, {"last"})
    /\ fuel > 0 /\ fuel' = fuel - 1
    /\ stack' = SetPhase("branch")
    /\ UNCHANGED <<flow, registers, scopes, depths, outcome>>

BranchEnds ==
    /\ Ended({"doL", "map"}, {"branch"})
    /\ IF flow.t = "None" THEN Hold("last", None) ELSE Hold("close", None)
    /\ UNCHANGED <<registers, scopes, depths, fuel, outcome>>

\* A deferred block: its Die goes to pending_flow, any other Flow is dropped;
\* before a goto &SUB the Die is dropped too.
DeferEnds ==
    /\ Ended({"defer"}, {"body"})
    /\ stack' = Pop
    /\ flow' = Running
    /\ pending' = IF flow.t = "Die" /\ Parent.phase # "tailcall" THEN flow ELSE pending
    /\ UNCHANGED <<retPending, errsv, scopes, depths, fuel, outcome>>

ListEnds ==
    \/ BodyEnds \/ EvalBodyEnds \/ ForBodyEnds \/ ContinueEnds \/ SubBodyEnds
    \/ ListSubBodyEnds \/ DoBodyEnds \/ ListBlockEnds \/ LastStmtEnds
    \/ EnterBranch \/ BranchEnds \/ DeferEnds
----------------------------------------------------------------------------
(***************************************************************************)
(* pop_scope: deferred blocks run last in, first out until none is left (a *)
(* deferred block may queue another), then destructors, then the scope is  *)
(* gone and the construct acts on the Flow it was holding.                 *)
(***************************************************************************)
Popping == /\ stack # <<>>
           /\ flow = Running
           /\ Top.phase \in {"unwind", "close", "tailcall"}

RunDefer ==
    /\ Popping
    /\ TopScope > 0
    /\ scopes' = [scopes EXCEPT ![Len(scopes)] = @ - 1]
    /\ stack' = Append(stack, Frame("defer", NoLabel, "body", Live))
    /\ UNCHANGED <<flow, registers, depths, fuel, outcome>>

\* DESTROY of an object whose last reference was in the scope.
Destroy ==
    /\ "destroy" \in Sites
    /\ Popping
    /\ Top.phase # "tailcall"
    /\ TopScope = 0
    /\ fuel > 0 /\ fuel' = fuel - 1
    /\ Len(stack) < MaxDepth
    /\ stack' = Append(stack, Frame("subS", NoLabel, "body", Live))
    /\ scopes' = PushScope
    /\ ctxDepth' = ctxDepth + 1
    /\ callDepth' = callDepth + 1
    /\ UNCHANGED <<flow, registers, evalDepth, dieDepth, outcome>>

\* goto &SUB: the deferred blocks have run; the target takes the place of this
\* sub's call_stack entry, which is put back when the target returns.
TailCall ==
    /\ In({"subS"}, {"tailcall"})
    /\ TopScope = 0
    /\ fuel > 0 /\ fuel' = fuel - 1
    /\ Len(stack) < MaxDepth
    /\ stack' = Append(SetPhase("tailed"),
                       Frame("subS", NoLabel, "body", [Live EXCEPT !.cs = callDepth - 1]))
    /\ scopes' = PushScope
    /\ ctxDepth' = ctxDepth + 1
    /\ UNCHANGED <<flow, registers, evalDepth, callDepth, dieDepth, outcome>>

\* Faulty variant: the call_stack entry is not put back.
TailReturnForgets ==
    /\ In({"subS"}, {"tailed"})
    /\ stack' = SetPhase("close")
    /\ UNCHANGED <<flow, registers, scopes, depths, fuel, outcome>>

TailReturn ==
    /\ In({"subS"}, {"tailed"})
    /\ stack' = SetPhase("close")
    /\ callDepth' = callDepth + 1
    /\ UNCHANGED <<flow, registers, scopes, evalDepth, ctxDepth, dieDepth, fuel, outcome>>

\* The target is not defined: the sub returns undef.
NoTarget ==
    /\ In({"subS"}, {"tailcall"})
    /\ TopScope = 0
    /\ stack' = SetPhase("close")
    /\ UNCHANGED <<flow, registers, scopes, depths, fuel, outcome>>

\* The scope of one iteration is popped; the loop acts on the body's Flow.
Popped == Popping /\ TopScope = 0

LoopUnwinds ==
    /\ Popped /\ Top.phase = "unwind" /\ Top.kind \in ScopedBody
    /\ retPending' = retPending
    /\ LET h == Top.held IN
       CASE h.t = "None" \/ (h.t = "Next" /\ Mine(h.l)) ->
              scopes' = PopScope /\ Hold("continue", None)
         [] h.t = "Redo" /\ Mine(h.l) ->
              IF Top.kind = "foreach"
              THEN scopes' = PopScope /\ Hold("test", None)
              ELSE scopes' = scopes /\ Hold("body", None)
         [] h.t = "Last" /\ Mine(h.l) -> scopes' = PopScope /\ Leave(None)
         [] OTHER -> scopes' = PopScope /\ Leave(h)
    /\ UNCHANGED <<pending, errsv, depths, fuel, outcome>>

\* BlockWithContinue: one iteration; the continue block has a scope too.
ContBodyUnwinds ==
    /\ Popped /\ Top.phase = "unwind" /\ Top.kind = "cont"
    /\ retPending' = retPending
    /\ LET h == Top.held IN
       CASE h.t = "None" \/ (h.t = "Next" /\ Mine(h.l)) ->
              scopes' = scopes /\ Hold("continue", None)
         [] h.t = "Redo" /\ Mine(h.l) -> scopes' = scopes /\ Hold("body", None)
         [] h.t = "Last" /\ Mine(h.l) -> scopes' = PopScope /\ Complete(None)
         [] OTHER -> scopes' = PopScope /\ Complete(h)
    /\ UNCHANGED <<pending, errsv, depths, fuel, outcome>>

ContCloses ==
    /\ Popped /\ Top.phase = "close" /\ Top.kind = "cont"
    /\ scopes' = PopScope
    /\ retPending' = retPending
    /\ IF Top.held = None \/ (Top.held.t = "Last" /\ Mine(Top.held.l))
       THEN Complete(None) /\ errsv' = errsv
       ELSE Complete(Top.held) /\ errsv' = FALSE
    /\ UNCHANGED <<pending, depths, fuel, outcome>>

\* if, and the loops with an outer scope: the Flow is returned as it is.
PlainCloses ==
    /\ Popped /\ Top.phase = "close" /\ Top.kind \in {"if", "while", "for", "foreach"}
    /\ scopes' = PopScope
    /\ retPending' = retPending
    /\ Complete(Top.held)
    /\ UNCHANGED <<pending, errsv, depths, fuel, outcome>>

\* Faulty variant: redo pops the scope it goes on using.
BareClosesRedoPops ==
    /\ Popped /\ Top.phase = "close" /\ Top.kind = "bare"
    /\ retPending' = retPending
    /\ scopes' = PopScope
    /\ LET h == Top.held IN
       IF h = Jump("Redo", NoLabel)
       THEN Hold("body", None)
       ELSE Complete(IF h.t \in {"Last", "Next"} /\ h.l = NoLabel THEN None ELSE h)
    /\ UNCHANGED <<pending, errsv, depths, fuel, outcome>>

\* A bare block is a loop that runs once, for unlabelled jumps only.
BareCloses ==
    /\ Popped /\ Top.phase = "close" /\ Top.kind = "bare"
    /\ retPending' = retPending
    /\ LET h == Top.held IN
       IF h = Jump("Redo", NoLabel)
       THEN scopes' = scopes /\ Hold("body", None)
       ELSE /\ scopes' = PopScope
            /\ Complete(IF h.t \in {"Last", "Next"} /\ h.l = NoLabel THEN None ELSE h)
    /\ UNCHANGED <<pending, errsv, depths, fuel, outcome>>

\* A labelled block absorbs last and next, its own or unlabelled, not redo.
NamedCloses ==
    /\ Popped /\ Top.phase = "close" /\ Top.kind = "named"
    /\ scopes' = PopScope
    /\ retPending' = retPending
    /\ Complete(IF Top.held.t \in {"Last", "Next"} /\ Mine(Top.held.l)
                THEN None ELSE Top.held)
    /\ UNCHANGED <<pending, errsv, depths, fuel, outcome>>

\* eval BLOCK as a statement: a Die is trapped in $@ and pending_flow cleared, an
\* unresolved goto becomes an error in $@, anything else goes on outwards.
EvalCloses ==
    /\ Popped /\ Top.phase = "close" /\ Top.kind = "evalS"
    /\ scopes' = PopScope
    /\ retPending' = retPending
    /\ LET t == Top.held.t IN
       /\ errsv' = (t \in {"Die", "Goto", "GotoSub"})
       /\ pending' = IF t = "Die" THEN None ELSE pending
       /\ Complete(IF t \in {"Die", "Goto", "GotoSub"} THEN None ELSE Top.held)
    /\ UNCHANGED <<depths, fuel, outcome>>

\* eval BLOCK as an operand: $@ is set, every Flow ends here.
EvalExprCloses ==
    /\ Popped /\ Top.phase = "close" /\ Top.kind = "evalE"
    /\ scopes' = PopScope
    /\ errsv' = (Top.held.t = "Die")
    /\ stack' = Pop
    /\ UNCHANGED <<flow, pending, retPending, depths, fuel, outcome>>

\* The end of call_sub_named and call_sub_list_named: every stack is popped,
\* then a Die, and in the scalar call last, next and exit, go to pending_flow.
\* (Faulty variant: exit does not.)
ParkedBySubNotExit == {"Die", "Last", "Next"}
ParkedBySub == {"Die", "Last", "Next", "Exit"}

SubReturns ==
    /\ Popped /\ Top.phase = "close" /\ Top.kind \in {"subS", "subL"}
    /\ stack' = Pop
    /\ scopes' = PopScope
    /\ callDepth' = callDepth - 1
    /\ ctxDepth' = ctxDepth - 1
    /\ LET h == Top.held IN
       /\ pending' = IF h.t \in ParkedBySub THEN h ELSE pending
       /\ errsv' = (h.t = "Die" \/ errsv)
       /\ retPending' = (retPending /\ ~(h.t = "Die" /\ Top.kind = "subS"))
    /\ UNCHANGED <<flow, evalDepth, dieDepth, fuel, outcome>>

\* do BLOCK in scalar context: jumps are parked, return in pending_return.
DoCloses ==
    /\ Popped /\ Top.phase = "close" /\ Top.kind = "do"
    /\ stack' = Pop
    /\ scopes' = PopScope
    /\ LET h == Top.held IN
       /\ pending' = IF h.t \in {"Die", "Goto", "GotoSub", "Last", "Next"}
                     THEN h ELSE pending
       /\ errsv' = (h.t = "Die" \/ errsv)
       /\ retPending' = (h.t = "Return" \/ retPending)
    /\ UNCHANGED <<flow, depths, fuel, outcome>>

\* A list-context block; map runs its block for the next item, or is done.
ListBlockCloses ==
    /\ Popped /\ Top.phase = "close" /\ Top.kind \in {"doL", "map"}
    /\ \/ /\ Top.kind = "map"
          /\ Hold("body", None)
          /\ UNCHANGED <<scopes, ctxDepth>>
       \/ /\ stack' = Pop
          /\ flow' = Running
          /\ scopes' = PopScope
          /\ ctxDepth' = IF Top.kind = "map" THEN ctxDepth - 1 ELSE ctxDepth
    /\ UNCHANGED <<registers, evalDepth, callDepth, dieDepth, fuel, outcome>>

\* run(): what becomes of the main program's Flow.
ProgramEnds ==
    /\ Popped /\ Top.phase = "close" /\ Top.kind = "file"
    /\ outcome' = CASE Top.held.t = "Exit" -> "exit"
                    [] Top.held.t \in {"Die", "Last", "Next", "Redo"} -> "die"
                    [] OTHER -> "ok"
    /\ stack' = Pop
    /\ scopes' = PopScope
    /\ UNCHANGED <<flow, registers, depths, fuel>>

Unwinding ==
    \/ RunDefer \/ Destroy \/ TailCall \/ TailReturn \/ NoTarget
    \/ LoopUnwinds \/ ContBodyUnwinds \/ ContCloses \/ PlainCloses \/ BareCloses
    \/ NamedCloses \/ EvalCloses \/ EvalExprCloses \/ SubReturns \/ DoCloses
    \/ ListBlockCloses \/ ProgramEnds
----------------------------------------------------------------------------
Init ==
    /\ pending = None
    /\ retPending = FALSE
    /\ errsv = FALSE
    /\ scopes = <<0>>
    /\ evalDepth = 0 /\ ctxDepth = 0 /\ callDepth = 0 /\ dieDepth = 0
    /\ stack = <<[kind |-> "file", label |-> NoLabel, phase |-> "body", held |-> None,
                  at |-> NoDepth, clean |-> TRUE]>>
    /\ flow = Running
    /\ fuel = MaxFuel
    /\ outcome = "running"

Statement ==
    \/ JumpStmt \/ DeferStmt \/ TailExpr \/ EndOfList
    \/ \E site \in {"stmt", "my", "return", "print", "die"} : ExprStmt(site)
    \/ \E k \in BlockKinds : EnterBlock(k)

Conditions ==
    \/ EvalOwnExpr \/ SkipOwnExpr \/ EnterBody \/ ElsIf \/ CondFails \/ UntilEnds
    \/ FreedValue \/ FinishStep

Terminated == stack = <<>> /\ UNCHANGED vars

Next == Statement \/ Expression \/ Conditions \/ ListEnds \/ Unwinding \/ Terminated

Spec == Init /\ [][Next]_vars
----------------------------------------------------------------------------
(***************************************************************************)
(* Correctness.                                                            *)
(***************************************************************************)
\* Every register and stack holds what the interpreter's fields can hold.
TypeOK ==
    /\ stack \in Seq(Frames)
    /\ flow \in Flows \cup {Running}
    /\ pending \in Flows
    /\ retPending \in BOOLEAN
    /\ errsv \in BOOLEAN
    /\ scopes \in Seq(Nat)
    /\ evalDepth \in Nat
    /\ ctxDepth \in Nat
    /\ callDepth \in Nat
    /\ dieDepth \in Nat
    /\ fuel \in Nat
    /\ outcome \in Outcomes

\* What a construct has pushed on the interpreter's parallel stacks by phase p.
Scopes(k, p) ==
    CASE k \in {"expr", "defer"} -> 0
      [] k = "until" -> IF p \in {"body", "unwind"} THEN 1 ELSE 0
      [] k = "foreach" /\ p = "init" -> 0
      [] k \in {"while", "foreach"} /\ p \in {"body", "unwind"} -> 2
      [] OTHER -> 1
Pushed(f) ==
    [sc |-> f.at.sc + Scopes(f.kind, f.phase),
     ev |-> f.at.ev + (IF f.kind \in {"evalS", "evalE"} /\ f.phase # "close" THEN 1 ELSE 0),
     cx |-> f.at.cx + (IF f.kind \in {"subS", "subL", "map"} THEN 1 ELSE 0),
     cs |-> f.at.cs + (IF f.kind \in {"subS", "subL"} /\ f.phase # "tailed" THEN 1 ELSE 0),
     dh |-> f.at.dh + (IF f.kind = "expr" /\ f.phase = "handler" THEN 1 ELSE 0)]

\* Each construct starts from exactly what the constructs around it have
\* pushed, and the interpreter's stacks are what the innermost one has pushed:
\* no path out of a construct pops too much or too little, so scopes, local
\* saves, eval_depth, call_context and call_stack agree with the program text.
Balanced ==
    /\ stack # <<>> => stack[1].at = NoDepth
    /\ \A i \in 1..(Len(stack) - 1) : stack[i + 1].at = Pushed(stack[i])
    /\ Live = IF stack = <<>> THEN NoDepth ELSE Pushed(Top)

(***************************************************************************)
(* Action properties.  Leaving(kinds): the innermost construct, one of     *)
(* these, is done in this step.                                            *)
(***************************************************************************)
Leaving(kinds) == /\ Len(stack') < Len(stack)
                  /\ Top.kind \in kinds

\* An exception raised inside an eval is trapped by it: when an eval that began
\* with empty registers is left, no Die is on its way, and $@ is set if one had
\* reached the end of its body ("Inside eval, the eval block stops on Flow::Die
\* and sets $@").
EvalTraps ==
    [][Leaving({"evalS", "evalE"}) /\ Top.clean =>
         /\ pending'.t # "Die" /\ flow'.t # "Die"
         /\ Top.held.t = "Die" \/ pending.t = "Die" => errsv']_vars

\* A return parked by a do block returns from the sub it was executed in: it
\* never survives that sub and makes the caller return.
ReturnScoped ==
    [][Leaving({"subS", "subL"}) /\ Top.clean => ~retPending']_vars

\* Where an Exit on its way out may be lost: a list-context call or block, a do
\* block, an eval operand, an eval that dies, a deferred block, the init of a
\* for or the __DIE__ handler; and a parked one is overwritten by a later jump
\* of the same expression.  No loop, conditional, block or scalar call loses one.
ExitInFlight == \/ flow.t = "Exit"
                \/ pending.t = "Exit"
                \/ \E i \in 1..Len(stack) : stack[i].held.t = "Exit"
ExitSinks == {"subL", "do", "doL", "map", "evalE", "evalS", "defer"}
ExitKept ==
    [][ExitInFlight /\ ~ExitInFlight' =>
         \/ outcome' = "exit"
         \/ Top.kind \in ExitSinks
         \/ Top.phase \in {"init", "handler"}
         \/ pending.t = "Exit" /\ pending'.t \in {"Die", "Last", "Next"}]_vars

\* A labelled last, next or redo that unwinds a loop or block is absorbed only
\* if the label is that loop's; otherwise the construct is left and the jump
\* goes on to the construct around it.
LoopKinds == {"bare", "named", "while", "until", "for", "foreach", "cont"}
LabelRespected ==
    [][/\ stack # <<>>
       /\ Top.kind \in LoopKinds /\ Top.phase \in {"unwind", "close"}
       /\ Top.held.t \in {"Last", "Next", "Redo"}
       /\ Top.held.l \notin {NoLabel, Top.label}
       /\ Len(stack') <= Len(stack)
       => \/ stack' # <<>> /\ stack'[Len(stack')].held = Top.held
          \/ Leaving(LoopKinds) /\ flow' = Top.held]_vars

\* A parked jump belongs to the expression that raised it: while one is parked,
\* control is in an expression, or leaving the block whose last expression it
\* was.  So no statement runs between the raising of an exception and the
\* statement that takes it.
PendingOwned ==
    pending # None => /\ stack # <<>>
                      /\ Top.kind = "expr" \/ Top.phase \in {"close", "tailed"}
=============================================================================
