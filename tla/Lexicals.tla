------------------------------ MODULE Lexicals ------------------------------
(***************************************************************************)
(* The stack of lexical frames, and everything that rearranges it: blocks, *)
(* subs with and without a captured environment, the scopes of required    *)
(* files, eval STRING, do FILE and foreach.  The module follows one        *)
(* lexical name, `$x`, because every operation treats the names alike and  *)
(* what can go wrong is which `$x` a piece of code gets.  A slot therefore *)
(* holds an identity instead of a value: the variable it was declared as   *)
(* and the Rc cell it shares with other slots, or 0 when the slot is a     *)
(* copy of its own.  `open` holds the constructs being executed, innermost *)
(* last; user code is any sequence of the statements below.                *)
(***************************************************************************)
EXTENDS Integers, Sequences, FiniteSets, SequencesExt, FiniteSetsExt

CONSTANTS MaxAnon,      \* anonymous subs created
          MaxItems,     \* elements of the array a foreach runs over
          MaxDepth,     \* constructs open at once
          MaxFuel,      \* statements that open a construct, declare or jump
          Kinds         \* the constructs user code opens

ASSUME LexicalsAssumption ==
    /\ MaxAnon \in Nat /\ MaxItems \in Nat /\ MaxDepth \in Nat /\ MaxFuel \in Nat
    /\ Kinds \subseteq {"block", "eval", "for", "anon", "named", "filed",
                        "string", "dofile", "load"}

VARIABLES scopes,       \* self.scopes: outermost first
          open,         \* constructs being executed
          flow,         \* what the innermost statement has returned
          parked,       \* a die in pending_flow
          stores,       \* contents of the Rc of every captured environment
          env,          \* closure_envs: a sub's Rc, or NoEnv
          currentEnv,   \* current_closure_env
          fileScope,    \* file_scopes of the one required file
          readonly,     \* `x` is in readonly_vars
          shared,       \* foreach_lvalue_aliases: the slot of `pos $x`, or Unbound
          array,        \* length of the array loops run over
          fuel,
          born,         \* history: variables declared so far
          celled,       \* history: cells made so far
          copied        \* history: variables duplicated as plain copies

vars == <<scopes, open, flow, parked, stores, env, currentEnv, fileScope,
          readonly, shared, array, fuel, born, celled, copied>>
captured == <<stores, env>>
loops == <<readonly, shared, array>>
ghosts == <<born, celled, copied>>

Flows == {"none", "next", "last", "redo", "outer", "return", "die", "goto", "exit"}
NoEnv == 0
Named == 0                  \* `sub g`, in the main program
Filed == -1                 \* a sub of the required file
Codes == -1 .. MaxAnon
Global == 0                 \* the package variable $x

Unbound == [var |-> -1, cell |-> 0]
Frame(owner) == [owner |-> owner, x |-> Unbound]
NoFrame == Frame(-1)
Out == Frame(-2)            \* the file scope is in borrowed_file_scopes

Top == Last(open)
Depth == Len(open)
Bound(sc) == {i \in DOMAIN sc : sc[i].x # Unbound}
\* get_var: innermost first, then the global.
Visible(sc) == IF Bound(sc) = {} THEN [var |-> Global, cell |-> 0]
               ELSE sc[Max(Bound(sc))].x
\* Whose frame it is and what its `$x` is, frame by frame.
Marks(sc) == [i \in DOMAIN sc |-> [owner |-> sc[i].owner, var |-> sc[i].x.var]]

Init ==
    /\ scopes = <<Frame(0)>> /\ open = <<>> /\ flow = "none" /\ parked = FALSE
    /\ stores = <<>> /\ env = [c \in Codes |-> NoEnv] /\ currentEnv = NoEnv
    /\ fileScope = NoFrame /\ readonly = FALSE /\ shared = Unbound
    /\ array = MaxItems /\ fuel = MaxFuel
    /\ born = 0 /\ celled = 0 /\ copied = {}
-----------------------------------------------------------------------------
InLoop(at) == open # <<>> /\ Top.kind = "for" /\ Top.at = at
Running == flow = "none" /\ fuel > 0 /\ ~InLoop("head")
Spend == fuel' = fuel - 1

\* The common part of every construct; `back` is history: the frames that the
\* construct's end must leave.
Construct(kind) == [kind |-> kind, back |-> Marks(scopes), pre |-> 0, env |-> NoEnv,
                    before |-> NoEnv, start |-> 0, stash |-> <<>>, file |-> FALSE,
                    list |-> "", at |-> "body", i |-> 0, n |-> 0, saved |-> Unbound,
                    owned |-> FALSE, cont |-> FALSE, again |-> FALSE]
Opens(kind) == Running /\ kind \in Kinds /\ Depth < MaxDepth /\ Spend

\* `my $x` replaces whatever slot the innermost frame had.
My ==
    /\ Running /\ Spend
    /\ born' = born + 1
    /\ scopes' = [scopes EXCEPT ![Len(scopes)].x = [var |-> born', cell |-> 0]]
    /\ UNCHANGED <<open, flow, parked, captured, currentEnv, fileScope, loops,
                   celled, copied>>

\* An assignment to $x changes no identity; set_var refuses it by name, and the
\* statement takes whatever die is parked.
Assign ==
    /\ flow = "none" /\ ~InLoop("head") /\ (readonly \/ parked)
    /\ flow' = "die" /\ parked' = FALSE
    /\ UNCHANGED <<scopes, open, captured, currentEnv, fileScope, loops, fuel, ghosts>>

\* A statement that shortens the array.
Shrink ==
    /\ Running /\ Spend /\ array > 0 /\ \E k \in DOMAIN open : open[k].kind = "for"
    /\ array' = array - 1
    /\ UNCHANGED <<scopes, open, flow, parked, captured, currentEnv, fileScope,
                   readonly, shared, ghosts>>

\* Jumps that something open has a say in.
Concerned(f) ==
    CASE f \in {"next", "last", "redo", "outer"} -> {"for"}
      [] f = "return" -> {"anon", "named", "filed", "eval", "string"}
      [] f = "goto" -> {"block", "for", "eval", "string"}
      [] OTHER -> Kinds
Jump(f) ==
    /\ Running /\ Spend
    /\ \E k \in DOMAIN open : open[k].kind \in Concerned(f)
    /\ flow' = f
    /\ UNCHANGED <<scopes, open, parked, captured, currentEnv, fileScope, loops, ghosts>>

OpenBlock(kind) ==
    /\ Opens(kind)
    /\ open' = Append(open, Construct(kind))
    /\ scopes' = Append(scopes, Frame(Depth + 1))
    /\ UNCHANGED <<flow, parked, captured, currentEnv, fileScope, loops, ghosts>>
-----------------------------------------------------------------------------
(***************************************************************************)
(* Subs: capturing an environment.                                         *)
(***************************************************************************)
\* The frames as an Rc holds them.
Stored(sc) == [i \in DOMAIN sc |-> [sc[i] EXCEPT !.owner = 0]]
Anons == {c \in Codes : c > 0 /\ env[c] # NoEnv}

\* Expr::AnonSub: inside a closure, the closure's Rc and the frames above as many
\* as the Rc holds; otherwise a copy of the frames.  (Faulty variant: the frames
\* of the running closure only.)
CaptureOwn ==
    IF currentEnv = NoEnv THEN scopes ELSE stores[currentEnv]

Capture ==
    IF currentEnv = NoEnv THEN scopes
    ELSE stores[currentEnv]
             \o SubSeq(scopes, Len(stores[currentEnv]) + 1, Len(scopes))

MakeAnon ==
    /\ Running /\ Spend /\ Cardinality(Anons) < MaxAnon
    /\ stores' = Append(stores, Stored(Capture))
    /\ env' = [env EXCEPT ![Cardinality(Anons) + 1] = Len(stores')]
    /\ copied' = copied \cup {sc.x.var : sc \in {fr \in ToSet(Capture) :
                                                 fr.x # Unbound /\ fr.x.cell = 0}}
    /\ UNCHANGED <<scopes, open, flow, parked, currentEnv, fileScope, loops, born, celled>>

\* Stmt::Sub executed below a block or an eval: every slot becomes an Rc cell, then
\* the frames are copied.  (Faulty variant: the innermost frame's slot only.)
InEval == \E k \in DOMAIN open : open[k].kind \in {"eval", "string"}
PromoteTop == {Len(scopes)} \cap {i \in Bound(scopes) : scopes[i].x.cell = 0}
Promote == {i \in Bound(scopes) : scopes[i].x.cell = 0}

Promoted ==
    [i \in DOMAIN scopes |->
        IF i \in Promote
        THEN [scopes[i] EXCEPT !.x.cell = celled + Cardinality({j \in Promote : j <= i})]
        ELSE scopes[i]]

DefineNamed ==
    /\ Running /\ Spend /\ "named" \in Kinds /\ env[Named] = NoEnv
    /\ InEval \/ Len(scopes) > 1
    /\ scopes' = Promoted
    /\ celled' = celled + Cardinality(Promote)
    /\ stores' = Append(stores, Stored(Promoted))
    /\ env' = [env EXCEPT ![Named] = Len(stores')]
    /\ UNCHANGED <<open, flow, parked, currentEnv, fileScope, loops, born, copied>>
-----------------------------------------------------------------------------
(***************************************************************************)
(* Subs: the call.  enter_closure_env splices a copy of the environment    *)
(* below the live frames; for a named sub enter_named_sub_scope takes the  *)
(* live frames away again; enter_file_scope pushes the scope of the sub's  *)
(* file unless it is out already or being loaded; last, the sub's frame.   *)
(***************************************************************************)
Copies(c) == [i \in DOMAIN stores[env[c]] |-> [stores[env[c]][i] EXCEPT !.owner = Depth + 1]]
Loading == \E k \in DOMAIN open : open[k].kind = "load"
Kind(c) == IF c = Named THEN "named" ELSE IF c = Filed THEN "filed" ELSE "anon"

CallSub(c) ==
    LET pre == IF env[c] = NoEnv THEN 0 ELSE Len(stores[env[c]])
        spliced == IF pre = 0 THEN scopes ELSE Copies(c) \o scopes
        hides == pre > 0 /\ c = Named
        seen == IF hides THEN SubSeq(spliced, 1, pre) ELSE spliced
        file == c = Filed /\ ~Loading /\ fileScope # Out
        framed == IF file THEN Append(seen, [fileScope EXCEPT !.owner = Depth + 1]) ELSE seen
    IN /\ Opens(Kind(c))
       /\ scopes' = Append(framed, Frame(Depth + 1))
       /\ open' = Append(open, [Construct(Kind(c)) EXCEPT
                         !.pre = pre, !.env = env[c], !.before = currentEnv,
                         !.stash = IF hides THEN scopes ELSE <<>>,
                         !.file = file, !.start = Len(framed)])
       /\ currentEnv' = IF pre = 0 THEN currentEnv ELSE env[c]
       /\ fileScope' = IF file THEN Out ELSE fileScope
       /\ UNCHANGED <<flow, parked, captured, loops, ghosts>>

Call ==
    \E c \in Anons \cup {Named, Filed} :
        /\ c = Filed => fileScope # NoFrame \/ Loading
        /\ CallSub(c)

\* last and next unwind through the sub as well; redo and goto are dropped by the
\* loop over its statements, which goes on.
SubEnds(f) == f \notin {"redo", "goto"}

\* pop_scope, exit_file_scope, exit_named_sub_scope, exit_closure_env.
\* (Faulty variant: also when the file is only being loaded and pushed none.)
LessFileAlways(s, sc) == IF s.kind = "filed" THEN Front(sc) ELSE sc
LessFile(s, sc) == IF s.file THEN Front(sc) ELSE sc
\* (Faulty variant: a die leaves the file's scope on the stack.)
ReturnFramesDieForgets(s, sc) ==
    LET all == (IF flow = "die" THEN Front(sc) ELSE LessFile(s, Front(sc))) \o s.stash
    IN SubSeq(all, s.pre + 1, Len(all))
ReturnFrames(s, sc) ==
    LET all == LessFile(s, Front(sc)) \o s.stash IN SubSeq(all, s.pre + 1, Len(all))

SubReturns ==
    /\ open # <<>> /\ Top.kind \in {"anon", "named", "filed"} /\ SubEnds(flow)
    /\ flow' = IF flow = "return" THEN "none" ELSE flow
    /\ scopes' = ReturnFrames(Top, scopes)
    /\ fileScope' = IF Top.file THEN [scopes[Len(scopes) - 1] EXCEPT !.owner = 0]
                  ELSE fileScope
    /\ stores' = IF Top.pre = 0 THEN stores
                 ELSE [stores EXCEPT ![Top.env] = Stored(SubSeq(scopes, 1, Top.pre))]
    /\ currentEnv' = IF Top.pre = 0 THEN currentEnv ELSE Top.before
    /\ open' = Front(open)
    /\ UNCHANGED <<parked, env, loops, fuel, ghosts>>

SubGoesOn ==
    /\ open # <<>> /\ Top.kind \in {"anon", "named", "filed"} /\ ~SubEnds(flow)
    /\ flow' = "none"
    /\ UNCHANGED <<scopes, open, parked, captured, currentEnv, fileScope, loops, fuel, ghosts>>
-----------------------------------------------------------------------------
(***************************************************************************)
(* eval STRING, do FILE and the body of a required file.                   *)
(***************************************************************************)
Subs == {k \in DOMAIN open : open[k].kind \in {"anon", "named", "filed"}}

\* eval_string: in a named sub without an environment the frames between the
\* outermost and the sub's own are taken away while the string runs.
LexicalEnd == IF Subs = {} THEN 0
              ELSE LET sub == open[Max(Subs)]
                   IN IF sub.kind = "filed" \/ (sub.kind = "named" /\ sub.env = NoEnv)
                      THEN sub.start ELSE 0
\* `start` is the number of frames below the sub's own.
Hidden == IF LexicalEnd \in 2 .. Len(scopes) THEN SubSeq(scopes, 2, LexicalEnd) ELSE <<>>

EvalString ==
    /\ Opens("string")
    /\ open' = Append(open, [Construct("string") EXCEPT !.stash = Hidden])
    /\ scopes' = (IF Hidden = <<>> THEN scopes
                  ELSE <<Head(scopes)>> \o SubSeq(scopes, LexicalEnd + 1, Len(scopes)))
                 \o <<Frame(Depth + 1)>>
    /\ UNCHANGED <<flow, parked, captured, currentEnv, fileScope, loops, ghosts>>

\* last, next, redo and exit of the string's code are ignored; a goto may find its
\* label in the string.
StringEnds ==
    /\ open # <<>> /\ Top.kind = "string"
    /\ flow \notin {"last", "next", "redo", "outer", "exit"}
    /\ flow' = IF flow = "goto" THEN "goto" ELSE "none"
    /\ scopes' = <<Head(scopes)>> \o Top.stash \o SubSeq(Front(scopes), 2, Len(scopes) - 1)
    /\ open' = Front(open)
    /\ UNCHANGED <<parked, captured, currentEnv, fileScope, loops, fuel, ghosts>>

DoFile ==
    /\ Opens("dofile")
    /\ open' = Append(open, [Construct("dofile") EXCEPT !.stash = scopes])
    /\ scopes' = <<Frame(Depth + 1)>>
    /\ UNCHANGED <<flow, parked, captured, currentEnv, fileScope, loops, ghosts>>

DoFileEnds ==
    /\ open # <<>> /\ Top.kind = "dofile" /\ flow \in {"none", "return", "die", "exit"}
    /\ flow' = IF flow = "exit" THEN "exit" ELSE "none"
    /\ scopes' = Top.stash
    /\ open' = Front(open)
    /\ UNCHANGED <<parked, captured, currentEnv, fileScope, loops, fuel, ghosts>>

\* eval_file_string; a file is required once.
Load ==
    /\ Opens("load") /\ fileScope = NoFrame /\ ~Loading
    /\ open' = Append(open, Construct("load"))
    /\ scopes' = Append(scopes, Frame(Depth + 1))
    /\ UNCHANGED <<flow, parked, captured, currentEnv, fileScope, loops, ghosts>>

LoadEnds ==
    /\ open # <<>> /\ Top.kind = "load" /\ flow \in {"none", "return", "die", "exit"}
    /\ flow' = IF flow = "exit" THEN "exit" ELSE "none"
    /\ fileScope' = [Last(scopes) EXCEPT !.owner = 0]
    /\ scopes' = Front(scopes)
    /\ open' = Front(open)
    /\ UNCHANGED <<parked, captured, currentEnv, loops, fuel, ghosts>>

\* The statement loops of these three ignore every other Flow.
CodeGoesOn ==
    /\ open # <<>>
    /\ \/ Top.kind = "string" /\ flow \in {"last", "next", "redo", "outer", "exit", "goto"}
       \/ Top.kind \in {"dofile", "load"} /\ flow \in {"last", "next", "redo", "outer", "goto"}
    /\ flow' = "none"
    /\ UNCHANGED <<scopes, open, parked, captured, currentEnv, fileScope, loops, fuel, ghosts>>

BlockEnds ==
    /\ open # <<>> /\ Top.kind = "block"
    /\ scopes' = Front(scopes)
    /\ open' = Front(open)
    /\ UNCHANGED <<flow, parked, captured, currentEnv, fileScope, loops, fuel, ghosts>>

\* A die or a goto stops at eval BLOCK; after a die so does what is parked.
EvalEnds ==
    /\ open # <<>> /\ Top.kind = "eval"
    /\ flow' = IF flow \in {"die", "goto"} THEN "none" ELSE flow
    /\ parked' = (parked /\ flow # "die")
    /\ scopes' = Front(scopes)
    /\ open' = Front(open)
    /\ UNCHANGED <<captured, currentEnv, fileScope, loops, fuel, ghosts>>

\* exec_stmts finds the label among the statements of the block.
GotoLands ==
    /\ flow = "goto" /\ open # <<>> /\ Top.kind \in {"block", "eval", "for"} /\ ~InLoop("head")
    /\ flow' = "none"
    /\ UNCHANGED <<scopes, open, parked, captured, currentEnv, fileScope, loops, fuel, ghosts>>
-----------------------------------------------------------------------------
(***************************************************************************)
(* foreach over: an array; an array and another value in a list; `!0`,     *)
(* whose item is read-only; and `pos $x`.  The loop has a frame for its    *)
(* variable and pushes one for each run of the body.                       *)
(***************************************************************************)
Lists == {"array", "mixed", "fixed", "magic"}
Items(list) == CASE list = "array" -> array
                 [] list = "mixed" -> array + 1
                 [] OTHER -> 1

For(list, cont) ==
    LET owns == list = "magic" /\ shared = Unbound
    IN /\ Opens("for")
       /\ open' = Append(open, [Construct("for") EXCEPT
                        !.list = list, !.at = "head", !.i = 1, !.n = Items(list),
                        !.saved = Visible(scopes), !.owned = owns, !.cont = cont])
       /\ scopes' = Append(scopes, Frame(Depth + 1))
       /\ readonly' = (readonly \/ list = "fixed")
       /\ shared' = IF owns THEN [var |-> born + 1, cell |-> celled + 1] ELSE shared
       /\ born' = IF owns THEN born + 1 ELSE born
       /\ celled' = IF owns THEN celled + 1 ELSE celled
       /\ UNCHANGED <<flow, parked, captured, currentEnv, fileScope, array, copied>>

\* The end of the list, or last: the mark and the alias go, the saved value is
\* assigned, and set_var refuses that as well when an outer loop has the mark.
LoopEnds ==
    /\ InLoop("head") /\ flow = "none" /\ Top.i > Top.n
    /\ readonly' = (readonly /\ Top.list # "fixed")
    /\ parked' = (parked \/ readonly')
    /\ shared' = IF Top.owned THEN Unbound ELSE shared
    /\ scopes' = Front(scopes)
    /\ open' = Front(open)
    /\ UNCHANGED <<flow, captured, currentEnv, fileScope, array, fuel, ghosts>>

\* Every other way out puts the saved value in the innermost remaining frame, as a
\* slot of its own.
RestoreIn(sc) == [sc EXCEPT ![Len(sc)].x = [var |-> Top.saved.var, cell |-> 0]]
LoopLeft(sc) ==
    /\ scopes' = RestoreIn(sc)
    /\ open' = Front(open)
    /\ copied' = copied \cup {Top.saved.var}
    /\ UNCHANGED <<parked, captured, currentEnv, fileScope, shared, fuel, born, celled>>

\* "Use of freed value": the array has fewer elements than the position needs.
Freed == Top.list = "mixed" /\ array < Top.i

ItemFreed ==
    /\ InLoop("head") /\ flow = "none" /\ Top.i <= Top.n /\ Freed
    /\ flow' = "die"
    /\ LoopLeft(Front(scopes))
    /\ UNCHANGED <<readonly, array>>

\* Each item is an Rc of its own, but those of `pos $x`; redo keeps the item.
\* (Faulty variant: all the loop's items share one.)
ItemShared ==
    IF Top.list = "magic" THEN shared
    ELSE [var |-> born + 1, cell |-> IF Top.i = 1 THEN celled + 1 ELSE Last(scopes).x.cell]
Item ==
    IF Top.list = "magic" THEN shared ELSE [var |-> born + 1, cell |-> celled + 1]

NextItem ==
    LET fresh == ~Top.again /\ Top.list # "magic"
    IN /\ InLoop("head") /\ flow = "none" /\ Top.i <= Top.n /\ ~Freed
       /\ scopes' = Append(IF Top.again THEN scopes
                           ELSE [scopes EXCEPT ![Len(scopes)].x = Item], Frame(Depth))
       /\ open' = [open EXCEPT ![Depth].at = "body", ![Depth].again = FALSE]
       /\ born' = IF fresh THEN born + 1 ELSE born
       /\ celled' = IF fresh THEN celled + 1 ELSE celled
       /\ UNCHANGED <<flow, parked, captured, currentEnv, fileScope, loops, fuel, copied>>

\* The item is written back whatever ended the body; through a list this makes the
\* array long enough again.
WriteBack == IF Top.list = "mixed" /\ Top.i < Top.n THEN Max({array, Top.i}) ELSE array

Advance(at, i, again) ==
    /\ flow' = "none"
    /\ open' = [open EXCEPT ![Depth].at = at, ![Depth].i = i, ![Depth].again = again]
    /\ UNCHANGED <<parked, captured, currentEnv, fileScope, readonly, shared, fuel, ghosts>>

BodyEnds ==
    /\ InLoop("body") /\ flow \in {"none", "next", "last", "redo"}
    /\ scopes' = Front(scopes)
    /\ array' = WriteBack
    /\ CASE flow = "redo" -> Advance("head", Top.i, TRUE)
         [] flow = "last" -> Advance("head", Top.n + 1, FALSE)
         [] OTHER -> Advance(IF Top.cont THEN "continue" ELSE "head",
                             IF Top.cont THEN Top.i ELSE Top.i + 1, FALSE)

\* A jump to an outer loop clears the mark, which the others leave.
BodyLeft ==
    /\ InLoop("body") /\ flow \in {"outer", "return", "die", "goto", "exit"}
    /\ flow' \in IF flow = "outer" THEN {"next", "last"} ELSE {flow}
    /\ array' = WriteBack
    /\ readonly' = (readonly /\ ~(flow = "outer" /\ Top.list = "fixed"))
    /\ LoopLeft(Front(Front(scopes)))

ContinueEnds ==
    /\ InLoop("continue") /\ flow \in {"none", "next", "last", "redo", "outer", "goto"}
    /\ Advance("head", IF flow = "last" THEN Top.n + 1 ELSE Top.i + 1, FALSE)
    /\ UNCHANGED <<scopes, array>>

ContinueLeft ==
    /\ InLoop("continue") /\ flow \in {"return", "die", "exit"}
    /\ LoopLeft(Front(scopes))
    /\ UNCHANGED <<flow, readonly, array>>
-----------------------------------------------------------------------------
Open ==
    \/ \E kind \in {"block", "eval"} : OpenBlock(kind)
    \/ \E list \in Lists, cont \in BOOLEAN : For(list, cont)
    \/ Call \/ EvalString \/ DoFile \/ Load

Statement ==
    \/ My \/ Assign \/ Shrink \/ MakeAnon \/ DefineNamed
    \/ \E f \in Flows \ {"none", "die"} : Jump(f)

\* Leave: what the interpreter does by itself at the end of a construct.
Leave ==
    \/ SubReturns \/ SubGoesOn \/ StringEnds \/ DoFileEnds \/ LoadEnds \/ CodeGoesOn
    \/ BlockEnds \/ EvalEnds \/ GotoLands
    \/ LoopEnds \/ ItemFreed \/ NextItem \/ BodyEnds \/ BodyLeft
    \/ ContinueEnds \/ ContinueLeft

Over == open = <<>> /\ (flow # "none" \/ fuel = 0) /\ UNCHANGED vars
Next == Open \/ Statement \/ Leave \/ Over
Spec == Init /\ [][Next]_vars
-----------------------------------------------------------------------------
\* Types.  A slot is of a variable declared so far, which shares a cell made so far or
\* none, or it is empty; a construct's Rc is one of the stores.
Slots == {x \in [var : -1 .. born, cell : 0 .. celled] : x.var = -1 => x = Unbound}
Frames == [owner : -2 .. MaxDepth, x : Slots]
Mark == [owner : -2 .. MaxDepth, var : -1 .. born]
Envs == {NoEnv} \cup DOMAIN stores
Constructs ==
    [kind : Kinds, back : Seq(Mark), pre : Nat, env : Envs, before : Envs, start : Nat,
     stash : Seq(Frames), file : BOOLEAN, list : Lists \cup {""},
     at : {"head", "body", "continue"}, i : Nat, n : 0 .. MaxItems + 1, saved : Slots,
     owned : BOOLEAN, cont : BOOLEAN, again : BOOLEAN]
TypeOK ==
    /\ scopes \in Seq(Frames) /\ scopes # <<>>
    /\ open \in Seq(Constructs) /\ Depth <= MaxDepth
    /\ flow \in Flows /\ parked \in BOOLEAN
    /\ stores \in Seq(Seq(Frames) \ {<<>>})
    /\ env \in [Codes -> Envs] /\ currentEnv \in Envs
    /\ fileScope \in Frames
    /\ readonly \in BOOLEAN /\ shared \in Slots
    /\ array \in 0 .. MaxItems /\ fuel \in 0 .. MaxFuel
    /\ born \in Nat /\ celled \in Nat

\* Whatever rearranges the frames puts them back: when a construct ends, normally or
\* by a jump, the frames are those of the code around it, in their order and with the
\* `$x` they had, whatever calls, evals and files were opened inside and however they
\* ended; only an abandoned loop leaves its saved `$x` in the innermost one.
Abandons == Top.kind = "for" /\ (flow # "none" \/ Top.i <= Top.n)
Around == IF Abandons THEN [Top.back EXCEPT ![Len(Top.back)].var = Top.saved.var]
          ELSE Top.back
FramesBack == [][Len(open') < Depth => Marks(scopes') = Around]_vars

\* An anonymous sub finds the `$x` that the code creating it sees, unless a do FILE
\* or an eval STRING in a sub has taken frames away inside a closure: then the frames
\* above the closure's are miscounted.
Miscounted ==
    \E j, k \in DOMAIN open :
        /\ j < k
        /\ open[j].pre > 0
        /\ open[k].kind = "dofile" \/ (open[k].kind = "string" /\ open[k].stash # <<>>)
CapturesVisible ==
    [][Cardinality(Anons') > Cardinality(Anons) /\ ~Miscounted =>
         Visible(Last(stores')).var = Visible(scopes).var]_vars

\* Named subs and loop variables share storage with the code around them: a variable
\* that neither an anonymous sub nor an abandoned loop has copied has one slot, or
\* slots that all hold the same cell, in the frames, the captured environments and
\* whatever a call has put aside; and no cell serves two variables, so that a sub made
\* in a loop keeps the item of its own iteration.
Places ==
    {<<"live", 0, i>> : i \in DOMAIN scopes} \cup {<<"file", 0, 0>>}
        \cup (UNION {{<<"stored", e, i>> : i \in DOMAIN stores[e]} : e \in DOMAIN stores})
        \cup (UNION {{<<"aside", k, i>> : i \in DOMAIN open[k].stash} : k \in DOMAIN open})
SlotAt(p) ==
    CASE p[1] = "live" -> scopes[p[3]].x
      [] p[1] = "file" -> fileScope.x
      [] p[1] = "stored" -> stores[p[2]][p[3]].x
      [] p[1] = "aside" -> open[p[2]].stash[p[3]].x
Held(x) == x.var > 0 /\ x.var \notin copied
OneStorage ==
    \A p, q \in Places :
        LET x == SlotAt(p)
            y == SlotAt(q)
        IN p # q /\ Held(x) /\ Held(y) =>
              (x.var = y.var <=> x.cell = y.cell /\ x.cell # 0)
=============================================================================
