# TLA+ models of oxidized-perl

oxidized-perl (`src/`) is a Perl 5 interpreter in Rust: a lexer, a parser, and a
tree-walking interpreter over the syntax tree (`src/src/interpreter.rs`, 31,000
of its 43,000 lines). This directory holds TLA+ modules of its control logic, the
TLC configurations that check them and proofs checked by TLAPS. `PROJECT.json`
ties each definition to the lines it models.

To check: `tlc -config FlowUnwind.cfg MCFlowControl`, `tlc -config ScopeMain.cfg
MCDynScope`, `tlc -config Phases.cfg Phases` and so on for each run of section
11; `tlapm FlowControlProofs.tla` and so on for the proofs of section 12.

## 1. Inventory

The program is sequential. What is hard in it is not concurrency but re-entrance
and unwinding: almost every operation can call back into user code (a sub, a
destructor, a `tie` method, a handler, a deferred block), and that code may end
by `die`, `exit`, `return`, `last`, `goto`, in the middle of what the caller was
doing. `exec_stmt` reports this with a `Flow`; `eval_expr`, which returns a value,
reports it through registers that somebody must read later. The second hard
thing is that Perl's variables live in several stores at once (lexical frames,
globals keyed by text, shared `Rc` cells) and every operation searches them in an
order of its own. The third is text: what a character means to the lexer depends
on the token before it, and heredocs are read where they were not declared.

| Component | State | Operations | Interacts with | Must hold | Module |
|---|---|---|---|---|---|
| Control flow and unwinding (`exec_stmts`, `exec_stmt`, sub calls, `do`, `eval`, `pop_scope`) | the Rust stack, `pending_flow`, `pending_return`, `$@`, `eval_depth`, `call_context`, `call_stack`, `in_die_handler`, `defer_blocks` | statements, loops, jumps, calls, `eval`, `defer`, `die`, `exit` | every other component calls into it | parallel stacks balanced; a jump reaches its own target and no other; an exception inside an `eval` is trapped there; `return` ends its own sub | `FlowControl` |
| Dynamic scoping | `scopes`, the local saves, globals by package, `package` | `my`, `our`, `local`, `push_scope`, `pop_scope`, lookup | unwinding pops what calls and blocks push | `local` gives back on every exit what was visible before it | `DynScope`, `Localization` |
| Phases and exit status (`run`, `run_with_parse_error`) | `begin/init/check/end` blocks, `exit_code`, `$?`, `$!`, `%INC` | BEGIN, CHECK, INIT, RUN, END, DESTRUCT, `use`, `require`, `do FILE` | takes the main program's `Flow` | phases in order, END runs once, the status is that of the first exit or die | `Phases` |
| Closures, named subs, file scopes, foreach variables | captured environments, `scopes`, `borrowed_file_scopes`, `foreach_lvalue_aliases`, `readonly_vars` | capture, splice in and write back on a call, aliasing of items | calls, recursion, abnormal exits of loops | a sub sees the frames it captured; a variable is one storage location | `Lexicals` |
| Arrays | frames, `aliased_arrays`, globals, `deleted_slots`, `each_cursors`, the element saves | push ... splice, delete, each, `local` of elements and arrays | `pop_scope` restores | marks and cursors agree with the array they are about | `Arrays` |
| Hashes | the same three stores, one cursor | elements, list assignment with destructors, `each`, `local` | list assignment calls user code | the assigned list wins and the loop ends | `Hashes` |
| File handles | four handle tables, buffers, aliases, `$.` | open, close, read, print, seek, tell, eof, slurp | files, process exit | bytes in order, nothing printed is lost | `Handles` |
| Lexer | position, tokens, pending heredocs, line offset, first error | one turn of `tokenize` | feeds the parser | tokens and lines of what was written; errors reported | `Lexer`, `Quotes` |
| Parser | position, errors | one function per grammar level | feeds the interpreter | tree of the precedence table; every step consumes a token | `Syntax` |
| bless and DESTROY | `blessed_refs` by address | bless, scope exit, undef | `pop_scope` calls user code | DESTROY once per object | calls only, in `FlowControl`, `Phases`, `Hashes` |
| Method resolution | `@ISA`, `mro` | DFS, C3, `can`, `isa`, SUPER | `@ISA` changes | linearisation of the reference algorithm | - |
| tie | tied table, `in_tie_handler` | FETCH, STORE ... | any variable access | no recursion, no lost store | - |
| Builtins, formats, regex translation, values | values | data transformations | - | result of each function | - |
| Command line, hash wrapper in C, build files | switches | `-n -p -i -e` | phases | - | - |

`PROJECT.json` "hazards" lists, line by line, what can go wrong in them that a
test would hardly reach, with the properties that would catch it.

## 2. Plan

Done, the most important first:

1. `FlowControl` - control flow and unwinding, with `MCFlowControl` and
   `FlowControlProofs`.
2. `DynScope` - scalar `my` / `our` / `local` over scopes and packages, with
   `MCDynScope`, `DynScopeProofs` and the abstract specification of `local`,
   `Localization`, which it implements in package main.
3. `Phases` - the life of a program from its first top-level statement to its
   exit status, with the files and strings it loads; liveness under fairness;
   `PhasesProofs`.
4. `Lexicals` - the stack of frames and what rearranges it; `LexicalsProofs`.
5. `Arrays`, `Hashes`, `Handles` - the tables keyed by name; `ArraysProofs`,
   `HashesProofs`, `HandlesProofs`.
6. `Quotes`, `Lexer` with `MCLexer`, and `Syntax` with `MCSyntax` - text to tokens
   and tokens to trees, checked against a writer that starts from the meaning.

Still to do:

- `Mro`: DFS and C3 against a reference definition, `@ISA` written through an
  alias of another package, and the `isa` operator.
- `Tie`, `Destroy` (reachability of blessed objects), the index arithmetic of
  `splice` / `substr`.
- `FlowControl` with postfix modifiers and `sort` / `grep` blocks.

A state machine here is written so that user code is not fixed: at each point any
construct or operation that the run's constants allow may come next, so a run
covers every program made of them, up to its bounds. Every run has a bound on the
operations of user code (`MaxFuel`, `MaxOps`) and on nesting (`MaxDepth`,
`MaxFrames`); these bound the model only, and nothing in the code.

## 3. FlowControl

### Correspondence

The Rust call stack is the variable `stack`: one frame per construct being
executed, the innermost last. A frame has the construct's `kind`, its loop
`label`, the `phase` it has reached, and `held`, the `Flow` it carries while its
scope is being popped. `flow` is `Running` while control is inside the innermost
construct and otherwise the `Flow` that a statement list has just returned.

| Model | Code |
|---|---|
| `pending`, `retPending`, `errsv` | `pending_flow`, `pending_return.is_some()`, `$@` not empty |
| `scopes` | `defer_blocks` (and with it `scopes` and the local saves: `push_scope` and `pop_scope` act on all of them), as the number of bodies queued per scope |
| `evalDepth`, `ctxDepth`, `callDepth`, `dieDepth` | `eval_depth`, `call_context.len()`, `call_stack.len()`, `in_die_handler` |
| `ExprStmt(site)` ... `Finish*` | evaluating the expression of a statement: where it is evaluated decides who looks at the registers afterwards |
| `EnterCall`, `SubBodyEnds` / `ListSubBodyEnds`, `SubReturns` | `call_sub_named` / `call_sub_list_named` |
| `EnterBlock`, `BodyEnds`, `LoopUnwinds`, `ContinueEnds`, `*Closes` | the arms of `exec_stmt` for blocks and loops |
| `RunDefer`, `DeferEnds`, `Destroy` | the loops in `pop_scope` |
| `TailCall`, `TailReturn`, `NoTarget` | `goto &SUB` |
| `ProgramEnds`, `outcome` | the match on the main program's `Flow` in `run()` |

`GotoSub` is the code's `Flow::Goto` with a label that starts with `&`; it is a
tag of its own because only `call_sub_named` treats the two differently.

The program is not fixed: at each statement and operand any construct may come
next, and any condition may be true or false. So a run covers every program made
from its `Constructs`, `Sites` and `Jumps`, up to the bounds. `Sites` are the
places of an expression: `stmt`, `my`, `return`, `step` and the `&&` / `||` / `//`
check look at `pending_flow` afterwards; `cond`, `list`, `print`, `destroy`,
`tail` and plain `operand`s do not, `init` and `handler` throw it away. What
values are computed is left out: no control decision but truth depends on them.
`at` and `clean` in a frame are history variables for the properties; no action
reads them.

### Properties

- `TypeOK` - types; counters never below zero.
- `Balanced` - the interpreter's parallel stacks hold exactly what the open
  constructs have pushed. Each early return in the Rust code pops five or more
  stacks by hand; this is what would catch a forgotten or repeated pop.
- `LabelRespected` - a labelled `last` / `next` / `redo` passes through every other loop.
- `ExitKept` - an exit on its way out is lost only in a named list of places
  (list calls, `do`, `map`, `eval`, deferred blocks, a `for` init, the `__DIE__`
  handler, or a later jump of the same expression): this is what the code does,
  and no loop, conditional, block or scalar call is among them.
- `ReturnScoped`, `EvalTraps`, `PendingOwned` - the registers are read by the
  construct that should read them. `ReturnScoped` is about subs begun with empty
  registers, through statements that look at `pending_return`. `EvalTraps` and
  `PendingOwned` hold when no condition calls a sub: an `if` condition that dies
  leaves its exception parked while the branch runs (`exec_stmt`, `Stmt::If`),
  and this is why `FlowTraps` has no site `cond`. With that site in
  `FlowTraps.cfg` TLC finds both violated: in `eval { if (f()) {} last }` the exception
  of `f()` stays parked, and the `last` carries control out of the eval. Section 12 has
  the conditions under which they are proved (`Looked`, `OnlyStmts`); the runs'
  constants satisfy them.

## 4. DynScope

### Correspondence

| Model | Code |
|---|---|
| `frames` | `scopes` together with `local_saves` (pushed and popped together by `push_scope` / `pop_scope`) and, per scope, the package to return to (`saved_pkg` of a bare block, the `call_stack` entry of a sub call). A frame of kind `init` or `list` is no scope but a `local` whose value is being evaluated |
| `globals`, `cells` | `globals.vars`, `aliased_vars`: the two places a package variable can be in. `our` and a reference move it from the first to the second, `our` with a list of values writes to the first whatever is in the second |
| `package` | `self.package` |
| a slot that is a package | `Value::Alias` of that package's cell, installed by `our` |
| `Read`, `Assign` | `get_var`, `set_var` |
| `Our`, `TakeRef` | `Stmt::Our` without a list of values, `\$x` |
| `OurList` | `our ($x, ...) = LIST`, a step for each of its scalars: `globals.vars.insert` under the bare name |
| `LocalBegins` / `LocalEnds`, `LocalListBegins` / `LocalListEnds` | `Stmt::Local`: the single form saves, evaluates, stores; the list form evaluates, saves, stores |
| `Enter`, `Leave` | a bare block or the call of a sub: `push_scope`, `pop_scope` with `restore_locals` |

The code's keys are strings, a variable of main having its bare name as key; here
a variable is a package and a name, and a bare key is package `Main`. Between the
two steps of a `local` any sub may be called and do anything. As in `FlowControl`
the program is not fixed, and leaving a scope is one action: `FlowControl`'s
`Balanced` is what says that every exit reaches it. A refused `local` dies and
changes nothing here.

Abstracted: the value of a `my` or `our` declaration is any value, computed
before the declaration (for `our` the code creates the cell first); a list
`local` has one variable. Left out: `local` of arrays, hashes, elements and
globs, the bindings of `foreach` and `tie`, captured environments and file
scopes, the special variables that belong to main in every package, `use strict`,
and destructors, which `FlowControl` has.

### Properties

- `TypeOK` - types.
- `OneStore` - a package variable stays in one of the two stores: no statement puts it
  in both but a list `our` of a variable of main that has a cell. And every alias has
  a cell. A variable that is in both reads its cell, and every write but
  another list `our` goes there, so the other properties hold of it too.
- `ReadYourWrite` - what `$n = v` writes, `$n` reads. Lookup and assignment search
  the stores in different orders; they agree because of how variables get into
  stores, with one exception, which the property names (`Ambiguous`): when main
  and the current package both have a cell for the name and no alias is in scope,
  `set_var` takes main's, `get_var` the current package's.
- `LocalizationKept` - refinement: with the values of main's variables and, per
  scope, the first save of each name, every behaviour is one of `Localization`:
  leaving a scope gives exactly the variables it localized the values they had
  before, and nothing but assignments changes any other. It is checked where it
  can hold: in package main, with no name both a lexical and a package variable
  with a cell. In another package `local $x` reads the value to save through that
  package and restores main's `$x` (interpreter.rs:3335).

Two things the code does are in the model and in no property, because no promise about
them holds. `local $x` in a package other than main changes main's `$x`, since
`Stmt::Local` stores under the bare name: with a second package in `ScopeMain.cfg` TLC
finds `LocalizationKept` violated. And `our ($x) = LIST` sets `globals.vars`
(interpreter.rs:3508) even if `$x` has a cell, from an earlier `our $x` or a reference: the
value is then not what `$x` reads, and in another package it is main's `$x` that is set.

## 5. Phases

`at` is the place `run()` has reached (and with it `${^GLOBAL_PHASE}`), `stack` the
pieces of user code being executed: a phase block or the main program, and on it
the files, strings, BEGIN blocks and import subs it loads. A piece of user code is
any sequence of the statements that concern the phases.

| Model | Code |
|---|---|
| `TopBegin`, `TopUse`, `TopRegister`, `CompileFails`, `EagerEnds`, `CompileEnds` | the first pass of `run()` over the top-level statements |
| `ParseBeginEnds`, `ParseHandler`, `ParseFails` | `run_with_parse_error`: BEGIN blocks, the `__DIE__` handler, the status of a syntax error |
| `BlockBegins`, `BlockEnds`, `PhaseEnds`, `StartEnds`, `todo` | the loops over clones of the CHECK, INIT and END lists |
| `MainEnds`, `DieStatus` | the match on the main program's `Flow`, the exit status of a die |
| `Destroy`, `DestroyEnds`, `Park`, `TakePending` | destructors, lexical and global; what parks a jump in `pending_flow` and who takes it |
| `EndsDone`, `RunReturns`, `StatusOf` | the end of the END blocks and of `run()` |
| `LoadAbsent`, `LoadAgain`, `LoadFile`, `MarkLoaded`, `DoFile`, `FileEnds`, `ImportEnds`, `EvalString`, `StringEnds` | `do_require`, `Stmt::Use`, `do FILE`, `eval STRING` |

Left out: in which package or file a block runs, pragmas, warnings' text, `eval
BLOCK` inside a unit and `goto`, which `FlowControl` has.

- `RunOrder` - CHECK and END last in first out, INIT first in first out, no block
  twice, also when a running block registers more.
- `BlocksRun` (liveness) - a block registered in time runs, however the main
  program ends; the ends that skip it are named (`cause`).
- `StatusKept` - the exit status is that of the first end of the main program or of
  its compilation. Two exceptions are part of the property because the code has
  them: a file run by an END block that calls `exit`, and `$?` when the status
  would be 0 (0 stands for "no exit was called" in `exit_code`).
- `LoadedOnce` - `require` and `use` start a file's body at most once, though it dies,
  exits or requires itself in the middle.
- `Terminates` (liveness) - `run()` gets to an exit status if user code ends.

## 6. Lexicals

The stack of lexical frames, for one name `$x`. A slot holds an identity instead of
a value: the declaration it comes from (`var`) and the `Rc` cell it shares with
other slots (`cell`, 0 for a plain copy). `open` holds the constructs being
executed; each remembers what its Rust counterpart keeps in locals (the frames it
took away, the closure it replaced).

| Model | Code |
|---|---|
| `MakeAnon`, `Capture`, `DefineNamed` | the capture of frames by `sub {...}` and of named subs in blocks |
| `Call`, `SubReturns`, `ReturnFrames` | `enter_closure_env` / `exit_closure_env`, `enter_named_sub_scope`, and the file scope a sub of a required file borrows |
| `EvalString`, `DoFile`, `Load` | which frames each of them hides from the code it runs |
| `For`, `NextItem`, `Item`, `BodyEnds`, `BodyLeft`, `WriteBack` | foreach over an array or a mixed list: aliases, read-only marks, the "freed value" check |

- `TypeOK` - and a slot with no variable is the empty slot.
- `FramesBack` - at the end of a construct the frames are those of the code around
  it, in their order, each with the `$x` it had; only a loop that is abandoned
  leaves the `$x` it saved in the innermost of them.
- `CapturesVisible` - an anonymous sub finds the `$x` its creator sees. The exception
  `Miscounted` is in the code: a `do FILE`, or an `eval STRING` in a sub, inside a
  closure takes frames away, and the frames above the closure's are then counted
  from the wrong place.
- `OneStorage` - a variable that no anonymous sub and no abandoned loop has copied is
  one storage location, and no cell serves two variables. The places that are
  compared are the live frames, the file's scope, the stored environments and
  what calls have put aside. That anonymous subs
  copy plain slots, so that two closures over one `my $x` may each have their own,
  is the code's design and is recorded in `copied`.

The leak of read-only marks (return, die, exit and goto out of a foreach over
literals leave the mark, interpreter.rs:2216) is modelled, in `BodyLeft` and
`Assign`, but no property claims its absence. Left out: arrays and hashes among
lexicals, values, the `DB` package's eval, sort and grep frames.

## 7. Arrays and Hashes

One name each, in up to three stores: a lexical frame, a shared `Rc` of the current
package or of main (after `our` or `\@a`), a plain global. Each operation is a
function on the record `mem` of the interpreter's fields, so that the different
lookup orders can be read side by side: `Place` and `PlaceOr` are `get_array` /
`get_hash`, and the variants with other orders are named for their user.

`Arrays`: push, pop, shift, unshift, splice, assignment, `$#a`, delete, exists, each and
keys, `local $a[i]`, `delete local`, `local @a`, `my`, `our` with and without a list
(`OurList`, which sets main's global whatever the package), `\@a`, package statements and
blocks.

- `DeniedIsUndef` - a slot marked deleted (kept beside the value, per bare name) is
  undef until it is written.
- `EachComplete` - whatever makes an array longer starts `each` afresh.
- `LocalUndone` - a block that only localizes elements, also past the end and in blocks
  inside it, leaves the array as it found it.

The first two are stated while the name stands for one array all along (`single`):
marks and cursors are kept per name, so `my @a` over a marked `our @a` inherits its
marks, and in packages other than main, `push`, `pop`, `shift` and `splice` read
through main's array (interpreter.rs:14602). `LocalUndone` leaves out arrays with
deleted slots, and negative indices: `restore_locals` resolves them again when the block
ends, against a length that may be another by then. So the history `tainted` counts a
`local` of an index from the end as one that touches the array otherwise, for all
blocks it is in: `delete local $a[-1]` takes the last element off, and the end of its
block would put it in the place of the one before, also for the blocks around it.

`Hashes`: list assignment, of which `our (%h) = LIST` is one, is several steps. `TakeEntry` takes the old entries out one
by one, a destructor may run after each and store into the hash, `InstallList`
puts the list in.

- `AssignmentEnds` (liveness) - the loop ends although destructors refill the hash.
- `AssignmentSeen` - the list wins over what destructors stored.
- `ElementsBack` - a block that only localizes elements leaves the hash as it found it,
  for main's global hash; for the others the restore looks the name up again and
  may find another hash.

Exceptions named in the properties: `Torn`, when the package's `Rc` and main's are two
hashes and entries are taken from one while the loop looks at the other, and
`Hidden`, when an outer lexical hides what was assigned. Left out of both modules:
read-only arrays, slices, nesting, argument aliases, key order.

## 8. Handles

`io` is the interpreter's four tables (readers and writers of files and of scalars),
aliases, hidden globs, `$.` and its owner, with the files on disk. A record is what
one readline returns under the `$/` in force, and positions count records.
`BufReader` and `BufWriter` are external, modelled by what they do: a reader is
ahead of what was delivered, a writer holds back what was printed.

- `ReadsInOrder` - what a handle gives is the file's content in order from where it
  was opened or sought, however readline, slurp, read, eof, tell and seek mix.
- `Delivered` - while one handle at a time writes a file, the file and then the
  writer's buffer are what was printed; when none does, the file is. So re-opening,
  closing and the program's end lose nothing. A seek of the writer, or a second
  writer, ends the promise until the file is opened again while none writes it.
- `BlocksRestore` - a block that localizes globs and `$.` gives both back.

The type invariant is `TypeInv` of `HandlesProofs`, where it is proved; the run's
properties compare whole tables. Left out: STDIN and `<>`, fresh names of `open my $fh`, failed opens, non-UTF-8 slurping,
the descriptors behind STDOUT and STDERR, pipes, directories, select, fileno. A
print to a closed handle goes to the process's output, as in the code.

## 9. Lexer and Quotes

Every action of `Lexer` is one turn of `tokenize`'s loop: blanks and a comment, then a
token or a stretch of text that gives none. `Quotes` holds the readers of strings,
patterns, substitutions and heredocs as operators on a text of words, digits and
signs (a word is one element of the text). `MCLexer` writes the texts: from terms,
operators, heredocs, pod, formats, comments and `# line` it puts together a text
together with the tokens and lines it stands for, and breaks texts off inside
every construct together with the error that must be reported.

- `Recognised` - the tokens are those that were written: what `/ % * < - ?` mean
  behind each kind of token, quote operators, heredocs in text, islands and
  substitutions.
- `LinesRight` - each token has its line, behind heredocs, pod, formats, `# line`.
- `Reported` - a broken text is reported with its own error, the first, and no
  other text is.
- `MarksPlaced` - every pending heredoc has its place, a token or a mark inside one,
  and no mark is left once its body was read.
- `Advances` - every turn moves on in the text.

The writer leaves out texts for which the code departs from Perl or from its own
rule elsewhere. The model has these cases; they only are not among the texts
judged:

- `s///` and `tr///` do not honour `\` before the delimiter; in other quotes with a
  delimiter that is no pair, `\\` before the closing one escapes it.
- A line end before an operator makes a following `/` a pattern; `x`, `eq`, `lt`,
  `//=`, `||=` and others missing from `expects_operand` make `/ % * <` behind them
  operators; `/` behind `}` or `)` is always a division.
- A line end inside the replacement of `s///`, inside a string over several lines or
  in the look-ahead for `=>`, behind a heredoc's header on the same line, loses or
  moves that heredoc's body; `<<WORD` anywhere in a line of an interpolating
  heredoc counts as a nested one.
- Quotes over several lines, and `word` with `=>` on the next line, get the line of
  their end; a quote at a line's end right before pod gets the line after the pod;
  a text with tokens after `__END__` on the same line drops lines.
- Unterminated `"..."`, `'...'`, `q`, `qq` and `qw`, and a heredoc pending at `__END__`,
  are not reported.
- `$h{q}`, `->s(...)` and `->y(...)` are read as quote operators; a brace in a string
  inside `@{...}` ends that island; flag letters right behind a pattern swallow a
  word; a backtick string with only an escaped `\$` becomes interpolating.

Left out: number prefixes and exponents, v-strings at the start of the text, `# line`
between the two parts of `s{}{}`, `(?{...})` in `m'...'`, case escapes (one sentinel
stands for each).

## 10. Syntax

One operator per function of the parser over a list of tokens, a token being the
string that names it (tokens that every function treats alike are one or two
members of a set). `at` is the parser (position, result, error) and each step of
`Next` is one turn of `parse_program`. `MCSyntax` writes programs from trees with the
precedence table of perlop, adds parentheses where a looser operator is below a
tighter one, and breaks them.

- `Kept` - a program written from a tree is parsed into that tree without an error:
  two levels of operators in each position, every statement, nested blocks.
- `Refused` - an operator with nothing behind it and a chain of comparisons that do
  not chain are reported, and so is every program whose end some function ran past.
- `Progress` - whatever the tokens, every turn takes at least one.

The writer leaves out what the code reads differently: comparisons of parenthesised
comparisons (taken for a chain), `..` and `**` with nothing behind them, `**` after
`&f` or `defined(...)`, `die(X) op Y` and some `sub {...} op` as statements, `{ w =>
... }` at a statement's start (a block), `shift` at the very end without `;`, and
`print(...);` before a statement that starts with a modifier word, which becomes its
modifier (`maybe_postfix` is called twice, parser.rs:675). In the tokens of
`local($$r` without an end the loop of `parse_local_decl` does not stop
(parser.rs:1393); `Progress` is about turns, and the model has that loop as `stuck`.

## 11. Runs

States are distinct states found; all runs finish without an error.

| Run | Module | Bounds | Properties | States |
|---|---|---|---|---|
| `FlowReturns` | `MCFlowControl` | sub, `do`, eval; statements only; depth 9, 9 statements | `ReturnScoped` | 38,775 |
| `FlowTraps` | `MCFlowControl` | `if`, eval, scalar and list subs, `my`, `return`, goto; no conditions that call; depth 7, 6 statements | `PendingOwned`, `EvalTraps` | 47,793 |
| `FlowUnwind` | `MCFlowControl` | every construct and site, every jump but `goto LABEL`, which `FlowTraps` has; depth 5, 4 statements | `TypeOK`, `Balanced`, `ExitKept`, `LabelRespected` | 2,412,483 |
| `ScopeMain` | `MCDynScope` | main, one name, both forms of `our`, `\$x`, both forms of `local`; 4 frames, 2 saves per scope | `TypeOK`, `LocalizationKept` | 418,045 |
| `ScopeReads` | `MCDynScope` | main and Foo, one name, `my`, both forms of `our`, `\$x`; 3 frames | `OneStore`, `ReadYourWrite` | 111,414 |
| `Phases` | `Phases` | one file and an absent one, exit codes 0 and 1, `$?` 0 and 256, `$!` 0 and 2; 2 blocks, 4 statements, depth 4 | `TypeOK`, `RunOrder`, `LoadedOnce`, `StatusKept`, `Terminates`, `BlocksRun` | 171,445 |
| `Lexicals` | `Lexicals` | 2 anonymous subs, a named sub, a sub of a file, arrays of 2; depth 3, 4 statements | `TypeOK`, `OneStorage`, `FramesBack`, `CapturesVisible` | 1,576,143 |
| `Arrays` | `Arrays` | main and P, one value and undef, length 2; 2 blocks in each other, 4 operations | `TypeOK`, `DeniedIsUndef`, `EachComplete`, `LocalUndone` | 131,661 |
| `Hashes` | `Hashes` | main, P and Q, two keys, one value; 2 blocks, 5 operations | `TypeOK`, `AssignmentEnds`, `AssignmentSeen`, `ElementsBack` | 418,325 |
| `Handles` | `Handles` | two names, one file of up to 2 records at the start, one scalar, two records; 2 blocks, 5 operations | `ReadsInOrder`, `Delivered`, `BlocksRestore` | 808,993 |
| `Syntax` | `MCSyntax` | two levels of operators, statements nested, broken programs, short sequences of any tokens | `Kept`, `Refused`, `Progress` | 117,964 |
| `Lexer` | `MCLexer` | 30,267 texts of one to three terms with everything that may stand around them | `Recognised`, `LinesRight`, `Reported`, `MarksPlaced`, `Advances` | 338,781 |

Why these bounds are enough for the case to happen:

- Control flow: depth 4 holds a loop in a loop with an expression in the inner one,
  the deepest relation a label has (the jump, a loop it passes, its loop); depth 5
  to 9 a call inside a deferred block or destructor of a call inside an `eval`. One
  label besides "no label" is enough: a jump compares its label with one loop at a
  time.
- Scopes: two values tell a restored value from an unrestored one; four frames hold
  a `local` whose initial value calls a sub that localizes the same variable again;
  two saves are the least with which the order of undoing matters; a second package
  the least with which lookup and assignment can differ.
- Phases: two blocks are the least that have an order; four statements let a file
  load itself through a string and still die or exit, in a block registered by a
  block. `$!` of 2 and `$?` of 256 reach each branch of the status of a die.
- Lexicals: two anonymous subs nest one closure in the other and depth 3 re-enters
  the outer one from inside; two items are the least with a next iteration.
- Arrays, Hashes: an array of two has a middle and an end; four operations fill an
  array, open a block and localize in it twice, the least with which the order of
  undoing matters, or in a block of it; five let a block localize a hash, shrink and
  grow it; three packages give a hash that is neither the current one nor main's.
- Handles: two records and two names let a reader be ahead while another handle
  appends, and an alias hide the handle it stands for.
- Lexer, Syntax: what a token means depends on the token before it and on the
  construct around it, and precedence on pairs of operators: two levels of each,
  with every kind on both sides.

Deadlock is checked in all runs but `Syntax`, where the parser stops at the end of
its tokens. Elsewhere the only states without a step of the program are those in
which the program is over, and these have an explicit stuttering step (`Terminated`,
`Over`, `Done`); in `Handles` the step `Exit` stays enabled.

Fairness. The interpreter is a single thread that always takes its next step, and
user code is assumed to end, which the bounds make true of every model. `Phases`
has weak fairness on `run()`'s steps and user code's together for that reason; `Hashes` only on the
two steps of a list assignment, since user code may stay in a block for ever. The
other modules state no liveness and assume no fairness: whether a loop or scope ends
is the Perl program's business. `Progress` and `Advances` say that parser and lexer
come to an end as action properties, without any.

## 12. Proofs

`FlowControlProofs` proves, for every value of the constants that satisfies
`FlowControlAssumption` (no bound on depth, statements or labels beyond their
being given):

- `TypeCorrect`: `Spec => []TypeOK`
- `StacksBalanced`: `Spec => []Balanced`
- `SpecIInv`: `Spec => []IInv`, from which both follow.

Neither `TypeOK` nor `Balanced` is inductive. A sub returns by `callDepth - 1`,
which is a natural number only because its own frame pushed one (`Balanced`); and
a frame is left in a certain phase only because of what may stand on it: the
expression that ends a block (`tail`) sits on a call or `do`, a list, init or step
expression on its loop, a handler call on a `die`. `IInv` adds to both
`WellFormed`: which phases each kind of frame may be in, and how each frame fits
the one below it. The proof has a lemma per action, each from two or three facts
about sequences (what replacing the last frame, appending one or removing one
does to `Balanced`), and the temporal step at the end.

Its second part goes on from `IInv` and proves what becomes of a `Flow` on its way
out:

- `ExitIsKept`: `Spec => ExitKept`
- `LabelIsRespected`: `Spec => LabelRespected`
- `PendingIsOwned`: `Looked => (Spec => []PendingOwned)`
- `EvalsTrap`: `Looked => (Spec => EvalTraps)`
- `ReturnIsScoped`: `OnlyStmts => (Spec => ReturnScoped)`

The first two rest on `HeldInv`: a frame holds a `Flow` while it unwinds and at no
other time, so that none is forgotten in a construct that goes on. `Looked` says that
only those sites call that look at `pending_flow` afterwards, and that there are no
`do` and `map` blocks; this leaves out deferred blocks and destructors too, whose
sites do not look. With the others the code itself leaves an exception parked
(section 3). `OwnedInv` is what makes `PendingOwned` inductive: while a jump is parked
the innermost frame is one that will take it, an expression or a sub that is
closing, and by `ChainOK` a sub is called by an expression only, or by `goto &SUB`
from a sub that is closing: so whoever parks a jump on its way out leaves it to a
frame that looks. `OnlyStmts` says that expressions are statements of their own,
operands, destructors, deferred blocks or handlers; `ReturnInv` then says that while
a return value is parked there is an expression on the stack with no sub above
it that was begun with empty registers: the value never gets past the sub it was
returned from. All three invariants were model-checked before they were proved.

`PhasesProofs` proves for `Phases`, for any files, codes, blocks and nesting that
satisfy `PhasesAssumption`:

- `TypeCorrect`: `Spec => []TypeOK`
- `FilesLoadOnce`: `Spec => []LoadedOnce`
- `ExitStatusKept`: `Spec => []StatusKept`
- `BlocksInOrder`: `Spec => []RunOrder`
- `NoBlockForgotten`: `Spec => NoneForgotten`

`PhasesInv` is the invariant: the type invariant, and `BottomOK` (the bottom of the
stack is a piece of code of the phase `at`, and everything on it is loaded by user
code), without which nothing ties a unit that ends to the list it came from;
`LoadInv` (a file that was begun is in `%INC`, also while it runs); `StatusInv` (where
the first end of the program is remembered, phase by phase); and for the order
`ListsInv`, `RanInv` and `TodoInv`: the lists of blocks are in the order of
registration and disjoint, a block that ran is not to run before one that ran
earlier, and `todo` has blocks of the phase's list in their order that come after
all that ran. `NoneForgotten` is the safety half of `BlocksRun`: a block registered in
time has run when its phase is over (CHECK before INIT begins, INIT before the main
program, END before the global destructors and the exit), whatever the blocks before
it do, unless the program ended first. It relates two moments, so what is followed
from the one to the other is a single block, by `CheckCovered`, `InitCovered` and
`EndCovered`: it is on its list and still in time, or `Served` (it ran
or is still to run), or `cause` says that there is no such phase. The steps of run()
are put into two kinds, those that move it on (`Moves`), which serve the next list
whole or leave nothing to do, and those that keep it in its phase (`Stays`), which
forget nothing; `CauseInv` says where a program that ended early can be. That a phase
does end, the other half, and `Terminates` are liveness and stay with TLC.

`LexicalsProofs` proves for `Lexicals`, for any subs, arrays, depth and number of
statements that satisfy `LexicalsAssumption`:

- `TypeCorrect`: `Spec => []TypeOK`
- `FramesAreBack`: `Spec => FramesBack`
- `CapturesWhatIsVisible`: `Spec => CapturesVisible`
- `StorageIsOne`: `Spec => []OneStorage`

None follows from the frames that are live. While a construct is executed the
frames around it (`back`, a history field) are partly in `scopes` and partly in
what calls, `eval STRING` and `do FILE` have put aside. `BackInv` says of every open
construct, not only of the innermost, where they are, and chains it to the one
inside it: what is live under one construct is what the next one found. `FrameInv`
is this and `TypeOK`, which needs it: a sub that ends cuts its own frames out of the
live ones, and they must be there. For `CapturesVisible`, `EnvInv` has `Nested` (`current_closure_env` is that of
the innermost sub, and each sub remembers the one of the sub below it) and `Prefix`
(while nothing above a closure's sub takes frames away, the variables of its
environment are those at the bottom of the frames). So what a sub writes back
when it ends has the variables its environment had before, and what the innermost
one finds through its environment is what the frames show. A lemma gives the shape
of every step (it opens a construct, closes the innermost, moves a loop on, or
keeps the frames), and the invariants are proved over the four shapes instead of
over the actions.

`OneStorage` relates every place that holds a slot to every other, and a step may move
most of them. `StorageInv` adds to it two facts: the slot that a file's subs are about
to share (`shared`) is a place like the others, and the slots of environments have
cells. A variable without a cell then has one place, so it is enough to describe a step
by where the slot of each place comes from: from a place of which it is the only heir,
from any place when it has a cell, or it is new (`From`; `AllFrom` and `FitFrom` derive
the invariant). Each action is one such description. Only `sub g {...}` does more: it
first gives cells to the frames it promotes, which differ because they are counted
along the frames (`RankFacts`), and then stores them.

`HashesProofs` proves for `Hashes`, for any keys, values, packages and nesting that
satisfy `HashesAssumption`:

- `TypeCorrect`: `Spec => []TypeOK`
- `AssignmentIsSeen`: `Spec => AssignmentSeen`
- `EntriesGoOneByOne`: `Spec => EntriesGo`
- `ElementsAreBack`: `Spec => ElementsBack`

The end of a block undoes its saves in a loop, and each turn looks for the hash
anew, so nothing about it follows from one turn. `Undo` is a recursive function;
`UndoElems` shows that it has a value, the last of a run of memories, and the
properties are proved by induction over that run: that no turn does more than write to
hashes (`Writes`, for `TypeCorrect`), and that in main, where neither a lexical nor an
Rc is in the way, after some turns the keys of the saves undone so far have the
value of the earliest of them (`UndoGives`). `ElementsBack` speaks of blocks that have
done nothing but localize; its invariant is `BackInv`: such a block and those inside it
have no `my %h`, no whole hash to restore and the package they began in (`QuietInv`),
and undoing its saves would give what it found, starting from what the next block
inside it found, or from the hash as it is (`ChainInv`). Both were model-checked first.

`EntriesGo` is the safety half of `AssignmentEnds`: each turn of the loop that empties
the hash keeps what is read the same hash that is emptied, and either a destructor has
run, of which there are `ops` at most, or what is read has lost the entry that was taken
and no other. With finitely many keys this pair goes down at every turn, so the loop
cannot turn for ever; that it turns at all is fairness and stays with TLC. It needs
`Reached`: while the loop runs the hash has a lexical or an Rc of main's.

`SequenceLemmas` has what these proofs keep needing of sequences: what `Last`,
`Front`, `Append`, `Reverse` and slices give, element by element, and the extremes
of a nonempty set of indices. From the smallest element of a set it has induction
up to n (`CountUp`) and the existence of what n steps lead through (`Unrolled`),
both over a set and not an operator, so that they can be cited for any loop.

`DynScopeProofs` proves, for every value of the constants that satisfies
`DynScopeAssumption` (any packages, names, values, nesting and saves):

- `TypeCorrect`: `Spec => []TypeOK`
- `StoresAgree`: `Spec => OneStore`
- `ReadsWhatItWrote`: `Spec => ReadYourWrite`

The invariant `IInv` has the types of the scopes (`FramesOK`) and of the two
stores (`StoresOK`), and adds what `TypeOK` does not know: the file's scope is at
the bottom, so that popping another leaves one, a frame of a pending `local`
has its name, so that the store that ends it is of a variable, and an alias has its
cell. The last needs that cells are never removed (`Grows`): an alias made long ago
keeps its cell through every step. The ways a step writes package variables
(`Storing`, `Moving`, `Leaving`) and the four ways it changes the scopes are a lemma
each. `StoresAgree` follows from the same lemmas, each of which says that no variable
enters both stores (`NoneDoubled`), and from `IInv` where an assignment goes through an
alias: it writes to the cell, so there must be one. `NextDoubles` says so of every step
but a list `our`, which can do it to one variable of main's.
`ReadsWhatItWrote` rests on `Extremes`, the largest index of a nonempty set of
indices, for the innermost scope that has the name, since `frames` has any length.

- `LocalKept`: `MainOnly => (Spec => LocalizationKept)`, the refinement.

`MainOnly` says that main is the only package and that no name of a `my` is also
localized; outside of it the code does not keep the promise (section 4). `LocalOK`
is the invariant it gives: no frame then hides a name that some scope or pending
`local` is to restore. The open scopes are the domain of the abstract `undo`, which
`UndoOf` takes from the indices of `frames` that are scopes; the frames of pending
`local`s between them have no counterpart. Each step maps to one of `Localization`
or a stutter: `Enter` and `Leave` add and remove the deepest scope, `LocalEnds`
is `Local`, the list form is `Save` and then `Assign`, `Our` and `TakeRef`, which
move a variable from one store to the other, change nothing that can be read but what
`our` initialises, and `OurList` is an `Assign`, or nothing if there is a cell.

`HandlesProofs` proves for `Handles`, for any names, files, scalars, records, nesting
and length of the files at the start that satisfy `HandlesAssumption`:

- `HandlesKept`: `Spec => []HandlesInv`, from which the others follow
- `ReadsAreInOrder`: `Spec => []ReadsInOrder`
- `AllIsDelivered`: `Spec => []Delivered`
- `BlocksGiveBack`: `Spec => BlocksRestore`

What was read says nothing of what will be: the buffer may hold anything. `Follows`
says that the log and then the buffer (nothing, for a scalar) are the text from
where the log began, and that the handle's place is where they end (`Agrees`), so
that a full buffer, a slurp and an `eof` that fills it are the same fact; it goes on
when the text grows (`AgreesGrown`), and a log is given up when the text changes
otherwise. `Held` adds to `Delivered` where the writer stands: at the end, or in
append mode, in which it writes at the end wherever that is. Every operation on
handles is a lemma that says what it leaves alone and that it delivers (`Delivers`:
what was held for a file still is), so that the steps of the program compose them.
For the blocks, `Chain` is like `ChainInv` of Hashes: undoing the saves of each open
block, last first, starting from what the next one found, leads to what it found;
the globs it hides are those it did not find hidden. `HandlesInv` was model-checked
with `Handles.cfg` before it was proved.

`ArraysProofs` proves for `Arrays`, for any items, length, nesting and number of
operations that satisfy `ArraysAssumption`:

- `TypesKept`: `Spec => []TypeOK`
- `DeniedUndef`: `Spec => []DeniedIsUndef`
- `EachKnowsAll`: `Spec => []EachComplete`
- `LocalsUndone`: `Spec => LocalUndone`

`TypeOK` is inductive only with `CellsOK`: an Rc that is registered, or that a `local
@a` is to put back, exists. Marks and cursors are kept by name and arrays are looked up
by several rules, so each operation is first put into one of four kinds (`Change`):
it keeps the array where it is, puts another in its place, gives it an Rc, or has it
looked for from another package. `SingleInv` needs of the first kind that a slot that
is denied stays undef and a cursor stays long enough (`Good`), when the in-place
operations, which know the bare name only, find the same array (`One`); and of the
others that `single` falls, unless nothing is marked or the array is where it was. As
long as there is no array at all (`home = Nowhere`) there is nothing to be marked
either (`Fresh`). The end of a block is a run of undos, each of which is of the first
kind (`ElemsRun`), by induction over it.

For `LocalUndone` the saves of a block must say what to undo while blocks are still
open inside it. `Kept(b, saves, k, seen)` says so of the first k saves: a slot that
none of them is of is as in b, and the first save of each other slot has what was
there in b. A `local` makes it k + 1 (`LocalKept`), undoing the last save k - 1
(`UndoKept`), and at 0 every slot is back; `LenKept` does the same for the length, to
which the array is cut in the end (`RestoreLenKept`). `BlocksKept` has this of every
open block, between what it found and what the next one inside it found, so that
the end of the inner one, which gives back what it found, hands it on (`KeptAgain`).
It was model-checked with `Arrays.cfg`, and in part with three blocks, before it was
proved; that is how the model was seen to be wrong about negative indices in inner
blocks, which `tainted` now counts (section 7). `Arrays.cfg` has four operations, so of
what longer programs do in blocks inside blocks the theorem says more than the run.

Model-checked only are `Syntax`, `Quotes` and
`Lexer`. They use recursive operators, as a recursive descent does, and the
provers are not available to a module that declares one. The loops of the other
modules are recursive functions, about which facts can be proved by induction over
the set of steps taken so far (`CountUp`, `Unrolled`). `Recognised`, `LinesRight`,
`Reported`, `Kept` and `Refused` compare what the code makes of a source with what the
source was written to mean, and the MC modules write both down, so that they are
about those sources and not about every value of a constant. Liveness under fairness
(`Terminates`, `BlocksRun`, `AssignmentEnds`) stays with TLC, the safety halves of the
last two excepted.

Leaves that the provers find only just in time name one and give it longer
(`SMTT(30)`, `ZenonT(60)`), so that the proofs do not depend on a fast machine.

## 13. Not modelled

- Within the modelled components, what each section above lists as left out; in
  control flow the postfix modifiers (`STMT if COND`, `for`, `while`, `until`,
  `unless`: `PostfixFor` and `PostfixUntil` hand an unlabelled `next` to the loop
  around them), `eval STRING` as a construct, `sort` and `grep` comparators, warn
  handlers, the messages of exceptions; in scoping `local` of globs, the bindings
  of `tie`, the special variables that belong to main in every package.
- Method resolution, `tie`, and the reachability test behind `DESTROY`: on the plan.
- Builtins on values (`sprintf`, `pack`, `sort`, number formatting), the translation
  of regular expressions, values and coercions: transformations of data with no
  control to model.
- The syntax tree (types only), the command line, the C hash wrapper, the build.
- External: the bytes moved by I/O, `BufReader` and `BufWriter`, the `regex` crate.
