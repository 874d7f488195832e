# A verification development for the Deed toolchain

Deed is a small language whose functions declare what they may touch (effect
rows) and what they promise (contracts, refined types).  The repository is its
toolchain: a compiler, an interpreter, a WebAssembly backend, a dependency
fetcher, a language server, a debug adapter and a tool server for agents, some
67,000 lines of Rust under `src/crates`, with no third-party dependencies.

This directory holds TLA+ models of the parts of it where order, failure and
stale state decide correctness, the TLC instances that check them, and theorems
checked by TLAPS.  `PROJECT.json` ties every definition to the lines it stands
for.  Paths below are relative to `src/crates/` unless they begin with `src/`.

## 1. The system

### Components, their state and what is hard about them

| component | state it keeps | operations | what makes it correct, and hard | here |
|---|---|---|---|---|
| dependency cache (`deed-fetch/cache.rs`, `verify.rs`, `deed-cli/main.rs` retrieval) | a directory shared by every invocation | lookup, fetch, verify, insert by write-then-rename, later read | only verified bytes are stored, entries appear whole; invocations overlap and are killed | `FetchCache`, `ContentStore` |
| debug adapter (`deed-dap`, `deed-interp/watch.rs`) | the session, one program thread, two channels | launch, setBreakpoints, configurationDone, steps, disconnect | neither thread waits for the other; what the client reads is where the program is; output arrives once | `DebugSession` |
| interpreter (`deed-interp/interp.rs`) | frames, rows, handlers, captured entry state, contract depth | calls, closures, `with`, dispatch, `finally`, `assert refuses`, two unwinding signals | every stack is restored however an activation ends; cleanup runs once; no accepted program breaks a row | `Interp` |
| effect checker (`deed-effects`) | rows per function, call graph | infer, compare, discharge by `with`, find cycles | soundness for the run-time row check | its rules guard `Interp`'s environment |
| integer facts (`deed-typeck/facts.rs`, statements of `check.rs`) | ranges, differences, totals | narrow, settle, join, forget, answer | a *Proven* contract is not checked at run time, so one wrong proof removes a check | `Facts` |
| storage reuse (`deed-mir/reuse.rs`) | a summary per function | rounds over all functions | a wrong "not kept" is a write into a block somebody still reads | `ReuseSummaries` |
| compiled `with` and `perform` (`deed-mir/lower.rs`, `deed-codegen/compile.rs`, `layout.rs`) | handler list, frame stack and its top, in memory | install, perform, return, end a block | the innermost open block answers, with its own state; what a block took it gives back; nothing given back is read | `HandlerScopes`, `CompiledScopes` |
| compiled walks over lists (`deed-mir/shape.rs`, `lower.rs`, `deed-codegen/runtime.rs`) | blocks of words, the accumulator | push, grow, walk, write in place | a list is a value: only a walk that alone holds its accumulator may write it | `PushWalks` |
| search for inputs, manifests, lock files (`deed-driver/inputs.rs`, `manifest.rs`, `deed-cli/main.rs`, `lock.rs`) | a queue of wanted modules, roots found on the way; hashes | search, verify, compile, record | what was verified is what is compiled and what is recorded, though every file is read again each time; the search ends | `LockedBuild`, `SourceSet` |
| language server (`deed-lsp`) | open documents, folders, two gates | one message at a time | what is drawn is about the texts there are; a rename breaks nothing; every request is answered | `EditorSessions`, `SourceSet` |
| lexer, parser (`deed-lexer`, `deed-parser`) | place in the text, what a brace may open | text to tree | what a word belongs to depends on where it stands: braces, line breaks, precedence | `Grammar`, `Declarations` |
| formatter (`deed-fmt`) | the next comment, where the last thing printed ended, indent | tree and comments to text | the text means what it meant, comments stay, formatting twice is formatting once | `Rendering`, `Formatting` |
| agent tools (`deed-mcp`) | a ready flag | one message at a time | nothing is answered before it is ready | not modelled |
| capability runtime (`deed-rt`) | none | resolve a path or URL inside a grant | nothing gets out of it | not modelled |
| resolver, diagnostics, driver | none across calls | tree to tables to text | determinism: tested over generated programs | what files show each other is in `SourceSet` |
| type rules (`deed-typeck`), evaluation (`deed-interp`), lowering (`deed-mir`), code (`deed-codegen`) | the types, the obligations, the layouts | check, build, validate, run | four passes written apart about the same expressions: what one accepts or leaves to another has to be what the other does | `Types`, `Checking`, `Evaluation`, `Lowering`, `CompiledCode`, `TypedPrograms` |
| component adapters (`deed-codegen/abi.rs`) | tables | conversion | case analysis, no interleaving | not modelled |
| `std/`, `design/`, `conformance/`, `examples/`, `editors/`, `benchmarks/` | - | - | documents and data | quoted |

How they meet.  The driver runs lexer, parser, resolver, type checker and
effect checker over a set of files; the command line collects that set (input
discovery, manifests, the cache, the lock file).  What the checkers accept is
either interpreted or lowered to the IR and compiled.  The type checker's
verdicts (*Proven*, *Guarded*) decide which contract checks the lowering keeps
(`deed-mir/lower.rs:1792`), and the reuse summaries decide which allocations
the backend omits.  The debug adapter runs the interpreter on a thread of its
own and holds it inside the interpreter's callback.

### Concurrency and failure, in short

Two places run concurrently inside the toolchain: invocations that share the
cache directory, and the debug adapter's two threads.  Two more share state with
a world that does not wait: a command reads each file several times while
somebody writes it, and the language server's messages cross the editor's.
Everything else is sequential, and what is hard there is unwinding (the
interpreter, the compiled `with`), state that outlives what it was about (facts,
entry states, summaries, frames, the place of the last thing printed) and
iteration that may stop too soon or not at all (settling, the rounds of the
reuse analysis, the search for inputs).  What is persisted across processes is
the cache, the lock file and the files a command writes.

## 2. The modules

One specification per component, an `MC...` module that gives its constants
values, a `.cfg` per question, and a `...Proofs` module for its theorems.

| module | is | composed with |
|---|---|---|
| `FetchCache` | several invocations over one cache directory | refines `ContentStore` |
| `ContentStore` | what a content-addressed store promises, without files | instance in `FetchCache` |
| `DebugSession` | session thread and program threads over two channels, and a client | |
| `Interp` | the interpreter's control, with the effect checker's rules as its environment | |
| `ReuseSummaries` | the analysis, followed by a run of the program it analysed | |
| `Facts` | the checker walking a body, beside the stores its runs can have | |
| `SourceSet` | what texts that are compiled together see of each other, as functions | used by the next two |
| `LockedBuild` | one command after another over a tree others write in | extends `SourceSet` |
| `EditorSessions` | editor, server, disk and two streams | extends `SourceSet` |
| `HandlerScopes` | what `with` means, without memory | instance in `CompiledScopes` |
| `CompiledScopes` | the emitted code over the frame stack | refines `HandlerScopes` |
| `PushWalks` | the rule for pushing in place, the emitted walk and the fold it means | |
| `Types` | what agrees with what, and what a type parameter stands for | extended by the next four |
| `Evaluation` | the interpreter, over values | extends `Types` |
| `Checking` | the type checker: verdict, obligations, recorded types | extends `Evaluation` |
| `Lowering` | trees into instructions over layouts | extends `Checking` |
| `CompiledCode` | the validator and the engine over instructions | extends `Lowering` |
| `TypedPrograms` | one function through all of them | extends `CompiledCode` |
| `Grammar`, `Declarations` | the parser | extended by `Rendering` |
| `Rendering`, `Formatting` | the printer; a file formatted again and again | parser and printer composed |

### FetchCache

A payload is its bytes; one that hashes to `h` is named `h`.  A file is the set
of pieces written, so truncation and short writes are incomplete sets; names
(`{hash}`, `{hash}.tmp`) point at files, so a rename of a file another
invocation is writing is expressible, which is where the hazard is.

| action | code |
|---|---|
| `Lookup`, `Fetch`, `FetchFails`, `Verify` | `deed-cli/main.rs` retrieve, `deed-fetch/lib.rs`, `verify.rs` |
| `OpenTmp`, `WritePiece`, `Rename` | `cache.rs` insert: `fs::write` (create or truncate, then write) and `fs::rename` |
| `Compile` | the later read of the returned path by the compiler (`main.rs`) |
| `InsertFails` | the two `?` of insert: a refused open, a write that stops half way, a rename that finds nothing or is refused |
| `Crash`, `Again` | a killed process, and running the command again |

`ContentStore` has an entry appear whole in one step; `ImplementsStore` is
`FetchCache`'s `SpecAlone` under the mapping at the end of the module.

### DebugSession

`at` is where the session thread is (reading a request, waiting for an event in
`pump`, joining a program, leaving); `pc[p]` is where program `p`'s thread is;
`events[p]` and `commands[p]` are the two channels.  Requests are the handlers
of `session.rs`; `Enter` and `Advance` are `Stepper::at` deciding to stop or go
on; `Answered` and `Released` are the program's `recv` returning a command or
finding the channel closed.  The program is abstract: each statement may write
a line and the next one is anywhere.  `want` and `ask` are the client's own
record of what it asked, against which stops are judged.

### Interp

`stack` is the interpreter's recursion: one activation per call, closure,
`with`, `finally` and `assert refuses`, each with the sizes of the
interpreter's stacks when it began.  The other variables are the fields of
`Interp` under their own names (`frames`, `rows`, `handlers`, `inside_handler`,
`olds`, `entry_states`, `in_contract`, `entry`) and `signal`, the `Signal` being
propagated.  The Deed program is the environment: at each step the running code
does anything that `deed-effects/check.rs` accepts there, over the functions,
handlers and rows the configuration declares.  Each `?` of the Rust code is the
action of the activation that sees the signal.

### ReuseSummaries

Functions are instruction lists over slots; what a slot holds is the set of
parameters whose storage it reaches.  `WalkFunction` and `EndRound` are the
rounds of `summarise` as written: a function walked early in a round is seen by
those walked later.  When they end, `Start` runs any function of the program,
loops taking any number of turns, and the answers are held against the run.

### Facts

One behaviour is the checker walking one body.  `facts` is `Checker.facts`
(ranges of names and lengths, differences of pairs, totals of pairs), `queue`
the readings of the condition just met, `settle` the round of `Facts::settle`
under way with the entries it began with, `order` the order the hash map lists
them in, `frames` the branches and walks open with the facts put aside.
`reach` is the set of stores a run can have at that point; nothing the checker
does reads it.  A branch takes the runs that find its condition true and its
end takes back the others; a run stops at overflow and at a value outside a
declared type.

| action | code |
|---|---|
| `Where`, `Let`, `Assign`, `If`, `Leave`, `Else`, `EndElse`, `EndLone` | `check.rs` 2723-3110 |
| `Walk`, `Enter`, `EndWalk` | `check.rs` 3268-3368 (index, `keep`, join) |
| `Narrow`, `Settle`, `EndRound` | `facts.rs` `apply_narrowing`, `settle`, `settle_once` |

Expressions are a name, a length, a field of a refined type or a literal, each
times a constant, alone or added or subtracted; conditions are one comparison
or two joined by `and` or `or`.  A name bound in a branch stays readable after
it in the model: more programs than resolve, all held to the same properties.

### SourceSet, LockedBuild

A text is what the resolver tells apart: the module it says it is, its imports,
its declarations and the names its bodies mention; a digest is the text it is
of.  `Clean` and its parts are resolution over a set of texts, with what ships
in the compiler added where nobody claims the path.

`Command` is `run_check` step by step: `Ask` and `Join` are the queue of
`resolve_inputs`, with roots and component roots added as manifests are met
(`Additions`); `ReadLock` and `Verify`, one lock entry at a time; `Read` and
`Check`, which read every file again; `Record`, `OpenLock` and `WriteLock`, the
truncation apart from the write.  `WriteFile` and `WriteManifest` are
everybody else, `Die` ends a command anywhere.

`OwnCopyWins` asks that every root that has a file at the module's path has that
module there.  It is not enough that the first of the roots known before the
search has: a root met on the way comes before the component roots, and its file
at that path, if it says it is another module, is the one that is read.

### EditorSessions

The editor's actions (`Open`, `Type`, `Close`, `AskRename`, `ApplyRename`,
`Draw`, ...) put messages on one stream and take them from the other; each
`Handle...` action is one turn of `serve`: the message's effect on the documents,
then the diagnostics of the whole set.  Assumed of the editor: one buffer for
each file, whichever spelling it was opened under, and a rename's edits are
dropped when its text was typed in since they were asked for.

What the server says of the texts is in `SourceSet`: imports, names in scope,
members of effects, `deprecated old -> new` lines (two names looked up, neither
of them a place a rename edits), and the prelude's effects and their operations,
`Provided`, which every text sees unless it gives the effect's name to something
of its own.  `FirstNamed` is the first entry of a text's table under a name; the
prelude's come before all others.

### HandlerScopes, CompiledScopes

`todo` is what the program is in the middle of, innermost last, in both: for
`CompiledScopes` with the locals the emitted code will still read (the mark, the
saved frame, the frame found before the arguments).  Memory is words, the frame
`[next][effect][state][code...]` is laid out as `layout.rs` has it, and the
refinement mapping reads the installed handlers off the chain of frames.  What
the program does next is free.  `ReturnsInside` and `AsksAnywhere` switch on the
two program forms the code gets wrong (section 5).

### PushWalks

A body is an expression over lists; `InPlace` and what it is built from are the
rule of `shape.rs`, applied to the source of the body as it is there;
`AppendsInPlace`, `HelperAppends` and `CompiledEnv` are what `lower.rs` makes of
it, including that functions first met inside it are lowered with its
accumulator in force, and `Run` executes the result.  `heap`
is words and a bump pointer with the real push, grow and reserve; `meant` is
what the fold carries.  The entries of a literal without a value, as in
`Holder { out }`, are kinds of their own (`shorthand`, `shorthandField`): the run
reads the name there, and the rule that counts mentions does not see it.

### Types, Evaluation, Checking, Lowering, CompiledCode, TypedPrograms

A tree is `[is, name, of, ty]`, and a place in it is the path to it, as spans are
in the code.  `Check` gives a type, whether it was fine, what it owes (a
refinement the run has to check, at the place it is about, inside an `ok` or
not) and the type recorded at each place; a wanted type goes down into
branches, arms, tails and what a walk starts with, and everything else is
inferred and compared.  `Eval` is `eval`, with the guards it was handed.
`Lower` is `expr` of the lowering: layouts and generic copies are made for the
types the checker recorded, and where it recorded half of one, from the
surroundings.  `Validates` keeps the validator's stack of widths and `Run` the
engine's of words; a block of memory is the sequence of its words.

| action of `TypedPrograms` | code |
|---|---|
| `CheckProgram` | `check_fn_against` on the function, the ones it calls and each refinement's condition |
| `Build` | `lower`, the copies asked for, and `validate` |
| `Ask` | somebody calls the function |
| `Interpret`, `Execute` | `call` of the interpreter, with the guards the checker left; the engine on the module |

Two things are declared in the instance and not built: programs whose verdict
rests on intervals (a refinement is decided for a literal alone; `Facts` has the
rest, and what it proves a run would have passed) and the host.  `AnswersAWalk`
names the one form of which `AnswersAreOfTheirType` says less (section 5).  The
functions of `MCTypedPrograms` leave out what the divergences of section 5 are
about: operands of `&&` and `||` on the right that fail or note something,
fields and payloads of type `Unit` with an effect, literals that name a refined
field without a value, refined errors, patterns of another type, an `if` without
`else` or a walk without `with` in tail position, two uses of one generic choice
at different types, an `if` whose first branch has no tail.

### Grammar, Declarations, Rendering, Formatting

A text is a sequence of words, comments and line ends; a tree is what the parser
keeps, with places.  `Parsed` is the recursive descent (expression, list, block);
`mode` is the parser's `struct_lit`, saved and put back as the arguments of the
recursion are.  `Render` is `expr` of the printer with its buffers; `s` is the
printer's `next` comment and `last_end`, threaded in the order the code renders
(bottom up, so a comment taken too early is seen).  The width of a line counts
words instead of columns.  `Formatting` formats a file twice: `Fmt` is
`format`, including that a file with an error is left alone.

Left out: what a broken file is read as, types with arguments, patterns, type
and row parameters, strings, operator bindings, editions.

## 3. The runs

| run | asks | bounds, and why they are enough |
|---|---|---|
| `cache_concurrent` | is anything unverified ever stored, and is a short entry always explained? | two invocations, two hashes, one payload that matches neither, four files, two pieces a file, symmetric; two writers of one name with kills and failed writes need four files, and a torn entry needs one piece written and one not |
| `locked_build` | does a locked command compile what was recorded, does a lock list what compiled, does the search end and prefer the own copy? | three roots (the program's, a component's, and one only the component names), six modules of which two ship, two commands, two writes by others anywhere, a death anywhere; each hazard needs one write between two reads of one file, and the second write tells verified from compiled |
| `debug_client` | everything about one program and any requests in any order; answers, under fairness | one file, two lines, depth 3 (so "over" and "out" differ from "in" both ways), three statements, any way of leaving |
| `reuse_programs` | are the rounds over when nothing moves, and is the result true of every run? | 10,000 pairs of functions of two instructions, all folds of a few shapes, crossed parameters; two functions suffice for recursion through another, two parameters for crossing |
| `interp_control` | how anything can end: value, return, contract failure, assertion, abandon, too deep; do accepted programs keep their rows and find their handlers? | two handlers with cleanup, one needing the other, in either order, three functions, one closure, nesting 4: a `with` in a call in a `with`, and its cleanup |
| `facts_sound` | is what the checker knows true of every run, and every verdict? | three statements, nesting 2, values -2..2 with integers -16..15, five names, seven conditions, two opposite hash orders; the distance between the values and the width keeps runs from overflowing in every expression while ranges still saturate |
| `compiled_scopes` | is the emitted code what `with` means? | a handler with state, one with two operations and none, an effect of the host's; five things under way; a frame stack where two frames fit and a third does not, so running out happens with both kinds |
| `compiled_early_return` | (violation) "`with` installs a handler for exactly its block" | the same, with `return` inside a `with` |
| `push_walks` | is a walk that writes in place the fold it says? | every list of three bits and the empty one; every body that is one list, two in the arms of an `if`, or either after keeping a list, and records of two lists, with and without `while` |
| `editor_session` | is what is drawn current, is nothing edited after `shutdown`, does a rename break nothing? | two files, one under two spellings, one edit each way, two messages in flight, a shipped module that imports another, a mention of `Io.read`, an own operation of that name, a `deprecated` line |
| `typed_programs` | does what the checker accepts run, answer what it declares, build to code that validates, and mean the same compiled? | 2,900 functions: every expression two operations deep over a refinement, a record, a choice, a generic choice, lists and results; every one an operation deep bound to a name that is then matched, walked, tested, passed on or propagated, for each type it might be declared to answer; early returns and annotated bindings; three rows of arguments with values in and out of the refinement, empty and longer lists, both cases of each choice |
| `formatting` | does a formatted file mean the same, keep its comments, and stay? | expressions nested three deep in every place of each other, written with all parentheses; bodies of two statements and a file with each declaration with four kinds of gap between any two words; a line of 12 words, so each list and signature is met both fitting and broken |

What they show.  The properties of the passing runs, each with a mutant of the
code that breaks it:

* cache: `OnlyVerifiedBytes`, `ShortEntriesAreOwed` under any interleaving
  (`ImplementsStore`, when invocations do not overlap, is proved);
* locked builds: `OwnCopyWins`, `LockListsTheBuild`, `LockedBuildRepeats`,
  `SearchEnds`;
* debug adapter: `StopIsWhereItIsHeld`, `NobodyWaitsForNobody`,
  `OutputReportedOnce`, `StopsExactlyWhereAsked`, `DisconnectLeavesNothing`,
  `EveryRequestIsAnswered`;
* interpreter: `Balanced`, `OwnState`, `LeavesAsFound`, `CleanupOnce`,
  `OriginalFailureKept`, `RowsAreKept`, `EffectsAreAnswered`;
* reuse: `SummariesAreSound`, `QuietIsConverged`;
* facts: `FactsHold`, `ProvenIsTrue`;
* compiled handlers: `FramesAreTheOpenBlocks`, `RoomIsGivenBack`,
  `ImplementsScopes`;
* compiled walks: `WalkIsAFold`, `HeldListsStay`, `PushesStayInRoom`;
* editor: `DocumentsFollow`, `SquigglesAreCurrent`, `NoEditAfterShutdown`,
  `RenameBreaksNothing`;
* typed programs: `AcceptedProgramsRun`, `AnswersAreOfTheirType`,
  `WhatIsBuiltValidates`, `EnginesAgree`;
* formatter: `MeaningKept`, `CommentsKept`, `FormattedStays`.

Each component's `TypeOK` documents its state; those of `FetchCache`, `Interp`,
`LockedBuild` and `CompiledScopes` are proved.  What the instances leave out because the code is known to
get it wrong there is stated where it is left out: the constants
`ReturnsInside`, `AsksAnywhere`, `HelperLocals`, `Forms` and `Restarts`, the
names a rename may ask for (`OwnNames`: of operations only one the prelude has
too, for which nothing is edited; no name of the prelude's own, of a shipped
module or on a `deprecated` line), the field of another entry behind
`Holder { out }` in `MCPushWalks`, `Safe` and `AboveTheArms` in `MCFormatting`, and the folds of `MCReuseSummaries`, which start
from what they hold.
Section 5 has what happens otherwise.

Deadlock is not checked where the system may stop: a build that ended, a
session that exited, a program that returned or trapped, a body checked to its
end, a command that is done, a file formatted twice.

**Fairness.**  `DebugSession`: weak fairness of each program thread's step and
of the session's own waiting steps (`HearStopped`, `HearEnded`, `Joined`).  Both
are ordinary threads that block only on the two channels, so the operating
system runs each that can run.  Nothing is assumed of the client, and nothing
obliges a program to stop early: that its statements end is the bound
`MaxStatements`, without which a program that never stops is simply never
reported.  `LockedBuild`: weak fairness of the command, a process that waits for
nothing.

## 4. What is proved

All for every value of the constants, under the named assumptions of the
modules: `CacheAssumption`, `FilesAssumption`, `BoundsAssumption`,
`ClientAssumption`, `ProgramAssumption`, `SlotsAssumption`, `ProgramsAssumption`,
`ShippedAssumption`, `PlacesAssumption`, `TextsAssumption`,
`ManifestsAssumption`, `LimitsAssumption`, `WidthAssumption` and
`RefinedAssumption` say what kind of thing each constant
is; `HandlersAssumption` also that the addresses of code tell handlers apart,
`NamesAssumption` that a name is of one kind, and `LayoutAssumption` that the frame stack begins above address 0, which marks the
end of the chain of frames.

* `FetchCacheProofs`: `TypeCorrect`, `VerifiedOnly`, `ShortMeansOwed`,
  `AloneIsAStore`.  The
  invariant `Inv` adds to the properties that a build about to insert holds the
  bytes its manifest pinned, that the path it was given exists, that a file has
  one name at a time, that whoever writes a named file writes for the hash of
  that name, and that pieces missing from a *named* file (temporary or final)
  are owed or torn (its write was cut short, by a kill or by an error).  `ShortEntriesAreOwed` alone is not inductive: a rename turns a
  short temporary file into a short entry.
  `AloneIsAStore` is the refinement of `ContentStore`.  Its invariant `InvAlone`
  adds that a write under way has put down exactly the pieces before its offset,
  in the file the temporary name stands for, and that every entry is whole; from
  them, only a completed rename changes what the store holds.
* `DebugSessionProofs`: `StopIsTrue`, `NoDeadlock`, `DisconnectWaits`.  The
  invariant says where the one message of the two channels is: with the client,
  on its way to the program, with the program, or on its way back (`Turn`,
  `Exchange`).  `DisconnectWaits` adds `Kept`, that programs other than the
  session's are over, and assumes a client that configures once
  (`Restarts = "never"`): with two starts it is false (known divergences).
  `StopsAsAsked` states `StopsExactlyWhereAsked` where every file is spelled in one
  way (`OneSpelling`; with two it is false, section 5): each of the places the
  program was told of is remembered by the session under the same file
  (`Remembers`), the stepper has what it was last instructed (`Instructed`), and a
  stop counts as asked only at such a place or after a step (`Counted`).
  `OutputComesOnce`, again for a client that configures once, adds `Told`: what has
  been reported, followed by what is on its way, is what the program has printed.
* `InterpProofs`: `TypeCorrect`, `AlwaysBalanced`, `Restored`.  `LeavesAsFound`
  compares an activation's end with its beginning, so the invariant relates
  every activation on the stack with the one above it: `Balanced`, with
  `TypeOK`.
  `OwnStateHolds`, `CleanedUpOnce`, `FirstFailureWins`,
  `RowsKept`, `EffectsAnswered`, with no hypothesis on the program.  Each is about
  what an activation finds when those above it are gone, so the invariant `EInv`
  speaks of every level of the stack: what was there when the next activation
  began (`SizesAt`) only grows upwards (`Nested`), and at each level the instance
  that code runs for is its own (`OwnLevel`), the handlers still to be cleaned up
  are the ones installed (`CleanLevel`), every effect the code may perform is in
  its row or discharged by a handler between the row's mark and the level
  (`PaidLevel`, `AnsweredLevel`), and the failure that ended a body is the one that
  is kept (`KeptLevel`).  The row properties leave out a `with` that has installed
  only part of its handlers (`PartlyInstalled`), where the checker's rules are not
  sound (section 5).  `EInv` was model-checked over the 2.35 million states of
  `interp_control` before it was proved.
* `CompiledScopesProofs`: `TypeCorrect`, `WalkMeetsTheOpenBlocks`, `RoomComesBack`,
  `NothingStale` and the refinement, `CompiledCodeMeansWith`, for code without the
  two forms it gets wrong (`~ReturnsInside`, `~AsksAnywhere`: with either, the
  properties are false, which `compiled_early_return` shows of the first).  The
  invariant says of every item of `todo` what memory holds for it: a block's frame
  is laid out as `Install` lays it and linked to the next open block's below it
  (`Laid`, `Linked`), whatever is open begins where what is under it ends
  (`Above`), a perform that is working out its arguments holds the frame that
  answers it (`Answerer`), and an operation the cell of an open handler
  (`GoodOperation`).  `FramesAreTheOpenBlocks` alone says nothing of a frame once
  it is found, and `RoomIsGivenBack` nothing of what is below the top.  The walk
  from `HANDLERS` is a function defined along the chain, so what it meets is
  shown by taking the least frame of which it would be false.  For the refinement,
  each step is mapped from the mapped parts of `todo` below and above the place it
  changes (`Moves`, `MapsTo`).
* `LockedBuildProofs`: `TypeCorrect`, `OwnCopyStands`, `LockLists`, `LockedRepeats`,
  for any tree, manifests and texts, any number of commands and of writes by
  others.  Five parts: `Typed`; `Locks`, that the lock being written, or the
  one there is, lists the build it came from; `Compiles`, that as long as nobody wrote since
  reading began, what was read, and then recorded, is what there is; `Verifies`, that entries verified so
  far hold, so that a whole lock that holds makes the tree the build it lists;
  and `Searches`, that each module a text asks for is found, still wanted, or
  hopeless: nowhere under the roots the search began with, or in a file that is
  another module.  `OwnCopyWins` is about a search that is over; while it runs
  only `Searches` says what is not forgotten.  The five parts were model-checked
  over the 420,000 states of `locked_build` first.
* `FactsProofs`: `TypeCorrect`, `FactsAreTrue`, `VerdictsAreTrue`, for any names,
  expressions, conditions, refinements, nesting, number of statements and order
  of the hash map, under two hypotheses.  `Forms = {}` leaves out the two forms of
  section 5 of which the properties are false.  `Roomy` says that no expression of
  the program, whatever values its names have, nor the distance of two sides it
  compares, leaves the width of an integer: the code clamps the offset and the counts of a linear form (`Linear::add`), and an offset that
  was clamped is a wrong number for a run whose sum was not (section 5).
  `facts_sound` satisfies both (`MCRoomy`), with ranges that do saturate.  Most of
  it is lemmas on operators, each saying that what a range admits is kept: of
  ranges (`MeetIs`, `JoinIs`, `AddIs`, `SpreadIs`, `TimesIs`, `DividedIs`), of linear
  forms (`LinearMeans`, `FormMeans`: the value of an expression is its counts times
  a store, plus something in its offset), of what is read from facts (`RangeOfIs`,
  `CompareIs`, `HoldsIs`) and of what is written to them (`ReadIs`, `TaskIs`, `SetIs`,
  `JoinFactsIs`).  `FactsHold` is not inductive: the invariant `FactsInv` adds that
  names not bound yet are unknown and zero, that every reading still in the
  queue, and every difference a round of settling began with, holds of all
  stores in hand, those waiting for a walk to be entered among them, and that
  the facts put aside in each frame hold of those who skipped the branch and,
  where they come back as they were, of everyone inside (`PutBack`).  It was
  model-checked over the 101,780 states of `facts_sound` first.
* `EditorSessionProofs`: `DocumentsAlwaysFollow`, `NothingAfterShutdown`, for
  streams of any length.  For the first the invariant says that the server's
  documents are what the editor's buffers were before the changes still in the
  stream, read in order.  For the second, that `shutdown` is asked once and
  its answer comes behind every edit the editor has not read.
  `NothingDrawnIsStale` states `SquigglesAreCurrent`, for texts none of which is the
  mark of a closed document (`TextsAreTexts`): what is open has a text (`Texted`), and
  the diagnostics under way to a document, read in order after those drawn, end
  with what the last check said (`Drawing`).
  `RenamesBreakNothing` states `RenameBreaksNothing`, in two halves.  The first is
  about texts alone (`CleanStays`): if no text has the new name, and the edits replace
  one name where it is declared and where it is imported, each text means what it
  did with the name replaced (`Turned`), so that what the resolver says of it is as
  empty after as before, and each module path is still claimed by one text.  The
  second is about the streams: `Renaming` says that at most one rename is asked or
  answered at a time (`Lone`), that if nothing was typed since it was asked then no
  change of a document is behind it (`Behind`), and that its answer is the
  edits of what the editor shows now, `roots` and files included.  The hypotheses are
  `OwnNamesOnly` (no operation of an effect and no name the prelude gives to one of
  its own, section 5, and no import of what ships, whose text cannot be edited),
  `Distinct` marks, `PlainTexts` and `MaxRenames <= 1`:
  the new name is one constant, and new once (`Unspent`).  `FreshNamesBreakNothing` has
  neither of the last two, and asks instead that the texts in view are `Plain` when
  the edits are applied.  `Plain` also asks that no effect has an operation named as
  an item of its text, of which the search would find the first (`server.rs:985`),
  and that no `deprecated` line says a name asked for, since it would go on saying
  the old one (`resolver.rs:1018`).  That a new name takes no name in scope
  (`ScopeKept`) is what keeps the prelude's effects visible where they were.
* `ReuseProofs`: `QuietIsEnough`, `AnswersHold`, `AnswersHoldWithoutLoops`.  Within a
  round answers change as functions are walked, so the first's invariant says that
  if nothing has moved so far, the answers are still those the round began with,
  for every program.  The other two are about what the answers mean: when the
  rounds have ended with nothing moved, no run of a function keeps, or returns, the
  storage of an argument that its answer said it leaves alone (`SummariesAreSound`).
  `WellFormed` asks of the program only that a call passes as many arguments as
  the function has and names functions and slots that exist.  `Settles` asks that the
  rounds ended quiet and that each loop's body, walked a second time, adds nothing
  (`LoopSettles`): the code walks it twice and takes that to be enough, which is
  exactly what the proof needs of it.  Every one of the 36 programs with a loop in
  `reuse_programs` satisfies it; without loops it is empty.  A fixed point leaves
  a certificate (`Table`, `Certifies`): for each place of each function, a row of
  what each slot may hold there, a loop's row joining both turns of the walk
  (`LoopRow`).  The invariant says that each active call's slots stay within the row
  of the place it has come to, in terms of what its caller handed it (`Sound`,
  `Traced`, `Good`).

What stays with TLC: liveness (`EveryRequestIsAnswered`, `SearchEnds`), and what
goes through a recursion over data, for which no induction theorem here can be
instantiated: the parser, the printer and the typed programs, recursive over
trees, and `PushWalks`, recursive over lists.

## 5. Where code and words differ

Kept as a run: `compiled_early_return` (see `findings` in `PROJECT.json`).

Known divergences that the models showed when the form was let in, or that
reading for them did:

* *Cache.*  "A partial write never leaves a corrupt entry under its final name"
  (`deed-fetch/cache.rs:22`) does not hold of two overlapping inserts that share
  the temporary name.  "A concurrent call for the same hash is harmless"
  (`deed-fetch/cache.rs:69`): the second of two renames finds the temporary file
  gone and the build whose bytes were verified is turned away.  A write that
  fails half way (`cache.rs:76`, a full disk), or whose process is killed, while
  the other insert renames the name they share, leaves a short entry for good:
  `torn` in the model, and every later read of it is turned away by its hash.
* *Debug adapter.*  When the stream closes without a disconnect the loop of
  `lib.rs:72` ends and the process exits with a program still held, though
  `stepper.rs:213` lets a program whose channel is gone run to its end.  A second
  configurationDone replaces a program that is still held (`session.rs:221`),
  which `running.rs:71` expects never to be left, and reports lines counted
  from the first program's.  Two spellings of one path are
  kept as two entries by the session (`session.rs:415`), of which the stepper
  keeps the last (`stepper.rs:232`).
* *Reuse.*  A fold over a list that may be empty answers with its start, which
  the walk of its body alone does not see (`reuse.rs:248`).  The bound on the rounds is the number of functions
  (`reuse.rs:143`); a function that rotates three parameters through itself
  needs one more, so `reuse.rs:87` and `138` say more than is true.
* *Interpreter.*  An initialiser of a second handler is run with the first
  already installed, under a row that does not admit its effect
  (`interp.rs:1666`).  `return` in a closure leaves the closure (`interp.rs:2696`)
  where `src/design/02-syntax.md:1498` has it leave the function.  A cleanup
  that fails with a contract after a `return` is lost (`interp.rs:3382`, `3330`).
  `unchanged` in a `where` clause reads the last captured call, another one's
  (`interp.rs:1652`).
* *Facts.*  The index of a walk is bounded by the length before the facts are
  put aside, so past a walk that took no turn the list is "proven" not to be
  empty (`check.rs:3275-3325`, against its comment at 3322).  A fact about state
  a branch assigns is put back when the branch ends (`check.rs:2965`).  Both
  refute `ProvenIsTrue` in three statements when `Forms` lets them in.  The body of a walk is checked once, so state it assigns is stale
  on the second turn; the facts of a closure's body, of an `assert refuses`
  block and of a handler's last operation leak into what is checked next; the
  least and the greatest integer stand for "unbounded" and are then negated,
  shifted and summed as numbers (`facts.rs:569`, `599`).
* *Compiled backend.*  The lowering of an installation has no `finally` block
  (`deed-mir/lower.rs:2812`), which `src/design/06-grammar.md:225` promises, and
  `abandon` ends the program.  `&&` and `||` evaluate both sides
  (`lower.rs:2328-2373`, `compile.rs:1787`) where `src/design/02-syntax.md:107`
  and `interp.rs:1853` do not; a walk's `while` clause is joined to the end of
  the list by the same operator and is evaluated once more after the last element
  (`lower.rs:3697`).  Operators lowered with their sides swapped evaluate the
  right one first (`lower.rs:2350`).  A `perform` that nobody answers traps
  before its arguments are evaluated.  A function that performs an operation of
  the host's returns the host's answer there and then (`compile.rs:820`, against
  1531): with `AsksAnywhere`, `ImplementsScopes` fails.  A function first met
  inside the body of an in-place walk is lowered with that walk's accumulator in
  force (`lower.rs:2568`, `deed-mir/lib.rs:642`), so a push onto its own local of
  that number writes in place: with `HelperLocals` holding `Carried`,
  `HeldListsStay` fails.  A shorthand `Holder { out }` is a mention the rule does
  not count (`shape.rs:374-379`, read by `lower.rs:2665`; against "the only places
  the field is read, so nothing else holds it", `shape.rs:119-128`): a list held by
  another entry through it changes when it is pushed onto in place, and with
  `Holder { out }.out.a` under the entry `b` let in, `WalkIsAFold` fails.  The bump
  pointer is a 32-bit signed word and past two
  gigabytes negative (`runtime.rs:313`).
* *Types and what is built from them.*  A walk in tail position answers what it
  started with: the type its function declares is not asked of it, so a refined
  one goes unchecked (`deed-typeck/check.rs:3230-3381`, against
  `src/design/02-syntax.md:92` and 1004).  A tail that is an `if` without `else`
  or a walk without `with` is `()` whatever was declared, and the arms of a
  `match` are not settled against each other as the branches of an `if` are.  A
  field named without a value, and a variable whose error type is refined, owe a
  check at a place no engine looks at.  A `match` on numbers, truths, texts or a
  record needs no arm for the rest (`check.rs:4800`); a pattern of another type
  is taken.  A pattern inside a pattern is tested at its head alone
  (`interp.rs:3528`), and not lowered (`lower.rs:3408`).  `let ok(n) = f()` is
  accepted, where `lower.rs:2013` has the checker refuse it.  Fields of a literal
  are evaluated as declared when compiled (`lower.rs:2644`) and as written when
  interpreted (`interp.rs:3179`); a field, an element or a payload of type `Unit`
  is not evaluated at all (`compile.rs:1282`).  An `if` whose first branch ends
  in `return` and whose second has a value is lowered as a statement, and the
  module does not validate (`lower.rs:2609`).  A `Result` half of which is known
  takes its other half from the function it stands in (`lower.rs:1848`), and a
  literal of a generic choice the first copy there is (`lower.rs:3884`).  Of two
  obligations at one place the last is kept, where `interp.rs:1372` counts on the
  checker.
* *Lock files and inputs.*  "Verify every input" checks what the lock lists
  (`deed-cli/main.rs:489`): an input the lock does not list, one that shadows a
  shipped module or one of a later root, compiles without a question.  The lock
  is written after compiling, from the files as they then are, and skips those
  that are gone.  A lock cut short at the end of a line verifies.  Modules a
  shipped text imports are not searched for (`shipped.rs:115`).  A component root
  met later is not asked for modules asked for earlier.  A file that says it is
  another module and imports the path it sits at keeps the search going for good
  (`inputs.rs:71`).
* *Editor.*  A rename of an operation of an effect edits the file that declares it
  and none that performs it (`server.rs:977`, against 1058).  Of an item and an
  operation of one name in one text the search takes the first (`server.rs:985`),
  whichever was asked for.  The prelude's come before both (`resolver.rs:262-271`):
  to rename an item or an operation called `read`, `write` or `open` edits the
  mentions of `Io.read` in its file, if there are any, and the `use` lines of
  those who import it, and not its declaration.  `Io` and its operations can be
  asked for, and then only their mentions change.  The names of a
  `deprecated old -> new` line are looked up and not recorded
  (`resolver.rs:1018-1058`), so a rename of either leaves a line that names
  nothing.  With such names in `OwnNames`, `RenameBreaksNothing` fails.
* *Formatter.*  Parentheses that alone made something a literal are dropped: around
  one in the condition of an `if`, a `match`, a `for`, a `with`, a contract clause
  or a refinement (`printer.rs:713-735`, against 793); the body then begins at
  the literal's brace.  So are those of a block that is the first handler of a
  `with`, and those of a unary operator over a closure on the left of an operator.
  `return;` and `assert refuses;` lose their `;` and take the next statement
  with them.  The least integer before a `.` is printed without parentheses and
  does not parse.  `broken` renders elements again whose comments the first
  attempt consumed, so a comment in a closure or a block in a list that does not
  fit is lost (`printer.rs:944`, against `deed-fmt/src/lib.rs:12`).  `match_expr`
  (`printer.rs:825`) takes no note of where its brace was, so a comment above the
  first arm gains a blank line the second time, against the test
  `formatting_is_idempotent` (`deed-fmt/tests/format.rs:378`).  Of two `finally`
  blocks of a handler the first is lost, and what a handler declares is written
  by kind, comments staying where they were.

## 6. Not modelled, and what could follow

* The rest of the type checker (function types, capabilities, effects'
  signatures, contracts), name resolution inside one file, the driver's
  passes, diagnostics, documentation and repairs, component adapters, the
  encoder of WebAssembly: functions from a tree to a table or a
  text, decided case by case.  Nothing of them survives a call and their
  properties are about single cases; a model would be a transliteration.
* Texts' and maps' own operations in either engine, digests, paths and URLs inside a grant: algorithms over characters and
  bits.
* The emitted runtime routines for strings, maps and numbers; closures as
  compiled; growth of memory.
* The language server's requests that only read; the agent tools, which are the
  same lifecycle with less state.
* Random programs and shrinking (`deed-interp/property.rs`).

To follow: `Interp` as another implementation of `HandlerScopes`, which would
first have to say what a failure and a `finally` block do.

## 7. Running it

    tlc -workers 2 -config FactsSound.cfg MCFacts
    tlapm InterpProofs.tla

Every configuration finishes within a few minutes; `interp_control`
(2.4 million states) and `facts_sound` are the longest.
