# mlisp: verification project

TLA+ modules, TLC configurations and TLAPS proofs kept beside `mlisp`, a compiler for a
subset of R7RS Scheme (Rust, LLVM through inkwell) whose runtime has a moving, generational
collector (MMTk StickyImmix). Paths below are relative to the repository root; `llvm.rs` is
`src/backend/llvm.rs`, `mmtk.rs` and `abi.rs` are in `runtime/src/`.

1. [Inventory](#1-inventory) 2. [Modules](#2-modules) 3. [Runs](#3-runs-bounds-fairness)
4. [Proofs](#4-proofs) 5. [Where code and intent differ](#5-where-code-and-intent-differ)
6. [Not modelled](#6-not-modelled) 7. [Plan](#7-plan)

## 1. Inventory

```
 main.rs -> driver.rs --+-- lexer -> parser -> lowering -> llvm.rs        (one worker per input)
                        +-- opt, cargo, clang, the executable             (run only),
                            through the files of build/<module>
 compiled program -> runtime ABI (abi.rs) -> heap, roots, barrier (mmtk.rs) <-> MMTk
                                             threads, gc.state, gc.wake (mmtk.rs) <-> MMTk's worker
```

| part | state | operations | hard because | correct when |
|---|---|---|---|---|
| thread registry and handshake, `mmtk.rs` | `RuntimeState.threads` 148, `gc.state{requested, epoch}` 158, condvar `gc.wake` 155, per thread `active`, `blocked_epoch`, `mutator` 163 | `bind_current_thread` 293, `unbind_thread` 316, `stop_for_gc` 277 (from `gc_poll_current_checked` 362 and `block_for_gc` 740), `stop_all_mutators` 704, `mutators` 667, `resume_mutators` 733 | any number of mutators against the collector; unbind (334-342) changes what the collector's test reads without the mutex; binding never looks at it; raw pointers in the registry | no mutator the collector counted runs, disappears or is skipped before resume; nobody sleeps in a running world; a collection ends |
| heap, roots, barrier, `mmtk.rs` | objects, shadow stack, global roots, log of old objects | `alloc_*_checked` 374-504, `object_write_post_checked` 510, push/pop 621-644, `register_global_root_checked` 646, scanning 762-823, copying 846-875 | every allocation may move every object; a nursery collection sees old-to-young edges through the barrier only | a word the code goes on to use denotes the object it denoted |
| ABI, `abi.rs` | none of its own | `mlisp_alloc_*`, boxes 516-550, closures 553-637, lists 255-358, vectors, strings, predicates, printer 58-253 | loops that allocate over words in Rust locals; accessors of which the `_gc` variants trust a type | the list and vector it promises; no raw accessor on another object |
| printer, `abi.rs` | none | `write_scheme_value` 199, `write_value` 62 and the walks of pairs 161, 180 | one flag through four mutually recursive procedures | what `write` writes is read as what was written |
| tagged values, `value.rs`, `layout.rs`, `object.rs` | none | encode, decode, header | ranges of fixnums: 62 of 63 bits; compiled code encodes without a test | decode inverts encode; no word is of two kinds |
| driver, compile: `driver.rs` | workers, units, output files | `compile_paths` 98, `compile_path` 191 | workers end in any order, fail, panic; writes fail half way; names collide (235) | result and files do not depend on the schedule |
| driver, run: `driver.rs`, `src/backend/pipeline.rs` | `build/<m>/<m>.pre.ll`, `.post.ll`, `.ll` and the executable, which outlive the process; the libraries in `target/debug/deps` | `run_path` 140, `rewrite_statepoints`, `ensure_runtime_staticlib`, `find_static_lib` 371 | files are shared by all runs of one module name, and truncated before they are written; any tool may fail; any process may be killed, and its tool goes on | a run shows its own program, linked with the current runtime |
| lexer, parser | position, tokens; the stack of open forms | `frontend/` | spans, ends of the text, unterminated literals | every character is in a token, a blank or a comment, or there is an error; forms are the tokens |
| lowering, `middle/lowering.rs` | the gensym counter 461 | special forms to a small HIR | order and number of evaluations of a test; temporaries | the meaning is kept |
| code generation, `llvm.rs` | functions, signatures, environments of shapes (`CodegenValue` 69) | `compile_expr` 300, inference 2182-2505, captures 2507-2614, mutation analysis 2852-2959, closures 1900-2054 and 2616-2850, builtins 521-1845 | several walks over the tree that must agree: which variables are boxes, what a closure captures, what kind a parameter or a result has. If two disagree, the code loads through a word that is no pointer | the compiled program computes what the source means |

The list of what is hard to test, at its lines, with the property that watches it, is
`hazards` in `PROJECT.json`.

## 2. Modules

| module | is | of |
|---|---|---|
| `StopTheWorld` | what a handshake promises: members are halted before the world is stopped and leave only when it runs | abstract |
| `StwHandshake` | registry and handshake, under the mutators of `run_mutator_stress_checked` (bind, poll and allocate, unbind), one collector, the joining thread | `mmtk.rs` |
| `StwHandshakeProofs` | its proofs | |
| `MovingHeap` | objects, addresses, roots, barrier log, nursery and full collections | `mmtk.rs`, `object.rs` |
| `HeapClients`, `HeapClientsProofs`, `HeapListsProofs` | the code that allocates: stress worker, `gc_stress`, `append`, `cons`, boxes, and what `compile_vector` emits; the proofs of the heap, and of the lists in it | `mmtk.rs`, `abi.rs`, `llvm.rs` |
| `CompileDriver`, `CompileDriverProofs` | `compile_paths`: workers, joins, failures, files; its proofs | `driver.rs` |
| `RunPipeline`, `RunPipelineProofs` | `run_path` and `gc-pipeline-example`: processes over shared build files; its proofs | `driver.rs`, `pipeline.rs` |
| `TaggedValue`, `TaggedValueProofs` | words as fixnums, characters, constants, references; its proofs | `value.rs`, `layout.rs` |
| `Lexer`, `Parser` | `lex`, one round of its loop a step; `parse`, one token a step | `lexer.rs`, `parser.rs` |
| `FrontEnd`, `FrontEndProofs` | `parse_program`: any text lexed, then parsed; its proofs | `parser.rs`, `lexer.rs` |
| `Printer` | data and the values of quoted data, and `write` on them | `llvm.rs`, `abi.rs` |
| `Reader` | a text is read, written and read again | the five above |
| `Scheme` | programs after parsing and in the HIR, and their meaning in R7RS | `hir.rs`; the reference |
| `Lowering` | `lower_program` | `lowering.rs` |
| `Codegen` | `compile_program`: HIR to code under environments of shapes | `llvm.rs` |
| `CompiledCode` | what that code does | `llvm.rs`, `abi.rs` |
| `CompilePipeline` | a program parsed, lowered, generated, run or rejected | `driver.rs` `compile_path` |
| `MC*` | instances for TLC | |

**StwHandshake.** One action is one critical section, or one access to shared memory outside
any. `stop_for_gc` is `StopForGc` (lock to return, or to the first wait) and `WakeInStop` (one
turn of its wait loop). `unbind_thread` is four actions (`UnbindDestroy`, `UnbindDeactivate`,
`UnbindRemove`, `UnbindNotify`), since none of them holds `gc.state`. `stop_all_mutators` is
`GcRequest`, `GcCheck` (the test of all threads), `GcWait`, `GcWake`, `GcSnapshot` (the call of
`mutators()`, after `gc.state` was dropped) and one `GcVisit` per mutator. The mutex is not a
variable: the collector is the only one to hold it over two actions, between its test and its
wait, so `GcStateFree` reads it off `gcPc`. `waiters` is the set of sleepers on `gc.wake`;
`SpuriousWake` is what a condition variable may do. `asked` and `GcCollect` are MMTk's.

**MovingHeap, HeapClients.** A collection picks what it traces, gives each survivor a new
address or its old one, and rewrites the slots it was told of; the words in `local` and
`elements` are not among them. One client runs in a behaviour; its `pc` is the allocation,
store or poll it is at. The client `operands` is the code that `compile_vector` emits: it
computes its operands one after the other, each of which may allocate, keeps the words in an
alloca, and pushes no root.

**CompileDriver.** `outcome` is what `compile_path` makes of each input, chosen at the start;
a worker's only step is to end. `WriteFails` leaves no file or a torn one.

**RunPipeline.** A step of a process is one read or one write of a file, its own or of the tool
it waits for; `pc` names it. Every write is two: the file is truncated (`Torn`), then has its
content. `unit` is the IR the process holds, `tool` what its `opt` or `clang` has read. IR is
known by the program it was made of, an executable by that and by the version of the runtime
linked into it. `Fault` is an error of a program, a tool or a disk, and may happen at any step;
`Refuse` is an error the contents of a file make inevitable. `Kill` ends a process anywhere and
leaves the files. `KillAll` ends its tool too; `KillProcess` does not, since the code waits in
`Command::output` and leaves nothing behind that would stop a tool: the tool goes on, reads and
truncates and writes under the next runs, and only when it ends is the run `killed` (`ToolEnds`).
Nothing in the code looks at what an earlier run left, and nothing locks. `started`, `disturbed`,
`faulted` and `orphaned` are history: the runtime at the start of a run, the runs that overlapped
another of their module or the tool of one, those that met a fault, and those whose tool went on.

**Lexer, Parser, FrontEnd, Printer, Reader.** The lexer is the loop of `lex` with one action per arm;
`index`, `literal` (the open string) and the tokens' spans are the code's. The parser's recursion
is a stack of frames, one per `parse_list` or quote in progress, and a step consumes a token.
`FrontEnd` puts the two in a row for one text after another; it holds no recursive definition, so
that it can be proved about. A text is a sequence of `Characters`, those that `CodePoints` gives a
number; that the quote, the backslash, the end of line and the space are among them is the one
assumption on it (`CharactersAssumption`).
`ValueOf` makes of a datum what `compile_quote` makes of it: tagged words for immediates
(`TaggedValue`), objects for the rest, and a refusal where `const_fixnum_checked` has one
(`Representable`). `Printer` follows `write_scheme_value` and the procedures it calls, the flag
`quoted` included. `Reader` reads a text with `FrontEnd`, writes its data, and reads what was written.

**TaggedValue.** The width of a word is the constant `Eighth`, the eighth part of the number of
words (2^61 for the code's 64 bits): a shift is a product or a quotient, a mask a remainder, and
the module can be checked on small words and proved for all.

**The pipeline.** An expression is a record whose `op` names its constructor. `Meaning` is an
evaluator with one location per variable. `Lower` returns the lowered form and the gensym counter.
`Compile` returns `[shape, code]`, the shape being the `CodegenValue` without its LLVM value, or a
rejection: `Try` is Rust's `?`. The code keeps only what the generator decided: which variables
are boxes (`boxed`), captures, direct or indirect calls, the shape an access trusts (`trusted`),
answers known at compile time (`static`). `Exec` runs it; where it trusts a shape that is not
there the result is `Broken`. Two walks of the same tree stay two definitions where the code has
two (`InferKind` and `Compile`; `Mutated` and `FreeVars`). Builtins are one table of arities and a
`Primitive` in the reference; `Codegen` has one arm per `compile_*` of `llvm.rs` that decides
something by shape (`static` answers, trusted accesses, the order of operands), and `CompiledCode`
what the runtime does when the shape is not known.

## 3. Runs, bounds, fairness

| run | instance | asks |
|---|---|---|
| `stw_safety` | 3 mutators, 1 iteration, 2 collections, 1 panic | captives stay blocked, are all scanned, nobody sleeps after resume, no freed context is registered, and `StopTheWorld` is implemented |
| `stw_single` | 1 mutator, 3 iterations, 3 collections | `run_mutator_stress` returns |
| `stw_endless` | 2 mutators that never unbind, 1 collection | the pause ends, parked mutators go on |
| `stw_lost_wakeup`, `stw_stale_epoch` | 2 mutators, 1 or 2 collections | the stress returns: violated, see 5 |
| `heap_clients` | the six clients, 5 addresses, 3 iterations, 4 collections | no dangling field or root, the published list is whole, `append` shares its tail, the shadow stack is balanced, a collection keeps the graph of objects (`CollectionInvisible`) |
| `heap_unrooted` | one collection inside an allocation of the four clients with words in locals | what a call builds refers to what it was given: violated, see 5 |
| `compile_driver` | every list of at most 3 of 4 stems, two of which have one module name, every outcome | order of units, first failure, all or nothing, what a failed write leaves, last of a name, return |
| `run_pipeline` | 2 processes, 2 texts of one file and the example, 2 libraries, 1 edit of the runtime, 1 kill of a process with its tool or without | a run nobody disturbs shows its own program and fails only by a fault of its own; modules do not mix; the runtime linked is current; a run ends |
| `reader` | 26838 texts | tokens cover the text; the parser accepts what is balanced, nothing else, and its forms are the tokens; what is written is read again; reading ends |
| `compile_pipeline` | 8000 programs | lowering and compilation keep the meaning, shapes are true, names are resolved |
| `builtin_hidden` | 3 programs | the meaning is kept where `let` binds the name of a builtin: violated, see 5 |

*Bounds.* Three mutators are one that unbinds, one that parks and one that binds late at once;
two collections are what a stale epoch needs. The bounds on collections (`MaxGcs`,
`MaxCollections`) and panics cap environment actions and cut no behaviour of the code short of
them. `LeftElements` is a list of two, one of which is the right list: the least that has an order. Five
addresses hold it, the right list and the copy, and a worker with one
garbage pair that is being moved; the addresses are symmetric. `Iterations >= 1` because
`driver.rs` 341-342 raises both counts to one. Three inputs are the least with a success
between two failures and a name used twice around another. Two processes are the least that
overlap; two texts of one file are an old and a new version of a program, and the example lies
in another directory. One edit and one library whose name sorts after the current one are what a
stale link needs.

*The texts of `reader`* are put together from pieces (`MCReader`): up to five of parenthesis,
quote, blank, digit, name and string; up to three of these with signs, backslashes, hashes, bare
quotes, character names and comments, whole and broken; up to five of digit and sign; and nested
lists. Of characters that the code treats alike, one or two stand for all. `Eighth` is 111, no
power of two, so that the edge of the fixnums, -111 to 110, lies at a numeral of ones, and the
edge of i64 at a longer one. The run has 409,206 states. Two conditions are limits of the code,
each a hazard: `TakenForAnother` is the unterminated literal after a string token, which
`lexer.rs` 168 takes for that string, so that the rest of the text is lost without an error;
`Plain` are the data `write` writes as they are read: `abi.rs` 110 takes `display_pair` for inner
lists, whatever the flag, so that a string two lists deep loses its quotes, and writes no escapes.

*The condition of `run_pipeline`*, `Alone`, is a limit of the code too: two overlapping runs of
one module name overwrite one another's files, and so does the `opt` or `clang` of a killed run
that still works when the next one starts. The run shows both when the condition is dropped, or
when it looks at processes only. What `Alone` leaves, and the properties are about, is a run that
starts after all of that has ended, wherever it ended. The run has 695,220 states. The condition
of `RuntimeUpToDate` is a limit too: a library left by an earlier build whose name sorts after the
current one is linked instead (`driver.rs` 371).

*The programs of `compile_pipeline`* are the seven families of `MCCompilePipeline`, each the
product of its parts (32,233 states): `Capture` (a variable of `let`, a parameter or `define`,
seen and assigned by a closure and by the code around it), `Shadow` (variables of one name under
`let` and `let*`), `Letrec` (two closures that call one another and share a variable), `Kind`
(uses of a parameter against what is passed for it, through procedures and back), `Derived`
(`and`, `or`, `when`, `unless`, `cond` over operands that display or assign), `Builtin` (1829
programs: every builtin on every kind of operand, its shape known or unknown to the compiler, with
wrong numbers of operands, indices out of range, and stores of one kind over another), `List`
(507: quoted data, `list`, `append` and the list walks, their operands displaying the order they
are computed in). `Depth = 6` bounds calls: a recursion that does not end within it means nothing
in the reference either, and `MeaningKept` is silent about it. `MeaningKept` speaks of programs
that mean something; `ShapesTrue` of all. Kept outside the families, and listed as hazards, are
the known limits: `procedure?` of a procedure that became a word, `eq?` across shapes, of a
procedure without captures, or of symbols (each evaluation of a quoted symbol makes an object,
where the reference knows a symbol by its name), initialisers of `let*` that assign, names of the
form `__and_0`, procedures that refer to top-level variables (rejected by the code). Where the
reference follows the code because R7RS leaves it open or has more than integers: `list` and
`append` compute their operands from the last to the first, a string is indexed by bytes, and a
quotient that is no integer means nothing. Two simplifications: special forms arrive recognised,
so a variable named `if` is not told apart; and a malformed form is one marker, whatever its
defect.

*Deadlock* is not checked where stopping is normal: when every thread is done or parked after
the last allowed collection, at the known hang, at the end of a compilation or a program. The
liveness properties say which stops are right.

*Fairness.* Weak for the steps a mutator takes alone: the operating system runs every thread.
Strong for the steps that lock `gc.state`: a `std::sync::Mutex` is not fair by contract, but the
collector takes it a bounded number of times per collection, so a mutator that keeps trying
gets it. Weak for the collector and for the joining thread. None for a collection request, a
panic or a spurious wake-up; `WakingSpec` of `stw_stale_epoch` adds that every sleeper wakes in
the end, to show that this does not help there. In the driver, weak for the caller and for the
end of each worker, since compiling one input loops over nothing but the input. In
`run_pipeline`, weak for the steps of each process: it waits for its tools and its program, which are
assumed to end or fail; none for a start, a kill or an edit. In `reader`, weak for the one thread.
Safety runs use no fairness.

## 4. Proofs

TLAPS proves for every value of the constants, from the assumptions `NumThreads`, `Iterations`
positive, `Endless` a set of threads, the bounds natural (handshake); inputs being sequences of
sequences of strings, `Torn` no number (driver); `Absent` and `Torn` no programs, the libraries
a finite set of numbers with the current one in it (run pipeline); `Imm` no address, the slots being
those the clients name, `LeftElements` a sequence of the two sorts of elements (heap); `Eighth >= 2`
(words); `CharactersAssumption` (front end).

*Handshake* (`StwHandshakeProofs`). The invariant `IInv` is `TypeOK` with: what each code
position says of registration, activity and the two boxes of a thread (`ContextInv`); an
iteration is left inside the loop (`LoopInv`); the flag is up exactly while the collector is
out of `idle`, and the epoch is then not the 0 of "not blocked" (`RequestInv`); who sleeps is
parked, during a request (`WaitInv`); captives are visited or to be visited (`ScanInv`); and the
safety properties themselves. `CaptivesStayBlocked` is not inductive alone: that a captive
cannot leave needs the flag up (`RequestInv`), that it cannot unbind needs `ContextInv`, and
that the epoch cannot change under it needs the collector to be past its request. One lemma per
conjunct, one step per action. `Refinement` takes every step of the handshake to a step of
`StopTheWorld` or a stutter: clearing `active` is a leave, parking a halt, the test that passes a stop.
`HangsHaveCauses` says why a collector may sleep for ever, for any number of threads, collections and
panics. `Hung` is a collector that waits when no registered mutator is on its way to stop for this
epoch (`Coming`) or to its notify_all (`Leaving`). Then one of two things is so. `NotifyLost`: there
is nobody to wait for any more; only an `UnbindNotify` between the test and the wait brings that
about, and only a spurious wake-up or a thread that binds ends it. Or a mutator `Obstructs`: its
`blocked_epoch` is neither 0 nor this epoch, which only a request does to a mutator that was woken
from the last pause and had not yet taken `gc.state`; or it has panicked. It goes on to obstruct in
every later step, so that pause never ends. These are the two hangs of section 5 and the dead
worker; there is no fourth cause. The invariant behind it, `SleepInv`: the collector is a waiter
in its wait only, and outside `stop_all_mutators` who is parked is parked for the last epoch.
`OkMeansAllLeft`: when
`run_mutator_stress` answers `Ok` the registry is empty and every box is freed, so no worker still
runs on the roots it drops.

*Driver* (`CompileDriverProofs`). `Inv` adds to the properties that files appear only after the
last join (`PhaseInv`) and that the files so far are those of a loop over the units so far
(`FilesInv`), from which `LastOfNameSurvives` follows when the loop is over. `FilesInv` says which
files there are, `WholeInv` that each is whole and that there is no other, until a write fails; so
`FailedWriteStopsThere` holds at the write that does. `DriverEnds` is the
safety half of `Returns`: `Work`, two for a thread not spawned, one for a thread that runs, and what the
caller has to join, write and return, decreases with every step, and until the end the caller has
a step to make or waits for a thread that runs (`NeverStuck`).

*Run pipeline* (`RunPipelineProofs`), for any number of processes, texts and modules. `Exclusive`:
two processes that work on one module, or of which the tool still does, know each other as
disturbed. So one that is not disturbed has the files of its module for itself, and `OwnInv` says,
for each step it may be at, which file or which memory holds what its own program makes; what an
earlier run left is never read, because each file is written before it is read. `ModuleInv` keeps
what lies in a module's directory, and in the hands of its runs, within that module, whoever
disturbs it. `RuntimeInv` adds that, as long as no later-sorting library appears, the current
library is no older than the sources at the start of any run past cargo, and the executable no
older than the library.

*Heap* (`HeapClientsProofs`), for heaps of any size and any number of iterations and collections,
under `AllocCollects` within {`worker`, `cells`}: the clients that hold no word outside a root
over an allocation. What happens to the words of the others is not proved but refuted, by
`heap_unrooted`. `HeapClosed` is not inductive: a nursery collection does not look into old
objects that are not remembered, so it must be known that those refer to old objects only
(`BarrierInv`, what the write barrier owes the collector), and that an object with fields is of a
kind that is scanned (`ScannedInv`). `ControlInv` says which roots are registered at each `pc`,
`LocalsInv` which native locals denote objects at each `pc`, so that what a
client stores of them is no dangling field. One lemma for each thing that
may happen to a heap (`AllocHeapInv`, `WriteHeapInv`, `CollectHeapInv`, `FrameHeapInv`), and one
for each kind of step of a client. `CollectionsInvisible` is stronger than `HeapClosed`: a
reference must not only lead to some object but to the one it led to. `CollectInvisible` names the
origin of each survivor, the inverse of how it was moved. A traced field was updated; a field that
was not lies in an old object that was not logged, by `BarrierInv` it refers to an old object, and
a nursery collection leaves that in its place. The assumption is what `heap_clients` instantiates.

*Lists* (`HeapListsProofs`), on that invariant and under the same assumption. `ListInv` names the
pairs of a worker's shared list in their order, pairwise different, so that a collection which
moves them has to keep each. `ChainKept` is the argument: of the pairs a collection does not keep
take the one nearest to the head (`LeastMember`); the root or the pair before it is kept and
refers to it, so that pair was not traced, and was old and not logged; by `BarrierInv` what it refers
to is old, and a nursery collection keeps what is old. `AppendCopies` is about a
left list of any length (`LeftElements`), whose elements may share the right one. `Copying` follows
the walk and then the copy: the Vec holds the first k elements (`Taken`) and the pairs of the others
are made, end in the right list and lie apart from both arguments (`Copied`). There the
assumption leaves collections out of the allocations of `append`, the case that `heap_unrooted`
refutes.

*Front end* (`FrontEndProofs`), for every text. `TokensCoverText` speaks of a text that is lexed;
what is inductive is `Told`, about the part in front of `Behind`, the position up to which the
lexer has told what it saw, which is `index` or the start of the open string. There tokens are in
order (`InOrder`), each position is in a token, a blank or a comment, and no token lies in a
comment (`Accounted`), and no comment goes on over `Behind` (`CommentsOver`), or the next token
would be in it. `Opened` says that an open string starts at a quotation mark, and `Finished` that
the lexer ends at the end of the text. One lemma adds a token (`TokenAdded`); the arms of `lex`
differ in what they must show of the token's end (`EndOfStops`, `EndOfDigitsStops`). In
`StringNotEnded` the exception `TakenForAnother` is what the proof needs and no more.
`BalancedIsParsed` follows from `Nested`: of the tokens consumed, as many parentheses are open as
the stack has lists, no prefix closes more than it opened, and a quote that is consumed has its
operand behind it or is the innermost frame (`QuoteOnTop`). What the items of a frame are is left
open (`IsStack`), so no induction over data is needed. `ReadingShrinks` is the safety half of
`Ends`: `Work` counts four for a character that is left, two of them for the token that may end with
it, two for a token and one for each open call, and every step takes something of it; that no arm
of `lex` stays where it is is `LexStepTakes`.

*Forms* (`FormsProofs`), on those invariants. `FormsAreTheTokens` looks into the forms to any depth
(`Parts`), but its proof makes no induction over expressions. It names a set `made` of expressions
that holds the tokens and the parts of its members, each of them spelt by its parts (`Closed`), and
for each open call the number `at` of tokens that are taken when it is through with what it has read:
`Placed` says that the forms, what each open call has read, and the expression returned follow one
another in the text, with no token left out, up to the cursor. There is one lemma for each step of
the parser (`AtomPlaced`, `MarkPlaced`, `ListPlaced`, `ItemPlaced`, `QuotePlaced`, `FormPlaced`,
`StartPlaced`), and a step adds at most one expression to `made`, whose parts are there. `Parts` is
a recursive function; that there is one (`PartsExist`), that two agree (`PartsAgree`) and that it
unfolds (`PartsUnfold`) is proved from the least number at which it would fail.

*Words* (`TaggedValueProofs`), for words of any width. Decoding inverts encoding on the fixnums
that `encode_fixnum` takes, and on characters; no word is read as values of two kinds. Compiled
arithmetic encodes with no test: the sum and the difference of two encodable fixnums survive that
(`UncheckedSumExact`), because `encode_fixnum` leaves one bit unused, and a sum of such sums does
not (`UncheckedSumWraps`).

Only model-checked: liveness (beyond TLAPS with ENABLED; the measures above are what can be proved
of it); that what is written is read (`WrittenIsRead`); and the pipeline. The last two are about
definitions that are recursive over data and syntax trees. A proof would be an induction over data,
which the available provers do not support, so those modules use RECURSIVE operators and hold no
theorem. The other properties of the run `reader` are proved of `FrontEnd`, and so of the texts that
`Reader` reads with it.

## 5. Where code and intent differ

- **Lost wake-up** (`stw_lost_wakeup`). `unbind_thread` clears `active`, leaves the registry and
  notifies without `gc.state`. Between the collector's test (`mmtk.rs` 715) and its wait (723)
  the notify reaches nobody; the collector sleeps for ever, and so do the mutators it stopped.
- **Stale epoch** (`stw_stale_epoch`). A parked mutator publishes its epoch once (`mmtk.rs` 287).
  If it sleeps through a resume and the next request, it waits on with the old epoch, and the
  collector's test (718) never accepts it.
- **Words in locals** (`heap_unrooted`). Any allocation may collect, and a collection moves what
  only a native local refers to. Four places keep words in locals over one: `alloc_pair_checked`
  (`mmtk.rs` 400: `car` and `cdr`), `gc_stress_checked` (602: the string and the vector),
  `append_two_lists` (`abi.rs` 355: the elements and the result so far) and the code that
  `compile_vector` emits (`llvm.rs` 1507: the operands computed so far, in an alloca). What is built
  then holds an address that is gone or is another object's: `BuiltAsGiven` fails. The run has all
  four as clients and TLC shows one of the shortest behaviours; with `Clients` and `AllocCollects`
  reduced to any one of the four it fails as well, and with no collection in an allocation it holds
  for all. The intent is in the tests, which expect of a pair over a pair that its tail is the one
  it was given (`abi.rs` 1045) and of `append` that its result has three elements (1124). That
  locals must live in a root-visible place to survive an allocation stands in `docs/runtime.md` 87,
  under what is planned. `heap_clients` lets collections into allocations only for the clients that
  keep roots (`AllocCollects`), and at polls for all.
- **Builtins are not shadowed** (`builtin_hidden`). `compile_call` (`llvm.rs` 431) asks
  `is_builtin` before it looks at the environment, where the README promises local lexical
  bindings.

Each of the first two is excluded from the passing liveness runs by their instance (one mutator;
mutators that stay bound and one collection), never by an added guard. A third hang is in the model
but contradicts no stated intent: a worker that panics stays registered, and the next collection
waits for it (`HangsHaveCauses`); the liveness runs have no panic.

## 6. Not modelled

- MMTk, LLVM, `opt`, `clang` and `cargo`, beyond what they may do to this code; the command line,
  a function of the arguments; the declarations of `src/backend/runtime.rs` and the fixed example of
  `statepoint.rs`, which have no state.
- The layout of objects: sizes, header words and the mark bits in them, whose use is MMTk's.
- `display`, improper lists, vectors, boxes and closures in `Printer`: no quoted datum of the
  reader makes one. In the pipeline, `display` and `write` put the
  structure of the value in the output, not its text.
- Texts that are not ASCII: characters are abstract, their bytes are not modelled.
- The stack of the recursive passes and of the printer.
- Compiled code as a client of the collector beyond `operands`: the pipeline runs on a heap that only
  grows. Its arithmetic is exact; what 64 bits do to it is in `TaggedValue`.
- The entry points of the ABI that only pass their arguments on, and their answers on a thread
  that is not bound.

## 7. Plan

Done, in this order: the handshake and its refinement; the heap and its clients; the driver's two
halves; the compiler pipeline, with builtins, quote and lists; the reader; tagged values; proofs
of the handshake, the driver, the run pipeline, the heap with its lists and its invisible
collections, the words, and the front end down to its forms; the safety halves of termination and of
the handshake's liveness. What remains:

1. Vectors and `display` in `Printer`, and `Reader` over what compiled programs make.
2. Clients on a thread that is not bound (`mmtk.rs` 519), and the failing paths of `gc_stress`
   (599) with a lifetime for the slots of `run_mutator_stress_checked` (587).
3. Compiled code as a client of `MovingHeap` in general: every call as an allocation, words in
   allocas and registers.
4. Programs at the known limits of the compiler (`eq?`, `procedure?`, `let*`, `__and_0`), each
   with the answer the code gives.
