# A TLA+ model of llir-opt

llir-opt is a whole-program optimiser for LLIR, a low-level SSA intermediate
representation. It reads textual or binary LLIR objects, links them into one
program, runs a pipeline of passes over it and either writes LLIR back or lowers
it to machine code through LLVM. This directory holds TLA+ specifications of the
parts of llir-opt that are hard to test: data structures edited while they are
walked, worklist solvers, the linker's fixpoints, abstract interpreters, two sides
that compute the same layout apart, and the multi-threaded reducer. TLC checks them
on small instances; TLAPS proves most safety properties of eight of the components
for every instance.

* [1. Inventory](#1-inventory)
* [2. The modules and the code](#2-the-modules-and-the-code)
* [3. The runs](#3-the-runs)
* [4. The proofs](#4-the-proofs)
* [5. Where the code and its comments disagree, and what the runs avoid](#5-where-the-code-and-its-comments-disagree-and-what-the-runs-avoid)
* [6. What is not modelled](#6-what-is-not-modelled)
* [7. Next](#7-next)

`PROJECT.json` is the index: components, runs, the source lines behind each
definition (`map`), a mutant of the code for each property, hazards and theorems.

## 1. Inventory

| component | state it keeps | operations | what makes it correct |
|---|---|---|---|
| Def-use chains (`core/use`, `core/user`, `core/value`) | an intrusive doubly-linked list of uses per value, an array of uses per user | operand assignment, `resizeUses`, `replaceAllUsesWith`, destructors | the list of a value holds exactly the uses that refer to it, also half-way through a loop over it |
| Linker, resolution (`tools/llir-ld`) | resolved and unresolved symbols, units to merge, programs linked, the open group | objects, archives, groups, `--whole-archive`, `-u` | the sets agree with what was linked; groups are searched to a fixpoint |
| Linker, merging (`linker.cpp`, `core/prog`) | the symbol table, the globals, what each reference is bound to | `Merge`, `insertGlobal`, renaming of locals | references end on the strongest definition in whatever order modules come |
| Linker, sections | ring lists of objects and atoms | concatenation for `__start_`/`__stop_` symbols | the walks end; every atom gets into the new object (it does not) |
| Reducer (`tools/llir-reducer`) | pool of reduced programs, counter, timeout, checkpoint file; one state per thread | `Request`, `Run`, `Post`, `GetBest` | the answer is the smallest program that passed, however posts interleave; an interruption leaves the best one in the file |
| Points-to solver (`passes/pta`) | constraint graph, union-find, queue, collapse map | `Subset`, `Load`, `Store`, `Solve` | ends in the least solution of the constraints |
| Points-to analysis and dead functions (`passes/pta.cpp`, `dead_func_elim.cpp`) | explored functions, call sites without a known callee | generation of constraints, expansion of indirect calls, deletion | no run enters a deleted function |
| SCCP (`passes/sccp`) | lattice value per instruction, executable edges and blocks, three work lists, call sites and returns per function | one handler per instruction; evaluation of operators | ends, and what it claims is true of every run of the program |
| OCaml tag analysis (`passes/tags`) | type per register, two queues | seeds, transfer functions, propagation along calls | ends in a fixpoint; known bits are right |
| Calling conventions (`emitter/call_lowering`, `emitter/*/*call`) | counters of registers and of stack while places are handed out | arguments and results, for the call and for the function; save areas of variadic functions | two sides agree; no place is given twice |
| Instruction selection (`emitter/isel`, `emitter/*/*isel`) | the graph of a block, its root, pending exports | one handler per instruction | no order the graph allows changes what the block does |
| Pass manager and local passes (`core/pass_manager`, `passes/*`) | groups of passes, cache of analyses; the function being edited | run until no pass reports a change | the program stays well formed and may stand for the source; no stale analysis is read; groups end |
| Pre-evaluation (`passes/pre_eval`) | symbolic heap and frames, the summary of all values, a context per bypassed block | run, call, return, raise, approximate, join, simplify | the summary covers every run; folded branches go where runs go |
| Analyses | call graph, reference graph, components of a function, dominators | computed from a fixed program | agree with their definitions |
| Parser, bitcode, cloning, printing, verifier | registers to values, symbol numbering | read, write, copy | round trips; valid SSA |
| Other passes (inliner, forwarding of globals, dead data, OCaml passes) | worklists, constraint sets | rewrite the program through def-use chains | preserve the meaning of the program |
| Command-line tools, generators | none | read, call the library, write | - |

How they interact: the tools create a `Prog` by parsing or reading bitcode; llir-ld
resolves and merges several of them; llir-opt hands one to the `PassManager`, which
runs the passes; every pass edits the program through `Use`/`User`/`Value` and the
lists of `Prog`, `Func` and `Block`, whose traits keep the symbol table. PTA, SCCP, the tag
analysis and pre-evaluation compute first and rewrite afterwards. The reducer clones
programs and runs passes on the clones in several threads; clones share nothing.

Where it is hard: the only threads are the reducer's. Everything else is
sequential, and its difficulty is iteration over what is being changed (lists,
queues, sets, maps that grow under a reference), worklists which must not lose a
notification, results that depend on the order of inputs (linking) or must not depend on
the order a scheduler picks (selection), code that is executed symbolically along one
path and must be right for all, and loops that end only because something grows.

## 2. The modules and the code

`UseList` - *def-use chains.* `heap` holds the fields of every `Use` slot (`val_`,
index, `next_`, `prev_`) and every value's list head; `user` and `ops` the owner of a
slot and the operand arrays; `job` the loop in progress with its iterator. `Set`,
`New`, `Resize*`, `Replace*`, `Delete*` are operand assignment, construction,
`User::resizeUses`, the overloads of `Value::replaceAllUsesWith`, and the
destructors; a loop of the source is one action per iteration, so that the
invariants hold between any two iterations.

`JobRunner` - *the reducer's global phases.* One `pc` per thread: `Loop` (timeout),
`Request` (under the lock), `Run` (without it: the verdict of the user's test script is
arbitrary), `Post` (under the lock). A `Post` that checkpoints ends at the call of `Write`, and the
thread goes on in the steps of `Write` with the lock held (`LockFree`), while others run candidates:
`OpenOutput` truncates the file in place, `WriteOutput` completes it, and `OpenFails` returns an
error that `Post` ignores. `file` is what it was before the search, a part of a program, or a whole one;
`missed` records a failure to open it. An interruption can strike in any state, so what it leaves is
a statement about every state (`CheckpointIsBest`). A program is the set of symbols deleted from
the original; its size is the constant `Size`. `MCJobRunner` chooses a `Size` with
ties. Not modelled: a signal that removes the output while it is open; errors of a write after the
file was opened, which end the process; and the writes outside the global phase, the one of the
local phases (`reducer.cpp:694`) and the one of `main` (`:773`).

`Linker` - *symbol resolution.* The state of `Linker` and of the option loop of
`Driver::Link`; `scan` is the list that `LinkGroup` walks and edits, its iterator
and its progress flag. What units define and need is constant. `MCLinker` gives
objects and archives that need each other in circles, with a bitcode member and
plain data.

`SymbolMerge` - *merging and the symbol table.* Each module holds any form of a
symbol (undefined, alias, function or datum; local, global, weak); `st` is the
program under construction. `Prog::insertGlobal` with its renaming counters, and
`Linker::Merge` for each kind.

`Sections` - *start and stop sections.* The two nested loops at the end of
`Linker::Link`, with LLVM's ring lists: an iterator advanced at the end comes back to
the first node. `MCLinker` runs it after the symbols of a command line are resolved.

`ConstraintSolver`, `PTABuilder`, `DeadFuncElim` - *points-to analysis and its client.*
In `ConstraintSolver`, `g` is the graph of set and dereference nodes with its
union-find; `Constrain` adds a constraint, `Start` is the beginning of `Solve`
(components, collapse map, initial queue), `Pop` handles one node of the queue, `Return`
ends it. `PTABuilder` has `PTAContext`, the visitors of its `Builder` and `Expand`, which
turn a program into constraints; `DeadFuncElim` alternates rounds of both as
`PointsToAnalysis::Run` does, deletes functions as the pass does, and then runs the program
together with the outside world. `MCDeadFuncElim` has the constraints and programs.

`Lattice`, `SCCPEval`, `SCCPSolver`, `SCCPSound` - *conditional constant propagation.*
`Lattice` has the kinds of lattice values, `LUB`, `IsTrue`, `IsFalse` and `Stands`: which
run-time values a lattice value promises. `SCCPEval` has the operators of `eval.cpp`,
`compare.cpp`, `load.cpp` and `x86.cpp`. `SCCPSolver` is the constructor of `SCCPSolver`:
`s` its tables and work lists, `rest` the instructions of the block being visited, `up`
the loop along call sites of `MarkCall`, `MarkOverdefinedCall` or `VisitReturnInst`; one
action per handler and per round of those loops. `SCCPSound` adds a machine that runs the
same program once the solver is done: a stack of activations and a memory, with the outside world
calling in and being called. What a program may look like is `WellFormed`: operands, targets
and PHIs as the verifier demands, use lists that are exact. `MCSCCP` builds families of programs.

`TagTypes`, `TagAnalysis` - *the OCaml tag analysis, forward phase.* `TagTypes` has the
types, their order and join, `Clamp` and the transfer functions; `TagAnalysis` has `Init`,
the two queues and `Step`, and a machine for the bits of integers. The order in which
users are queued is left open. `MCTagAnalysis` has the programs.

`CallLowering` - *where arguments and results go.* `AssignArg` and `AssignRet` are the
rules of the four targets and all conventions, `sig` a signature that grows value by
value, `caller` and `callee` the two assignments made for it. `VASave` and `VAOverflow`
are what a variadic function prepares for `va_arg`. `MCCallLowering` chooses the calls.

`TargetISel`, `ISel` - *instruction selection.* `TargetISel` has the builder of the graph
(nodes, chains, glue, pending exports) and the handlers of every target; `ISel` lowers a
block instruction by instruction. The properties speak of all orders the edges of the
graph allow. `MCISel` has the blocks.

`IR`, `CfgPasses`, `ValuePasses`, `PassManager`, `Compiler`, `Optimizer` - *the pipeline.* `IR`
is a function as a list of blocks of instructions with the edits of `Block`, `Func` and `PhiInst`,
dominance and validity; `CfgPasses` and `ValuePasses` are the passes, as functions from a
program to a program and a report. `PassManager` runs groups of passes and keeps the cache;
it knows passes only as the constant operators `RunPass` and `Means`. `Compiler` is the
abstract specification: a program is replaced, any number of times, by one that may stand
for the source. `Optimizer` has the machine that gives `Means` and the relation `Refines`;
`MCOptimizer` puts the passes into the manager.

`SymbolicValue`, `SymbolicEval`, `ReferenceGraph`, `SymbolicContext`, `PreEval`, `PreMachine` -
*symbolic pre-evaluation.* Values, joins and casts; what each instruction computes of them;
components of a function, callees, and the objects a function may touch; the heap, frames,
summary, contexts and approximation; the evaluator (`Run`, `Return`, `Raise`, `Continue`,
`Simplify`) as steps; and a machine that runs the original to judge the summary and the
rewriting. `MCPreEval` has the programs.

`Strict` holds evaluation helpers: folds whose accumulator is evaluated once.

`UseListProofs`, `JobRunnerProofs`, `LinkerProofs`, `SymbolMergeProofs` and `CallLoweringProofs`
hold the proofs about the module they are named after, `LinkerProofs` also those about `Sections`;
`SCCPProofs` is about `Lattice`, `SCCPEval` and `SCCPSolver`,
`SCCPSoundProofs` about `SCCPSound`; the few of `PassManager` are in the module itself.

Abstractions made throughout: names, messages and payloads are members of small
sets; logging, timing and progress displays are left out; memory management is
modelled where something can dangle (`UseList`, `SymbolMerge`) and ignored elsewhere.
Definitions marked `(mutant)` are plausible bugs; no specification uses them.

## 3. The runs

| run | module | distinct states | shows |
|---|---|---|---|
| `uselist` | `UseList` | 392 598 | lists are exact, nothing dangles, a replacement is complete, loops end |
| `jobrunner` | `MCJobRunner` | 909 628 | pool sorted and bounded, what an interruption leaves in the file, answer the best, the best never worse, termination |
| `linker` | `MCLinker` | 67 121 | symbol sets exact, groups closed, searches and the walks over a section end |
| `symbolmerge` | `SymbolMerge` | 28 401 | table, references, strongest definition |
| `pta` | `MCDeadFuncElim` | 384 567 | fixpoint where nothing collapses, precision, no run enters a deleted function, termination |
| `sccp` | `MCSCCP` | 758 148 | every run computes what the solver allows, termination |
| `tags` | `MCTagAnalysis` | 36 629 | forward fixpoint in any order, known bits, termination |
| `calls` | `MCCallLowering` | 56 228 | no place twice, both sides agree, `va_arg` finds its arguments |
| `optimizer` | `MCOptimizer` | 136 211 | valid IR, refinement of `Compiler`, edits reported, analyses fresh, groups end |
| `isel` | `MCISel` | 188 288 | effects in order, operands survive, exports arrive, in every order of scheduling |
| `preeval` | `MCPreEval` | 103 321 | the summary covers and the rewriting agrees with every run, evaluation ends |
| `concatenation` | `Sections` | - | expects a violation: atoms of a section are lost when it is concatenated |

**Bounds, and why they are enough.** `uselist`: two values, both users, three slots,
two operands, two result numbers and one value that is not a list head (a tag):
three slots allow the head, the middle and the tail of a list, and a resize
while two arrays are alive. `jobrunner`: two threads, three symbols, a pool of two
and a stop count of one let results be posted late, tie, and fall out of the pool; after the second candidate the
output can always be opened (`MaxUnopened`), by when a first and a later checkpoint can have been missed.
`linker`: five options over six units and three archives, enough for a group that must be
searched three times. `symbolmerge`: four modules with one name are the least for which a
renamed local meets another local of its name. Sections in `linker`: the iterators come round after
two nodes; four objects of four atoms go twice beyond. They are concatenated for one command line,
the empty one: the loops look at nothing that resolution has done. `concatenation`: two objects of two atoms
are enough to lose one of each. `pta`: all sequences of three
constraints on pointers to two objects, in one round or several, and 190 programs in which
the address of a function takes one way or two; activations four deep. `sccp`: 5 788
programs with every operator on known, partly known, unknown and undefined operands;
integers of two bits, calls three deep. 1 344 of them have mutual tail calls, and 4 318 of the others
are those that the theorem about runs is about. `tags`: words of three bits, one for alignment: a
carry can cross a known bit. `calls`: ten values of four types exhaust every list of
registers. `optimizer`: functions of two parameters and up to six blocks, run for at most
eight steps, through all pipelines. `isel`: two instructions and a terminator: an effect can move
over another and over the end of the block. `preeval`: some 5 900 programs, words of two
bytes of three bits, two visits of a block before a loop is given up, calls four deep.
What the theorems below state holds beyond these bounds.

**Deadlock.** `linker`, `concatenation`, `symbolmerge`, `jobrunner`, `tags`, `isel` and `preeval` stutter
explicitly when they are done. `pta`, `sccp`, `optimizer` and `calls` switch the check off:
clients may stop asking, machines may stop, the optimiser returns, and a signature that is
full grows no further.

**Fairness.** The loops of the sequential components run to their end because
nothing interrupts them: `WF` of the loop steps (`UseList`, `Linker` and `Sections` in `MCLinker`,
`SCCPSolver`, `TagAnalysis`). `JobRunner` assumes that the operating system schedules every
thread and that the test script returns (`WF` per thread). A points-to solver that runs keeps
taking steps: `[]<>(~solving) \/ []<><<solving>>_vars`, weak fairness spelled out, since one of
them is always enabled; its clients' constraints are not fair. Likewise `PassManager`
(`[]<>done \/ []<><<Moves>>`) and `PreEval` (`[]<>~Compiling \/ []<><<Compiling>>`). What
outside code and the original program do is never fair.

**What the properties are for.** `ListsExact` and `NoDangling` are what every pass
relies on when it edits operands. `ReplaceComplete` and `LoopsEnd` are about the walk that moves
the slot it stands on. `BestIsSmallest` needs every late post. `GroupClosed`
needs the last pass over a group to see what earlier ones linked.
`StrongestPrevails` compares all orders of modules. `Precise` compares the merged graph with a
least solution computed without merging; `EnteredKept` compares the analysis with a machine.
`Sound` says that no notification between SCCP's three work lists, PHIs and call sites is
lost and no operator claims too much, by comparing the result with every run. `ForwardFixpoint` says that
no notification between the queues of the tag analysis is lost. `CallerCalleeAgree` compares
two computations that never meet in the code, and `VarArgsFound` a third one. `EffectsOrdered`
quantifies over all topological orders of the graph. `Implements` is the refinement of `Compiler`:
whatever the passes did, the program may stand for the source. `SummarySound` and
`RewritesAgree` compare a symbolic walk along one path with all runs.

## 4. The proofs

Each theorem holds for every value of the constants, under the named assumptions of its
module, which TLC evaluates on every run, and under the hypotheses the theorem names.

**`UseListProofs`** (`UseListAssumption`: users are values, tags are not, `Null` is neither).
`UseListType`, `ListsCorrect`, `NoDanglingUse`, `ReplaceMissesNone` prove `TypeOK`, `ListsExact`,
`NoDangling`, `ReplaceComplete`. `ListsExact` says that following `next_` meets each use once; a
walk is not something one step of the proof can see, so the invariant `Lists` says it
locally: `next_` and `prev_` are inverse to each other (`LinkageOf`), only the head has no
predecessor, and any set of slots that contains the head and is closed under `next_` contains all
uses of the value (`WalksOf`). `UnlinkLists` and `AddLists` show that unlinking a
slot and adding one at the head keep it; all operations are made of the two. `IInv` adds what the
running loop has done so far: the slots of an array that moves belong to the
user half in the old and half in the new array (`ResizeInv`), and what a replacement has passed
is gone or is what it put there itself (`ReplaceInv`).

**`JobRunnerProofs`** (`JobRunnerAssumption`: finitely many threads and symbols, a pool of at
least two places, as the code needs, `reducer.cpp:288`). `PoolCorrect` (`PoolSorted` with the
types and the uniqueness of numbers), `CheckpointCorrect` (`CheckpointIsBest`), `AnswerCorrect`
(`BestIsSmallest`), `BestNeverWorse` (`BestImproves`). The properties are not inductive: they say
nothing of results that a thread has and has not posted. `IInv` adds that such a result is
exact and has a number nobody else has (`ResultsExact`), that each size that passed is on
its way or not smaller than the best (`NothingLost`), that only sizes that passed can get
into the pool (`OnlyPassed`), and that the answer is taken when no thread can post
(`AnswerFinal`). About the output file it says (`FileInv`) that one thread at most holds the
lock beyond a step (`OneWriter`), that the file is a part of a program just while that thread writes, and
otherwise old or a program that passed (`FileSound`), and that, unless a failure to open it was missed, it is
the head of the pool whenever the lock is free (`FileCurrent`). With `NothingLost` that gives
`CheckpointIsBest`. `UpperBoundExists` shows by the least-number principle that
`std::upper_bound` finds a position; `JoinShape` and `JoinKeeps` describe the pool after
inserting and truncating.

**`LinkerProofs`** (`LinkerAssumption`: a unit does not need what it defines, aliases are definitions).
`LinkerType`, `Bookkeeping` (`BookkeepingExact`, by `BookInv`, which adds that only programs and
bitcode are linked and that their names are known), and
`GroupsClosed` (`GroupClosed`), whose hypothesis `KindsApart` is that no bitcode file has the
name of a program: where one has, `LinkGroup` drops the member after asking for the symbols of
LTO and does not look for those in the members it has passed. `PassClosed` is the invariant: in a pass
that has linked nothing yet, the members passed define nothing that is missing.

`EvenWalksLose` (about `Concatenated` of `Sections`; `SectionsAssumption`: bounds are positive) says how far the
violation of the run `concatenation` goes: where a section has an even number of objects, the last of them with an atom,
or some object with an even number of atoms, the concatenation ends without some atom, for any numbers. Each round
takes one node out and moves the iterator on twice, so on a list of even length it stays an odd
distance from the last node, however often it comes round (`DataLeft`, `SourceLeft`); so the
last node is never one of those taken, and no atom that is left behind gets into the new object (`LossInv`).

**`SymbolMergeProofs`** (`SymbolMergeAssumption`: finitely many names). `MergeType`, `TableCorrect`
(`TableExact`), `RefsCorrect` (`RefsAlive`), `StrongestCorrect` (`StrongestPrevails`). `Good` describes
the program after any number of globals. What makes it inductive is a count: the
search for a free `$local` number ends because the numbers below each counter are all taken
by some global (`Held`), and there are no more numbers taken than globals (`NumberLeft`,
`FreshFound`). `Comes` lists the five things that may happen to a global that arrives, and
`Leads` says of a name without locals that the references of all merged modules are on the
global in the table, whose rank is the highest so far.

**`SCCPProofs`, `SCCPSoundProofs`** (`LatticeAssumption`, `EvalAssumption`: a word has at least one bit, weak symbols
are symbols, alignments of frame objects are powers of two, zeros convert to zero, features are
bits; `ProgramsAssumption`: programs are well formed; `InputsAssumption`: what comes from outside is a
constant or the address of something that the program shows). That SCCP is right about every run,
for words of every width, any programs, symbols, offsets and inputs. In three parts.

*Operators.* A lattice value that the solver can hold is a member of `Claims`, and
`Described` says that two operands of a run are what the solver knows of them.
`LUBType`, `LUBSound`: the least upper bound stays in the lattice and promises no more of a run
than its two arguments, except where a global that is certainly there is joined with a weak one.
`BinarySound`, `UnarySound`, `CompareSound`: whatever the machine (`Binary`, `Unary`, `Compared`)
computes of two values, `EvalBinary`, `EvalUnary` and `EvalCmp` of what stands for them stands for.
`TruthSound`, `SelectSound`: conditions and selects. The evaluator works on bits and the machine on
numbers, so the argument rests on `Num`, the value of a set of bits, which is a fold over
a set: `SumExists` builds the function that the fold chooses by induction on cardinality, `Sums` gives
its recursion, and from it follow that a set of bits and a number below `2^Width` determine each other (`Word`),
arithmetic modulo `2^Width` (`Wrap`, `WrapSame`), two's complement (`SignedWord`) and shifts and
rotations (`Shifting`). The hypotheses name the operands the evaluator gets wrong or that no
instruction has: the address of a weak symbol in arithmetic; an unknown value shifted left by zero, of
which it makes a mask, that is, an integer (`eval.cpp:1254`); two zeros of different sign that are added; an address
compared with a range of addresses; a floating-point operator on integers.
The proof is why the chains of conditions in `SCCPEval` are written as `IF`: the arms of a `CASE` have no
order, TLC takes the first that holds, and the theorem would not be about that one.

*The solver.* `Fixpoint`: when the lists are empty, every instruction of executable code is `Settled`:
a value is what follows from what the tables say of its operands, a PHI covers what comes in over the edges
taken, a jump has marked its edges, a call is registered with a callee that is entered with its
arguments, a return is part of what its function is known to return, and call sites were told
(`Told`). That is the claim that no notification is lost between the three lists, and it is not inductive as
it stands. `SolverInvariant` (`SolverInv`) says of every earlier state that an instruction is settled *or due*: on
one of the lists, in a block on the third, in the rest of the block that is visited, or the one whose
loop along call sites runs (`Good`, `Waiting`); that lists and edges lead only to executable code (`Fit`);
and what the loops have done so far (`CallLoop`, `ReturnLoop`). Its heart is `KeepsBut`, which says
what a step from one table to another may not undo: whoever is not queued afterwards has the operands it had,
and what was settled stays so. `MarkKeeps`, `EdgeMarked` and `EdgesMarked` show it of the three primitives of the code,
and each handler is a chain of them (`KeepsOn`). The loops over arguments, PHIs, edges and call sites are the library's folds,
chosen functions on sets of positions: `FoldExists` builds them, `Chain` turns one into a sequence of
steps, and `Folding` is the induction that the solver's proofs use.

*Runs.* `SoundWhenClean` (`Sound`): every run of a `Clean` program executes only code that is
marked, and every value it computes is one that the lattice allows. `MachineInvariant` (`MachineInv`) adds to the
solver's invariant that nothing runs before the solver is done; that each activation executes
marked code of its function with values and arguments that the tables allow (`Active`); that it waits at a call
whose callee knows of it, or which the solver gave up on (`Awaits`); and what makes loads sound: memory holds no
address of an object that `IsConstant` takes to be never written (`Quiet`, `Stored`, `Belongs`), nor has the
outside seen one, because whoever gets hold of the address is among the `Holders` (`Holding`).
A run may call any function whose address the outside can have, which is why functions with their address
taken are open in the solver's invariant (`Opened`, `IsEntry`, `Loose`).

`Clean` names what is left out, each a case where the machine and the code differ, or where the code
relies on something that it does not check: tail calls (below); returns of a function
that disagree on whether they return a value; weak symbols (`LUB`); and of instructions with known operands
a negation of a mask or an address, an unknown value shifted left by zero, zeros of different sign that
are added, an address compared with a range, relations of floating-point numbers on
anything else, `cpuid` without a subleaf, the return of the address of a frame object. TLC finds
`SolverInv` and `MachineInv` to hold on all programs of the run, and 4 318 of them clean.

**`CallLoweringProofs`** (`CallLoweringAssumption`: types of calls, sizes and alignments are
what they are). The three invariants relate assignments that grow value by value, and each handler of a
rule is shown to be one of a few forms (`AssignCases`, `ReturnCases`): a register, two, a place on
the stack, or failure. `SidesAgree` (`CallerCalleeAgree`) needs no hypothesis: the counters of both
sides are the same (`Same`) until variadic arguments come, and after that the function has
nothing more to place (`Sees`, `Beyond`). `PlacesApart` (`NoClash`) rests on `Clear`: parts do not overlap, end
below the end of the stack, and use only registers counted as taken (`Taken`), whose lists have
no repetitions (`Listed`). Its hypothesis `~Confused` excludes 32-bit floating-point
values in OCaml calls on RISC-V and AArch64 and in variadic calls on PowerPC, which the code does confuse.
`VarArgsPlaced` (`VarArgsFound`) rests on `Found`: a variadic argument is in a register that
was free when the function stopped counting, which it therefore saves, or on the stack not below
the place where `va_arg` goes on, and the first one on the stack is at that place. Its
hypothesis `Findable` is: the rules of C, no PowerPC, no structures by value, and on
RISC-V at most eight fixed arguments. Each exclusion is a call that the code gets wrong or that TLC
shows to violate the property (section 5).

**`PassManager`** (`PassManagerAssumption`: pipelines are groups of names). `CacheFresh` (`AnalysesFresh`):
a cached analysis is about the present program, unless a pass has edited it and
reported nothing. `PassesCompose` (`Implements`): the manager refines `Compiler`, provided that
each enabled pass turns a program of some class into one of the class that may replace it, and that
to replace is a preorder. These are hypotheses about passes, not about the manager; the run
`optimizer` checks `Implements` with the modelled passes in their place. `Position` says
that nothing runs after `Run` has returned.

**Only model-checked, and why.**

* Liveness under fairness (`LoopsEnd`, `Terminates` in five runs, `ScansEnd`, `WalksEnd`, `GroupsEnd`): outside the
  prover.
* `FixpointUncollapsed`, `Precise`, `EnteredKept`: the graph is built with folds over sets and
  sequences. What a fold computes has to be proved by induction on cardinality, as `Sums` does for one
  fold with one number; the solver nests several, over graphs, and their accumulators are whole states.
* `Sound` of SCCP for programs with tail calls, and for the few others that are not clean. With tail calls the solver's
  loops go on along call sites of call sites, and what a function returns is joined in several orders: the loops
  bring it up to date only for the functions they pass, which needs an invariant about chains of tail
  calls and the least upper bound of all returns along them, that is, about a closure which is a fold. TLC
  checks `Sound` for them as it is, without `Clean`.
* `EffectsOrdered`, `OperandsKept`, `ExportsReach`: paths in graphs built by folds.
* `ForwardFixpoint`, `KnownBitsSound`, `ValidIR`, `SummarySound`, `RewritesAgree`: their modules use
  recursive operators (transfer through a sum, passes over a program, joins of a heap), which the
  prover's arithmetic does not see through.
* `ReportsEdits`: a fact about each pass; the manager only relies on it.

## 5. Where the code and its comments disagree, and what the runs avoid

One run expects a violation, `concatenation`. Elsewhere, where the model showed the code to differ from what its comments
say, or to be wrong on some inputs, the model has the code as it is, and the inputs of the run
stop short of it or the property leaves the case out. These are the cases.

*Reducer and linker.* `-pool 1` (`reducer.cpp:288`): the pool must hold two. `LinkUndefined`
(`linker.cpp:103`, compare `:154`) re-enters a resolved symbol into `unresolved_`, so that a member that
is not needed can be linked. A bitcode member named like a linked program is dropped after LTO's
builtins were asked for (`linker.cpp:186`). An undefined reference is bound to the
local symbol of a later module (`prog.cpp:188`, compare `visibility.h:29`). The loops over a section move their iterators
twice a round (`linker.cpp:287` to `:290`), though they are to "Concatenate all items into a single object." (`:285`): what
they step over is lost, or comes round in another order, and they can end with "not implemented" (`:299`)
although the section has atoms; the run `concatenation` shows it. `Write` truncates the checkpoint in
place, so an interruption within it leaves neither the old program nor the new one (`reducer.cpp:116`), and
`Post` ignores its failure, after which an older program stays in the file unnoticed (`:363`); `CheckpointIsBest`
has both cases as they are. A result that becomes the best with an old number stalls the search at once
(`:458`, compare `:242`).

*Points-to analysis.* A pointee merged with a cycle is not propagated (`solver.cpp:224`, compare
`solver.h:83`), hence `FixpointUncollapsed`. `CallContext` drops returned values
(`pta.cpp:130`); frames and allocas are sets without a pointee; `va_start` is an edge and not a store; the
visitor of `raise` dereferences null for a constant; `ExpandOutside` connects only returns known by then
(`:401`); an extern found in the last round is not solved for (`:370`); stores of the outside into
what escaped are not modelled. The programs avoid pointers stored in frames, results of indirect
calls, raised constants, and an indirect call of an extern alone in its round.

*SCCP.* `LUB` of a strong and a weak global is a pointer that is not null (`lattice.cpp:306`,
compare `lattice.h:42`): no symbol of the run is weak. An unknown value shifted left by zero becomes a mask that knows
no bit and claims an integer (`eval.cpp:1254`). Left out too: signed indices of switches (`solver.cpp:572`), addresses of frames
that are returned (`:487`), operands without a case in `compare.cpp:521` and `eval.cpp:1196`, partial
loads (`load.cpp:14`).

*Tag analysis.* A notification that an instruction causes to itself through a call is erased
(`register_analysis.cpp:207`).

*Calls.* OCaml F32 arguments on RISC-V (`riscvcall.cpp:197`, compare `:41`) and results on AArch64; variadic
F32 on PowerPC; structures by value before `va_arg` on X86; where `va_arg` starts on PowerPC, and on
RISC-V with fixed arguments on the stack.

*Passes.* Folding a branch or a switch with repeated targets drops a PHI value;
`EliminatePhiBlocks` (`simplify_cfg.cpp:136`) overwrites one; `FindThread` (`:159`) does not end on a
loop of empty blocks; comparisons of shifted extensions with odd constants; `GetInverseCond` and NaN
(`cond.cpp:38`); dead code elimination turns an endless loop without effects into a trap; tail recursion
elimination of an entry block with predecessors. `SilentPasses` names the passes that edit without a report.

*Selection.* `clone` followed by a division (`x86isel.cpp:1000`), the frame of GC calls (`:810`), results of
compare-exchange nobody uses on RISC-V and PowerPC (`riscvisel.cpp:918`, `ppcisel.cpp:1111`),
OCaml values exported at an invoke.

*Pre-evaluation.* A join whose predecessor is also a critical edge (`pre_eval.cpp:1082`);
exceptions of an evaluated callee that also returns (`:795`); forwarding in loops (`:203`); deleted blocks
that `SimplifyValues` walks (`:317`); `IsFalse` looks at the lowest bit (`symbolic_value.cpp:208`);
`GetConstant` of the reference graph (`reference_graph.cpp:375`); operators on pointers with masks 0 and
-1 (`bitwise.cpp:85`, `:97`); `value ^ 0` (`:239`); a limited `RunSwitch` evaluates its target again and again (`:579`);
misaligned 64-bit stores; stores in blocks that were bypassed and seen by no closure. Objects on the stack
and the heap are taken to start as zero, as the code takes them.

## 6. What is not modelled

The component notes in `PROJECT.json` say why for each. In short: text and binary formats (parser,
bitcode, printers, Coq), generated instruction classes, command-line front ends, and emission are
translations in one direction without state that interacts. SSA construction, the annotation analyses and
the statistics are algorithms over a fixed program. The inliner, forwarding of globals, dead
data and stores, and the OCaml-specific passes edit objects and calls that the form of functions in `IR` does
not have. The second phase of the tag analysis (refinement) is not modelled, nor its rewriting.
The local reduction of the reducer ends in `llvm_unreachable` for every instruction. Inside modelled components:
SCCP's results with several values; Tarjan's algorithm in `pta/scc.cpp` (modelled by the
components it computes); the chunks of `BitSet`; LTO and the static constructors in the
linker; landing pads in `IR`.

## 7. Next

* For SCCP, the invariant of the loops along tail calls (`CallRound`, `ReturnRound`, `OverdefinedRound`), the last part that the
  proof of `Sound` leaves out.
* For the points-to solver, the invariants that need no fold: representatives are idempotent, the queue
  holds every node whose set has grown.
* For the tag analysis, that the join of `TagTypes` is an upper bound and that its transfer functions
  claim to know no bit too many.
* The second phase of the tag analysis, on top of `TagAnalysis`.
