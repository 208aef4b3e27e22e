# A TLA+ model of GCRecompiler

GCRecompiler translates a GameCube program (a DOL, with optional REL modules)
into C. `main` loads the image, lets the `Analyzer` find the functions and
recover the control flow of each, and writes one C function per guest function
plus a dispatcher, `call_by_addr`, for every transfer that is not a `goto`. The
tool is one thread that runs to completion; the hard part is not concurrency
but order: functions are found while others are being analyzed, blocks are
shared, and what is cut early is reused late.

Paths below are relative to the repository. `analyzer.cpp` is
`src/analysis/analyzer.cpp`, `emitter.cpp` is `src/codegen/emitter.cpp`.

## Inventory

| component | state | operations | interacts with | what makes it correct |
|---|---|---|---|---|
| `Binary`, `DolBinary` (`loader/binary.h`, `dol.cpp`) | regions, sections, entry point, the last region found | `load`, `appendMappedSection`, `isExecutable`, `read8/16/32` | everything reads through it; the REL loader extends it | a read depends on the address alone, never on earlier reads; what is executable can be read |
| REL loader (`rel.cpp`) | sections and a patch cursor during one load | parse, place sections, apply relocations, append | `Binary` | all or nothing; every relocated word means its target |
| `Disassembler` (`disasm.cpp`) | none | `disassemble` | `Binary`, `Analyzer` | classifies every branch form |
| `Analyzer` (`analyzer.cpp`, `cfg.cpp`) | `m_cfg` (functions, shared blocks), discovered and analyzed functions, a FIFO worklist, per function seeds, scan queue, pending blocks | `registerFunction`, `analyze`, `analyzeFunction`, `analyzeBlock` | `Binary`, `Disassembler`, `Lifter`, `Optimizer` | discovery forgets nothing and ends; no block swallows a function; every listed block is built |
| `Lifter`, `Optimizer` (`lifter.cpp`, `optimizer.cpp`) | known constants within a block | `liftBlock`, `optimizeBlock` | `Analyzer` | optimized IR computes what the IR computes |
| `Emitter` (`emitter.cpp`) | label set, resume targets of one function | `emitFunction`, `emitInstruction` | the CFG | every `goto` has its label; running off a block is where the guest goes |
| `emitAllFunctions` (end of `analyzer.cpp`) | output directory | batches, `functions.h`, `jump_table.c`, `hle_stubs.c` and its patches | `Emitter`, earlier runs, the user's edits | the directory holds one program; a patch is applied once; what the user added stays |
| generated dispatcher | call trace, depth, `pc`, `lr` | `call_by_addr`, `runtime_can_dispatch_addr` | generated functions, HLE stubs | it enters the function the table has; the trace shows the calls as they were made; local returns go to their own caller |
| guest runtime (`recomp_runtime.h`) | `CPUContext`, RAM | memory access, carry, rotate, CR, SPR, paired singles | generated functions | agrees with the PowerPC at the edges |
| driver (`main.cpp`), CFG export | none | argument parsing, the pipeline | all | - |

What is hard to test in each, with its line, is listed under `hazards` in
`PROJECT.json`.

## Modules

| module | models |
|---|---|
| `Image` | the loaded image as the disassembler presents it, and the predicates that recognize function entries |
| `Exploration` | abstract: what function discovery promises, whatever order it works in |
| `Analyzer` | `analyze`, `analyzeFunction`, `analyzeBlock`; implements `Exploration` |
| `EmittedCode` | `emitFunction`'s labels and gotos and `emitAllFunctions`' dispatch table, as functions of the analyzer's state |
| `GuestMachine` | abstract, external: the path of words a PowerPC takes through the program |
| `GeneratedCode` | analysis, emission and the run of the emitted C on the host's stack; implements `GuestMachine` |
| `MachineWords` | words, half words and bytes at a width of their own |
| `Binary` | mapped regions with the cache of the last one found |
| `LinkedImage` | abstract: the image that a command line stands for |
| `Loader` | the DOL and REL loaders and the lookups afterwards; implements `LinkedImage` |
| `OutputDir` | runs of the tool over one output directory |
| `CarryChain` | carry-chained arithmetic |
| `GuestMemory` | memory accesses of the generated code |
| `PairedSingles` | quantized loads and stores over that memory |
| `ByteMemory` | abstract: memory as an array of bytes |
| `Dispatcher` | `call_by_addr`, its search and its trace |
| `GuestRuntime` | the four together; implements `ByteMemory` |
| `IRMachine` | what the C emitted for an IR instruction does to the registers |
| `Optimizer` | both passes of `constantPropagation`, beside machines that execute the block before and after |
| `MCWords`, `MCAnalyzer`, `MCGenerated`, `MCOptimizer`, `MCLoader`, `MCOutput`, `MCRuntime` | small instances for TLC |
| `AnalyzerProofs` | types, discovery, what blocks contain and list; refinement of `Exploration` |
| `EmittedProofs` | labels, gotos, resume labels and fall-through of the emitted bodies |
| `GeneratedProofs` | the host's stack, open calls, refinement of `GuestMachine` |
| `OptimizerProofs` | both passes of the optimizer preserve the block; its types |
| `LoaderProofs` | the region cache, stable reads, types, words that can be read |
| `OutputProofs` | every invariant of the output directory |
| `DispatcherProofs` | the trace of calls and the search of the dispatch table |
| `RuntimeProofs` | bytes in memory, quantization, carry chains, then the theorems of the composed runtime |

`Image` is extended by `Analyzer`, that by `EmittedCode`, and that by `GeneratedCode`,
which takes `GuestMachine` as an instance with a refinement mapping; `Analyzer`
does the same with `Exploration`. `Optimizer` extends `IRMachine` and shares
nothing with the others. `MachineWords` is under `Binary` (and so `Loader`) and under
`CarryChain`, `PairedSingles` (over `GuestMemory`) and `Dispatcher`, which `GuestRuntime`
composes. `OutputDir` stands alone.

### Image

An address counts words, so alignment and the factor 4 disappear; 0 is the guest
address 0, which the code uses for "no target", and `MaxAddr + 1` is the first
unreadable word. `Exec` is what `Binary::isExecutable` accepts; the words of
`1..MaxAddr` outside it are readable data. A word carries what control flow
needs: the `InstructionType` the disassembler gives it (the enumerators
`disassemble` never assigns are left out), its direct target, the register it
branches through, and its role in an idiom. The role stands for a match the code
makes on bits: `stwu r1` is a frame, `mflr r0` starts a link-save prelude, the
pair `cmplwi; bgt` in front of a switch counts as one word, the guard, and a
`bctr` with a table stands for the five or more words `detectLocalJumpTable`
matches. Pointers found in data sections and addresses built by `lis`/`addi`
are two sets of the image, after `normalizeExecutableReference`. `link` is `isLink`: a
conditional branch with link (`bcl`, `bclrl`, `bcctrl`) keeps it, but only an unconditional
one is of type `Call`. A word of type `Unknown` has neither target nor branch register: `disassemble` sets them only
where it has found a branch.

### Analyzer

One action is one loop iteration of the code:

| action | code |
|---|---|
| `ScanPrologues`, `DiscoverEntryPoint`, `ScanDataPointers`, `ScanTextPointers`, `PopulateWorklist` | phases 1 to 5 of `analyze` |
| `SkipAnalyzed`, `BeginFunction`, `Finish` | the main loop's test, pop and early `continue` |
| `ScanRun` | one iteration of pass 1's queue loop: a straight-line walk and what its end adds |
| `BeginPass2`, `SkipBlock`, `BuildBlock` | pass 2: list the seeds, take the lowest pending address, `analyzeBlock` |
| `EndFunction` | `analyzeFunction` returns, unanalyzed functions are pushed again |

The worklist pushes whole sets in ascending order, so it is kept as a sequence of
sets (batches) whose front is the least element of the first. `Registered` is
`registerFunction` for a set of addresses. Names are the four kinds the tool
gives, because whether a later name replaces an earlier one depends on the kind.
A walk is described by its end (`IsRunEnd`): the first word that stops it. Pass 1
and pass 2 share that shape and differ in the cuts: pass 1 stops at its seeds and
at any other function, pass 2 at the listed blocks and at any function.

A block records its last word (the code's `endAddr` is overwritten with the
address of the word after it when the block ends at a cut; nothing reads it
but the Graphviz export), its successors and, for a switch, its table with the
default target. Lifting and optimizing happen in the same step and touch nothing
here.

### EmittedCode

No new state: labels, gotos and dispatch entries are computed from the CFG when
`analyze` has returned, which is when the code computes them. `EmittedBlocks` is
the least set closed under what `emitFunction`'s queue does; a direct call to a
label of the same body is local (`lr` set, `goto`), every other call goes
through `call_by_addr` and comes back behind it.

### GuestMachine and GeneratedCode

`GuestMachine` is the specification the emitted code is held to: from each guest
word to the next, with `lr`, the link registers that prologues saved and the open
calls. Conditions, switch indices and the count register are arbitrary; a
routine outside the image belongs to the host and returns at once. It is
external: the processor is not in the repository.

`GeneratedCode` runs the C. `fn` is the function whose body runs, `blk` the label it
went to last, `at` the guest word the current statement stands for, `frames` the
host's `call_by_addr` activations. `mode` is `run` inside a body and `return` while a C
`return` unwinds.

| action | code |
|---|---|
| `RunOrdinary`, `RunNotTaken`, `RunOff` | statements of a block and running off its end into the next label or the end of the body |
| `RunGoto` | `goto` for a direct, conditional, table or `ctr` branch to a label of the body |
| `RunTransfer`, `RunTransferToHost` | `call_by_addr(...); return;` |
| `RunReturn` | `emitLocalResumeOrReturn`: the switch on `lr` over the resume labels, else `return` |
| `RunLocalCall` | `IROp::Call` to a label of the body: `lr` set, `goto` |
| `RunCall`, `RunCallHost` | the other calls, and what `call_by_addr` does not know |
| `Unwind` | a C `return` to the statement behind `call_by_addr` |

`calls` and the frames' `depth` are history variables: the code does not keep them.
The refinement mapping (`guestPc`) takes `pc` to be `at` while a body runs and `lr` while a C
`return` is under way, which is the point of the design: a C return must arrive
where `blr` would have gone.

What is assumed of the guest: it returns to its latest open call, it does not run
into words that are not code, and it does not return from an interrupt (`rfi`). A body in
which a `goto` names no label does not compile, and is not run (`Compiles`). Nothing else
stops the emitted C. What the two machines are compared on is a history variable,
`covered`: it starts as `Translatable`, and a step for which the emitter has no translation
makes it false for good. `Translatable` says of the output that the blocks a body needs are
listed in it, that what a branch through `ctr` may hold is known to the dispatcher, and that
a call that two bodies share, in one block or in blocks that overlap, is local in both
or in neither. The steps without a translation are two:

- a jump out of a body while a local call of that body is open. Its `call_by_addr(...); return;`
  goes past the resume label (hazard `emitter.cpp:381`, run `leaving`);
- a conditional branch with link, which the processor takes as a call, and which sets
  `lr` even if it is not taken; the emitted C leaves `lr` alone (hazard `emitter.cpp:384`).

The emitted C goes on after such a step, and the model with it; `FollowsGuest` and
`OpenCallsAreAwaited` ask nothing of it from there on, because the code is wrong there.
The same is true of a call that is local in some of its bodies only (hazard
`emitter.cpp:430`).

### IRMachine and Optimizer

Operations that are emitted and optimized alike share a name (the comment in
`IRMachine` says which), so an instruction is an operation with the operands the
optimizer looks at. `Exec` is the C the emitter prints for it: which operands and
registers are read, which are assigned, whether anything else changes. What is
computed is the constant operator `Compute`. Memory, carry, condition and
floating-point registers are one value, `rest`.

`Propagate` and `Eliminate` are one iteration of the first and the second loop,
`BeginElimination` and `Rebuild` what is between and after them. The tables
(`WritesAnyGprValue`, `WritesPureGprValue`, `OperandIsRead`) are the code's switches. The
variables `original` and `rewritten` execute the lifted and the rewritten block in
step with the first pass and are not in the code.

`TablesCover(i)` says that the tables describe what the emitter makes of `i`. It holds
of most operations and fails for `Neg`, `Eqv`, the carry-chained ones, `Addic`, `Lmw`, `Stmw`,
`Dcbz` and the accesses with update: those are the optimizer's open flaws.

### Binary, LinkedImage and Loader

Bytes are digits of radix `Radix` (256 in the code, 4 in the run), so that a word
keeps its width, its two halves and its wrap-around while an address space stays
small enough to enumerate. `Binary` keeps the regions in the order they were
appended, which decides overlaps, and `m_lastRegion` as a pointer into the vector at
a given length: an append may move the vector, so a pointer of an older length
is a dangling one.

`Loader` goes through the command line file by file: `OpenDol`, `MapSlot`, `MapBss` and
`CheckEntryPoint` are `DolBinary::load`; `OpenRel` is `loadRelSpec` and the head of
`loadRelModuleIntoBinary`; `PlaceSection`, `EnterImport`, `Relocate`, `GoToSection`,
`LeaveImport`, `AppendSection` are its loops. After the last file the analysis may look
up any address at any time (`Lookup`), which is all that moves the cache. A header is
a record of its fields; `valid` is false for every way in which reading or parsing
it fails.

`LinkedImage` says what loading is for: the image after each file is the one before
with that file's sections behind it, or loading fails with the image as it was. Its
relocations are what the file lists, in the file's order, each at a place; the linked
values are those of the file after each of them has been made to mean its target
in turn (`Link`), so where two overlap the later one has its meaning whole and the
earlier one keeps the bytes that are left. It has no cursor, no cache and no order
of sections. Relocated values are defined there by
what the processor makes of them (a high and a low half that add up to the
target, a branch whose field holds the distance), not by the loader's shifts.

### OutputDir

One action is one file operation of `emitAllFunctions`. A generated file is known by
the program it was made from and by whether it has been closed; `recomp_runtime.h`
and `jump_table.c` stay open until the function returns. A patched text is known by
the anchors the `patchGenerated` functions look for and by how often each hunk was
applied; a hunk says whether its replacement still contains its anchor, which
markers it brings and which other hunks it needs, and a group of hunks is passed
over when its marker is there. `HleHunks` to `PadHunks` and `GroupsOf` are read off the
string constants in `analyzer.cpp`.

`Crash` may come at every step. A text that was being written keeps any prefix; a
generated file that was open stays incomplete. `Begin` may take another program,
`AddHook` and `RemoveAnchor` are the user at work between runs, and every open may fail,
which the code passes over without a word.

### CarryChain, GuestMemory, PairedSingles, Dispatcher, GuestRuntime

`CarryChain` runs any chain of carry instructions, the least significant word first,
beside the exact number (`exact`, history). `GuestMemory` has one action per access
function: hook, translation, bytes. `asked` (history) is what a step was asked to do, with
its address. Accesses are aligned, because the code reads and writes beyond the array
when one that is not lies at its end. `PairedSingles` counts lanes in units of `1/Unit`, which
every scale divides; a scale is the power of two it stands for, and `Float` says which
number the bits of an f32 stand for. What is stored is what the C computes:
`(f32)value` is a nearest single, either one if two are equally near (`Narrowed`); a number
that no s32 holds once it is scaled is undefined behaviour, so anything may be clamped
(`Converted`); a scale has six bits, and from 32 on `1u << scale` is undefined: any of the
powers (`Multipliers`). Which bits of a GQR are which field follows the code's shifts
(`recomp_runtime.h:682`), not the comment above them, which has other positions for the
scales. Lanes that are no multiple of `1/Unit`, and so the rounding of `value * qScale + 0.5` as
an f64, and lanes that are not numbers are not modelled. `Dispatcher` is `jump_table.c`: `CallByAddr` up to the
hook, `Handled` and `NotHandled` for the hook's two answers, `FunctionReturns`; hooks and
functions may call again before they return. `log` and `answer` are history.

`GuestRuntime` takes their steps in any order; quantized stores and plain accesses work
on the same array, which is where they could disagree. `ByteMemory` knows bytes at
addresses only, no translation of a first byte and no word order; a step of it does
what `asked` says, at the address that it says.

## Runs

| run | question | instance |
|---|---|---|
| `analyzer` | do discovery, blocks, labels and fall-through fit together, for direct control flow and when a jump table, a data pointer or an address in code reveals starts late? | every image of 4 text words out of 9 kinds, followed by words that end what runs into them (6561 images); and 6 text words with a guarded switch, every table of one or two of 5 targets (0, the guard, and the words behind the switch), in one function or reached from the loop of another |
| `shared` | does a function list everything its blocks lead to? (no) | 5 words at the seam of two functions |
| `resume` | does every `goto` have a label? (no) | the images with a switch |
| `late` | are block starts that a table reveals honoured? (no) | the images with a switch |
| `generated` | does the emitted C take the guest's path? | 10724 images of 7 text words: two functions with a routine between them, conditional branches with link among their words; a recursive function entered at any word; a switch whose cases return, leave or call; a function that jumps out with a local call open; `MaxDepth` 3 |
| `leaving` | does a local call always come back to its resume label? (no) | the last of these kinds |
| `optimizer` | does the optimizer preserve what a block does? | every block of 3 instructions out of 34 and of 5 out of 6, for two registers and a base that is the constant 0, at a width of 7 bits |
| `multiple_loads` | does a load clear what is known of its registers? (no) | blocks of 3 with `lmw` |
| `update_forms` | do destinations stay registers? (no) | blocks of 3 with `LoadFloatXU` |
| `loading` | does loading link the image or leave it, and are later reads a function of the address? | 1068 command lines in radix 4 (256 addresses): DOLs with slots that overlap, end the address space or exceed the file; each relocation type at each place, pairs of them, overlapping ones among these, RELs that fail early and late, and two RELs beside, over and behind each other |
| `output` | what do runs, crashes, failing opens and edits leave in the directory? | two programs of one and two batches, three runs, one crash, one failing open, two edits; no patched text or one of each kind with complete and partial anchors |
| `runtime` | do carries, memory, quantized pairs and the dispatcher mean what they should? | words of 256 values, 16 bytes of memory in three windows, a device; chains of 3 words, 2 accesses, 3 pair operations, an access and a pair operation, 6 steps of calls over a ring of 2 |

Why the bounds are enough: the properties relate two functions, or a function and
a block that overlaps it. Four words hold two functions of two words, a call
back and a loop; every assignment of instructions to them is an initial state, so no
order of their discovery is left out below that size. Runs and calls that end at
the end of the text, and late starts, are in the images with a switch. `LocalRange` is
2, so that targets on both sides of `isLikelyLocalJumpTarget`'s limit occur. The larger
sizes are what the proofs are for.

`MaxDepth` bounds the guest's open calls, the saved link registers and the host's
frames. Three allow a local call inside a nested one inside the first activation,
and two activations of the same body under a third, which is what the switch on
`lr` could confuse. Of 10724 images 9494 satisfy `Translatable`, and 84
have a body that does not compile.

In `loading` a byte has four values: enough for a word of four bytes whose halves
have a sign, a carry from the low half into the high one, a field that is
narrower than the word (`FieldLI` 64), and sums that wrap. Failure is placed before
and after the first relocation, in the first module and in the second.

In `output` three runs are what a cut batch, a larger program and a smaller one
after it need, and a text is patched, found patched, and patched after an edit.
Texts do not interact, so one at a time is enough.

In `runtime` the operands are the ends and the middle of the range; two accesses
meet at every distance and width; a ring of two wraps three times in six calls. An
f32 has three bits of exponent and four of fraction there, an s32 seven bits and a sign:
the lanes are two numbers half a step apart, one that no float is, one that
overflows the s32 at the largest scale, and one beyond the largest float. One of the GQRs
has a scale from 32 on.

In the optimizer's run a read, a write and a rewrite of one register need three
instructions; a write dropped because of a write that is dropped in turn needs
five. Its operations are covered by the tables (`TabledBlocksAgree`). `Compute` is a
hash of its arguments there, and arbitrary in the proof.

Fairness: `FairSpec` assumes weak fairness of the whole loop. The program is a
single thread without waiting: while a step is possible it takes it.
`Termination` and the liveness half of `Explores` hold under that assumption
only. The analyzer's specification ends in `Done`, a stuttering step, so deadlock is
checked in its runs. The emitted program and the optimizer simply end, so in
theirs it is not. The loader's `FairSpec` assumes weak fairness of its own steps, not of
the lookups, for the same reason; the liveness half of `LinksImages`, that loading
ends, rests on it. A failed load ends the program, runs of the tool and budgets
run out, so deadlock is not checked in the last three runs.

What the passing runs show:

- `EveryFunctionAnalyzed`, `Explores`, `Termination`: discovery takes every function
  up once, forgets none, and ends, with a worklist full of duplicates.
- `EverySeedScanned`: pass 2 starts only from code pass 1 has walked.
- `EntryLabelExists`, `EveryListedBlockBuilt`: the blocks a function names exist,
  including fall-through successors, which the code lists without queueing.
- `NoBlockRunsIntoAFunction`: sharing blocks is safe with respect to function starts
  found later.
- `DispatchLandsOnLabel`: whatever executable address the dispatch table maps to a
  function has a label in that function.
- `TransfersResolve`: a direct transfer to executable code is a `goto` to a label or an
  address the dispatcher knows.
- `ResumeLabelsExist`, `FallThroughReachesNextWord`: behind a local call, and at the end
  of a block that falls through, is the label of the next guest word. The first
  holds of functions without a jump table and of those that share no block, the
  second of functions that share no block and, if they have a jump table, emit no
  two blocks that overlap. The violation runs show why: a jump table may lead
  a body to a block of another function, which it then emits but whose
  continuation it never lists, or into the middle of a finished block.
- `FollowsGuest`: if the output is translatable, the words are executed in the guest's order
  with the guest's `lr`, and the host gets control back only when the guest has ended,
  until a jump leaves a body with a local call open or a conditional branch with link
  is executed.
- `OpenCallsAreAwaited`: until then, an open call is awaited by the activation that made
  it or by a resume label of the body that made it.
- `KnownValuesAreCurrent`, `RewrittenAgrees`, `PendingWritesAreUnread`, `OptimizedAgrees`: the
  constants known are the registers' values; propagation and the removal of
  overwritten writes are invisible, one by one and together.

- `CachedRegionIsLive`, `ReadsAreStable`: no append leaves the cache behind, and neither
  earlier reads nor later modules change what a word reads as, as long as one
  region alone holds it. Where regions overlap it is not so.
- `ExecutableWordsAreReadable`: an aligned address that the text predicate accepts can
  be read, whichever region answers, if sections begin and end at words.
- `LinksImages`: a file is linked as a whole or not at all, with every relocation in the
  file's order, also where they overlap, and without those that must be skipped; and
  loading ends.
- `OutputIsOneProgram`: after a run whose opens succeeded the directory holds its
  program, whole, and nothing of another, whatever was killed before.
- `NoHunkTwice`, `HunksHaveTheirNeeds`, `PatchedTextsSettle`: no patch is applied twice,
  none is applied without what it uses when the text offered both, and a finished
  run leaves nothing to patch. A stub file whose placeholder comment is gone offers
  the call's place and not the definition's: there the code goes wrong (hazard
  `analyzer.cpp:1006`), and `Coherent` keeps such texts out.
- `UserHooksKept`: what the user added to `hle_stubs.c` stays, unless the tool is killed
  while it writes that file.
- `ChainIsExact`: sums and differences of several words are exact.
- `MemoryIsBytes`: an aligned access to an address, of every width and through every window,
  is that access to that address of one array of bytes; a quantized store changes
  no byte but those of its elements.
- `StoredPairsReadBack`: a pair stored through a GQR reads back, through the same type
  and scale, as what that type can hold of it: a nearest single, the closest multiple
  for an unsigned type, the last one on the way to zero for a signed type. That is so
  of scales below 32; of a number that overflows the s32 only some number of the type is
  left.
- `DispatchAnswersByTable`, `DumpShowsLatestCalls`: the dispatcher enters what the table
  has for the word called, by any window; and its dump shows the latest calls, each
  at its depth, whatever way they ended.

### Disagreements found

- `shared`: `analyzeBlock` leaves an existing block alone. If it was cut at a block start
  of the function that built it, the second function to reach it lists the first
  part and never the rest.
- `resume`: `emitFunction` makes a resume label of the word behind each local call, also
  when no block exists there (the call is the last word of the text): the emitted
  `goto` has no label.
- `late`: pass 2 allows "new block starts to be discovered while analyzing jump tables",
  but a start inside a block that is already built does not split it. Its words
  are emitted twice in a row, and run twice.
- `leaving`: a jump out of a body is `call_by_addr` and `return`, without the switch on `lr`. With
  a local call of the body open, the C return goes past the resume label that the
  call comes back to; the tests expect local calls to come back there.
- `multiple_loads`: `lmw` is not among the writers that clear a known constant, so a
  register it loads is taken for the constant it held before.
- `update_forms`: the address register of a floating-point access with update is
  replaced by a constant, and the emitter assigns `gpr[<constant>]`.

## Proofs

TLC's instances are small; the theorems hold for every value of the constants that
the named assumptions admit. tlapm checks them in eight modules, each of which
extends the model it is about. The assumptions, and why the code satisfies them:

| assumption | what it says | why |
|---|---|---|
| `ImageAssumption`, `AnalyzerAssumption` | text sections are readable; an executable address whose predecessor is not starts a text section; what the disassembler gives a word fits its kind | `appendMappedSection`, `disasm.cpp` |
| `IRAssumption`, `BlocksAssumption` | blocks are sequences of instructions with the operands that `Args` gives the operation | `lifter.cpp` |
| `FieldAssumption`, `EvenRadixAssumption` | a word has four bytes, the branch field is a multiple of four that divides the address space | 2^8 and 2^26 in the code |
| `InputsAssumption`, `AlignAssumption`, `SlotsEndInAddressSpace` | files have the format's fields; alignments are powers of two; a slot does not wrap around in the file | header structs; `alignUp` masks; the last is undefined behaviour otherwise |
| `OutputAssumption`, `InitialTextsAssumption` | programs have functions; a directory starts with texts that the generator wrote and the user edited | `emitAllFunctions` is their only writer |
| `DispatcherAssumption`, `TablesAssumption` | the two windows do not overlap; the table is ascending without duplicates, and in the window that addresses are normalized to | it is emitted from a `std::map` of cached addresses |
| `MemoryAssumption` | memory's size is a multiple of a line, a line of 8, and divides the address space; hooks own whole blocks of 8; a run of registers fits in memory | `GC_RAM_SIZE` is 2^25, a line 32, the file of registers 128 bytes; hardware registers |
| `PairsAssumption`, `GqrsAssumption`, `BudgetsAssumption` | every scale that is defined divides the unit; the bits of an f32 stand for a number, lanes are numbers, in units | scales are powers of two up to 2^31; infinities count as the first number that is too large |

### Analyzer and emitted code

- `TypeCorrect`, `AllFunctionsAnalyzed`. `TypeOK` is not inductive: the passes extend the
  block list of the function taken off the worklist, which must be registered. The
  missing half is `WorklistInv`: registered and discovered are the same set, the
  worklist holds discovered addresses only, and at the head of the loop everything
  discovered is analyzed or queued.
- `SeedsAreScanned`. `SeedInv`: while pass 1 runs, the seeds are what was scanned and
  what is queued.
- `AnalyzerExplores` (`Spec => Discovery!Spec`): each step is a step of `Exploration` or
  invisible to it.
- `BlocksStopAtFunctions`. `BoundaryInv`: frames and section starts are registered
  before any block exists, and the words of a block before its last are no
  branches. A function found later starts after a branch or at a boundary, so never
  inside a block.
- `ListedBlocksAreBuilt`, `EntryLabelsExist`. `ListInv`: a listed executable address is
  built, pending, or the start of a function, and each analyzed function has its
  start built. The unqueued fall-through successors are covered because only a
  listed address or a function start cuts a run.
- `DispatchFindsItsLabel`, `DirectTransfersResolve`, `ResumesFindTheirLabel`,
  `FallThroughIsSound`. None of these is inductive, or even about the variables: labels
  and gotos are closures over the finished CFG. Four invariants carry the argument
  from the scan to the emitter. `ScanInv`: the end of every run pass 1 has walked is
  seeded. `PassInv`: what pass 2 has still to do is listed, and without a jump
  table the list is the seeds. `BuilderInv`: each block fits the list of some function,
  the one that built it: the block and what it leads to are listed there, and, if no
  jump table revealed more, no listed address lies inside it. `ReachInv`: a
  finished function without jump tables lists every place its blocks lead to,
  whoever built them. The emitter's closure is a least set, so a body
  contains no block but those it lists or reaches.

  Two of the four properties were first stated too strongly. A table that leads to a block of another
  function loses the resume label behind its call, and targets that are too far
  away to be listed are emitted as they were cut for others: on small images
  neither occurs, the proofs did not go through, and TLC confirmed both on images
  that now belong to `analyzer`.

### The emitted code at work

- `EmittedCodeFollowsGuest` (`GeneratedSpec => FollowsGuest`), for every image and every
  `MaxDepth`, as far as `covered` is true: of translatable output, until a jump leaves a
  body with a local call open or a conditional branch with link is executed. Most of the argument is about the host's stack (`Stacked`, stated of any
  stack of activations, with the lemmas for what pushes and pops it): an activation
  that is not a transfer stands for the open call at its depth, and the calls between
  its depth and the next are local to the body that runs above it. `MachineInv` says
  so of the C stack. During a C return the call that just ended is still accounted for
  (`Unreturned`: the open calls and, on top, `lr`), and the depth of the stack is the
  number of these calls, which is why popping the activation arrives where `lr`
  points. Where the link register and its saved copies point into code, the dispatcher knows
  the address (`KnownLinks`), so that a `blrl` finds its target. Below it, `AnalysisInv` is what
  `AnalyzerProofs` and `EmittedProofs` say of the finished CFG.
- `CallsAreAwaited`: the same invariant, read at an open call, under the same condition.

  Two tables say where a body's calls come back to, by a label or behind
  `call_by_addr`, and the argument needs a continuation to be in one of them only, for
  all bodies (`TablesDisjoint`). `LocalInAllBodies` first asked this of shared blocks;
  that does not cover two bodies that hold the same call at the end of different,
  overlapping blocks. It now asks it of the call's word. On the images of
  `generated` the two forms agree.

### Optimizer

- `PropagationAgrees`, `KnownIsCurrent`, if the tables cover every instruction of every
  block (`Covered`). Neither property is inductive: that a replaced operand has the
  value of its register needs the known values to be current, and that needs both
  machines to be in step. `PropagationInv` has both. `Compute`, the width and the number of
  registers are arbitrary.
- `TabledBlocksAgree`: for the operations in `TabledOps` the tables are complete whatever
  the operands, so blocks made of them, among others all of the run `optimizer`,
  satisfy both properties with no further assumption.
- `OptimizerTypeCorrect` (`TypeInv`): also where the tables are wrong, what replaces an operand is
  an operand that the operation's lowered form admits, and a constant is a word.
- `TabledBlocksSurvive` (`PendingWritesAreUnread` and `OptimizedAgrees`). `Unread` says that any
  subset of the pending pure writes may be removed from what was kept so far, and
  only their registers differ afterwards. One instruction keeps it: the
  writes it overwrites were in the subset's reach before (`Before`). Runs of a
  machine over a sequence are a recursive function; two of them are equal when the
  first index where they differ leads to a contradiction. `TabledOps` is needed, `Covered`
  is not enough: after propagation `Stmw r31, 0(r31)` is another instruction than
  the one the tables covered.

### Loader

- `CacheIsLive`, `ReadsStay`. `CacheInv` knows the phases in which nothing has been looked
  up yet: a DOL's regions are pushed without resetting the cache. A step changes
  the regions by appending at most one, and a region that alone holds an address is
  what the search and the cache both answer.
- `LoaderTypeCorrect`, `ExecutableWordsRead`. `LoadInv` adds to the types what the cursors
  of each phase point into, so that the records they select exist. A relocated
  value is a word because every formula of `Relocate` is reduced by the width of its
  field. An aligned word whose first byte lies in a region of whole words lies in it
  with all four, whichever region the search or the cache picks.

### Output directory

- `NoHunkTwiceHolds`, `HunksHaveTheirNeedsHolds`, `UserHooksKeptHolds`. `TextInv`: every text,
  also the one being written and the one that a crash cut short, has each hunk at
  most once, with its needs, and keeps the hooks.
- `PatchedTextsSettleHolds` (`SettleInv`): in a run whose opens succeeded each text it has gone
  over is settled, and edits keep it so.
- `OutputTypeCorrect`, `OutputIsOneProgramHolds` (`FilesInv`, `CleanInv`): in each phase, which files
  are whole, open, or absent.

  The numbers of runs, crashes, failures and edits are arbitrary.

### Guest runtime

- `ChainsAreExact`, for every radix: each instruction's result and carry are the
  quotient and remainder of a sum that is below twice the modulus.
- `TraceIsTrue`, for every capacity, table and order of calls and returns. `RingInv` says
  that the `n`-th call is at `(n - 1) % Capacity` as long as it is one of the latest, and
  that the depth counts the activations, which makes the guard `depth > 0` in the
  way out redundant.
- `DispatchIsByTable`. The search is a recursive function of an interval; where it gave
  a wrong answer there is an interval of least length, whose halves are shorter.
  `AnswerInv` records that what was resolved last was found in this way, for the
  normalized address.
- `StoredPairsSurvive`, for aligned pairs of multiples of the unit and scales below 32. Two
  lemmas about numbers say that rounding leaves the closest multiple of the scale's
  grain and truncation the last one on the way to zero, if the s32 holds the
  scaled number; one that what a float is narrowed to exists and is nearest, because a set
  of distances has a least one; one about memory that a write is read back, and one that the write of the second
  lane leaves the first, also where the pair wraps around the end of memory.
  `KeptInv`: memory holds both lanes of what was stored last.
- `MemoryIsByteMemory`: the runtime implements `ByteMemory` step by step, each access at the
  address that was asked for. The two differ in
  what they find obvious: the code translates the address of the first byte and
  indexes from there, the specification translates every byte. They agree because
  an aligned access does not leave its window or its owner (`BytesTogether`), no
  two bytes of one access share a place, also where a run of registers wraps around
  (`PlacesDiffer`), and the digits that words are cut into are the number's (`CutDigits`).
  A run of words is an induction over its length that is made without one: the
  set of lengths for which it holds has no gap (`UpTo`).
- `RuntimeTypeCorrect` and `RuntimeIsTrue`: types, carry chains, the trace and the
  dispatcher's answers in the composition, whose steps are steps of one part and leave
  the others alone.

### Only model-checked

- Liveness under fairness (`Termination`, the fair halves of `Explores` and `LinksImages`): the
  proof system does not do it.
- The safety half of `LinksImages`: not attempted yet. It cannot hold of every file:
  TLC refutes it on a module whose sections share bytes of the file (a relocation
  goes to the first section that holds its place) and on one with a section at
  address 0 (the code takes that for a section that is absent, `rel.cpp:342`). A theorem
  has to assume that a module's sections are apart and lie off address 0, as those
  of every linked REL are; the run's modules do.
- What the emitted C does in bodies that are not `Translatable`, or with the blocks of
  `shared` and `late`: there the properties are false.

## Plan

1. *(done)* `Image`, `Analyzer`, `EmittedCode`, their runs, and the theorems above.
2. *(done)* `GuestMachine`, `GeneratedCode`: the emitted functions with their C call
   stack implement the guest's path.
3. *(done)* `Binary`, `LinkedImage`, `Loader`: loading against the image that the command
   line stands for; the region cache.
4. *(done)* `IRMachine`, `Optimizer`, and the soundness of its first pass.
5. *(done)* `CarryChain`, `GuestMemory`, `PairedSingles`, `Dispatcher`, `GuestRuntime`.
6. *(done)* `OutputDir`: runs of the tool over an existing output directory, with crashes.
7. *(done)* Proofs: all invariants of `Analyzer`, `EmittedCode`, `Optimizer`, `Loader`, `OutputDir` and
   `GuestRuntime`, `OpenCallsAreAwaited`, and the refinements of `Exploration`, `GuestMachine` and
   `ByteMemory`.
8. A proof that is left: the safety half of `LinksImages`.

## Not modelled, and why

- The decoding of instruction words and the table that lifts them, bit by bit: both
  are stateless. What they mean to control flow and to the optimizer is modelled.
- Condition register, FPSCR, rotates, masks, multiplication and division in
  `recomp_runtime.h`: formulas on one word without a sequence to get wrong.
- Floating-point and paired-single arithmetic: out of TLC's reach. Three hazards
  there have no property: `lifter.cpp:174` (`subfic` without a carry),
  `recomp_runtime.h:789` (a lane read after it was written), `emitter.cpp:257` (scalar
  results do not reach the paired lanes).
- Accesses that are not aligned at the end of memory, and DOL slots whose end in the
  file wraps around: undefined behaviour, excluded by `Aligned` and
  `SlotsEndInAddressSpace`.
- `moduleBase` and `bssBase` of `RelLoadOptions`, which `main` never sets. That a relative
  branch farther than its field is truncated without a word (`rel.cpp:226`) is
  accepted by `LinkedImage`, too.
- The bit patterns of the jump-table idiom (`analyzer.cpp:427`): roles of words.
- The parsing of command lines and environment variables, the Graphviz export, the
  printing of the trace, logging: pure I/O.
- Tests, build files and extraction scripts.
