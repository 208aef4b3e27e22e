------------------------------ MODULE Analyzer ------------------------------
(***************************************************************************)
(* Analyzer::analyze: function discovery and control-flow recovery.        *)
(*                                                                         *)
(* The analyzer seeds a set of functions from the image, then analyzes     *)
(* each one in two passes: pass 1 scans straight-line runs from the entry  *)
(* and collects every address a block must start at (the seeds), pass 2    *)
(* builds the blocks, lowest address first.  Blocks live in one map shared *)
(* by all functions: a block built for one function is reused, as it was   *)
(* cut then, by every function that reaches its address later.             *)
(*                                                                         *)
(* One step is one loop iteration of the code: a seeding phase, one        *)
(* worklist entry, one scanned run, one built block.                       *)
(*                                                                         *)
(* Definitions named Bad... are slips a change of the code could make;     *)
(* nothing uses them but the mutation runs PROJECT.json lists.             *)
(***************************************************************************)
EXTENDS Image, Sequences, FiniteSets

CONSTANTS
    Images,       \* the images considered, each with its code and references
    EntryPoint,   \* the DOL's entry point
    LocalRange    \* how far from its block a jump-table target may lie

ASSUME AnalyzerAssumption ==
    /\ Images \subseteq ImageType
    /\ EntryPoint \in Target
    /\ LocalRange \in Nat

VARIABLES
    image,      \* the image under analysis; never changes
    phase,      \* where analyze() is
    functions,  \* m_cfg.m_functions: start address |-> name and block starts
    blocks,     \* m_cfg.m_blocks: start address |-> block
    discovered, \* m_discoveredFunctions
    analyzed,   \* m_analyzedFunctions
    worklist,   \* functionWorkList, see Batch
    cur,        \* the function being analyzed (analyzeFunction's entryAddr)
    seeds,      \* pass 1: addresses a block of cur must start at
    scanQueue,  \* pass 1: seeds whose run is still to be scanned
    scanned,    \* pass 1: seeds whose run has been scanned
    pending     \* pass 2: block starts still to be built

cfgVars  == <<functions, blocks>>
workVars == <<discovered, analyzed, worklist>>
passVars == <<cur, seeds, scanQueue, scanned, pending>>
vars     == <<image, phase, cfgVars, workVars, passVars>>

Phase == {"prologues", "entry", "data", "text", "populate",
          "pop", "scan", "build", "done"}

Name      == {"fn", "entry", "main_entry", "sub"}
Generated == Name \ {"main_entry"}

Function   == [name : Name, blocks : SUBSET Target]
BasicBlock == [last : Addr, successors : SUBSET Target, jumpTable : SUBSET Target]

(***************************************************************************)
(* The code pushes sets of addresses on a FIFO in ascending order; the     *)
(* worklist is the sequence of those sets, and its front is the least      *)
(* element of the first one.                                               *)
(***************************************************************************)
Batch == (SUBSET Exec) \ {{}}

IsLeast(a, S) == a \in S /\ \A b \in S : a <= b

Push(queue, batch) == IF batch = {} THEN queue ELSE Append(queue, batch)

BadNotPopped(queue, a) == queue

WithoutFront(queue, a) ==
    IF Head(queue) = {a} THEN Tail(queue)
    ELSE <<Head(queue) \ {a}>> \o Tail(queue)

code == image.code

IsFunction(a) == a \in DOMAIN functions

TypeOK ==
    /\ image \in ImageType
    /\ phase \in Phase
    /\ DOMAIN functions \subseteq Exec
    /\ functions \in [DOMAIN functions -> Function]
    /\ DOMAIN blocks \subseteq Exec
    /\ blocks \in [DOMAIN blocks -> BasicBlock]
    /\ discovered \subseteq Exec
    /\ analyzed \subseteq Exec
    /\ worklist \in Seq(Batch)
    /\ cur \in Exec \cup {0}
    /\ phase \in {"scan", "build"} => cur \in DOMAIN functions
    /\ seeds \subseteq Target
    /\ scanQueue \in Seq(Target)
    /\ scanned \subseteq Target
    /\ pending \subseteq Target

-----------------------------------------------------------------------------
(* registerFunction, for every address of S: the CFG after it.  A name the *)
(* tool generated gives way to a later one, a given name stays.            *)
Registered(funcs, S, name) ==
    [a \in DOMAIN funcs \cup (S \cap Exec) |->
        IF a \notin DOMAIN funcs THEN [name |-> name, blocks |-> {}]
        ELSE IF a \in S /\ funcs[a].name \in Generated
             THEN [funcs[a] EXCEPT !.name = name]
             ELSE funcs[a]]

Discover(S) == discovered' = discovered \cup (S \cap Exec)

BadOverwriteBlocks(funcs, f, S) == [funcs EXCEPT ![f].blocks = S]

(* Adds the addresses of S to the block list of function f.                *)
WithBlocks(funcs, f, S) == [funcs EXCEPT ![f].blocks = @ \cup S]

-----------------------------------------------------------------------------
Init ==
    /\ image \in Images
    /\ phase = "prologues"
    /\ functions = [a \in {} |-> {}]
    /\ blocks = [a \in {} |-> {}]
    /\ discovered = {}
    /\ analyzed = {}
    /\ worklist = << >>
    /\ cur = 0
    /\ seeds = {}
    /\ scanQueue = << >>
    /\ scanned = {}
    /\ pending = {}

(* Phase 1: every prologue word of a text section, then its first word.    *)
Prologues == {a \in Exec : code[a].role = "frame" \/ IsLinkSavePrelude(code, a)}

ScanPrologues ==
    /\ phase = "prologues"
    /\ phase' = "entry"
    /\ functions' = Registered(Registered(functions, Prologues, "fn"),
                               SectionStarts, "entry")
    /\ Discover(Prologues \cup SectionStarts)
    /\ UNCHANGED <<image, blocks, analyzed, worklist, passVars>>

(* Phases 2 to 4 register one set of addresses under one name.             *)
SeedFrom(here, next, S, name) ==
    /\ phase = here
    /\ phase' = next
    /\ functions' = Registered(functions, S, name)
    /\ Discover(S)
    /\ UNCHANGED <<image, blocks, analyzed, worklist, passVars>>

DiscoverEntryPoint == SeedFrom("entry", "data", {EntryPoint}, "main_entry")

References(pointers) ==
    {a \in pointers : LooksLikeDataReferencedEntry(code, a)}

ScanDataPointers ==
    SeedFrom("data", "text", References(image.dataPointers), "sub")

ScanTextPointers ==
    SeedFrom("text", "populate", References(image.textPointers), "sub")

(* Phase 5.                                                                *)
PopulateWorklist ==
    /\ phase = "populate"
    /\ phase' = "pop"
    /\ worklist' = Push(worklist, discovered)
    /\ UNCHANGED <<image, cfgVars, discovered, analyzed, passVars>>

-----------------------------------------------------------------------------
(* The main loop takes the front of the worklist ...                       *)
Front(a) == worklist # << >> /\ IsLeast(a, Head(worklist))

SkipAnalyzed(a) ==
    /\ phase = "pop"
    /\ Front(a)
    /\ a \in analyzed
    /\ worklist' = WithoutFront(worklist, a)
    /\ UNCHANGED <<image, phase, cfgVars, discovered, analyzed, passVars>>

MarkAnalyzed(a) == analyzed' = analyzed \cup {a}

(* ... marks it analyzed and enters analyzeFunction.                       *)
BeginFunction(a) ==
    /\ phase = "pop"
    /\ Front(a)
    /\ a \notin analyzed
    /\ worklist' = WithoutFront(worklist, a)
    /\ MarkAnalyzed(a)
    /\ phase' = "scan"
    /\ cur' = a
    /\ seeds' = {a}
    /\ scanQueue' = <<a>>
    /\ scanned' = {}
    /\ pending' = {}
    /\ UNCHANGED <<image, cfgVars, discovered>>

Finish ==
    /\ phase = "pop"
    /\ worklist = << >>
    /\ phase' = "done"
    /\ UNCHANGED <<image, cfgVars, workVars, passVars>>

-----------------------------------------------------------------------------
(* The walk both passes share goes from a over plain words and stops at a  *)
(* word that cannot be read, at a branch, or before a cut: a later word at *)
(* which a block is known to start.                                        *)
IsCut(a, c, cuts)        == c # a /\ c \in cuts
EndsAtBranch(a, c, cuts) == c \in Addr /\ ~IsCut(a, c, cuts) /\ IsBranch(code[c])
StopsAt(a, c, cuts)      == c \in Addr => IsCut(a, c, cuts) \/ IsBranch(code[c])

IsRunEnd(a, c, cuts) ==
    /\ c \in a..(MaxAddr + 1)
    /\ StopsAt(a, c, cuts)
    /\ \A d \in a..(c - 1) : ~StopsAt(a, d, cuts)

(* What the branch that ends a run leads to: a function of its own when    *)
(* the target of a call looks like one, else a block of this function, and *)
(* the word after it unless it always leaves.                              *)
CalledFunctions(instr) ==
    {t \in {instr.target} : /\ instr.type = "Call"
                            /\ HasDirectTarget(instr)
                            /\ LooksLikeIndependentFunctionEntry(code, t)}

BadOnlyBranchTargets(instr) ==
    {t \in {instr.target} \cap Exec : HasDirectTarget(instr) /\ instr.type # "Call"}

LocalTargets(instr) ==
    {t \in {instr.target} \cap Exec : HasDirectTarget(instr)} \ CalledFunctions(instr)

BadNoResumeAfterCall(c) == {r \in {c + 1} : code[c].type = "ConditionalBranch"}

ResumePoints(c) ==
    {r \in {c + 1} : code[c].type \in {"Call", "ConditionalBranch"}}

-----------------------------------------------------------------------------
(* Pass 1: scan the run at the front of the queue, recording as seeds the  *)
(* cut that ended it, or what its branch leads to; new seeds are queued.   *)
ScanCuts == seeds \cup (DOMAIN functions \ {cur})

BadNotQueued(S) == << >>

Sequenced(S) == IF S = {} THEN << >> ELSE <<CHOOSE x \in S : TRUE>>

ScanRun ==
    /\ phase = "scan"
    /\ scanQueue # << >>
    /\ LET a == Head(scanQueue) IN
       \E c \in a..(MaxAddr + 1) :
          /\ IsRunEnd(a, c, ScanCuts)
          /\ LET branches == EndsAtBranch(a, c, ScanCuts)
                 targets  == IF branches THEN LocalTargets(code[c])
                             ELSE {c} \cap ScanCuts
                 resumes  == IF branches THEN ResumePoints(c) ELSE {}
                 called   == IF branches THEN CalledFunctions(code[c]) ELSE {}
             IN /\ seeds' = seeds \cup targets \cup resumes
                /\ scanQueue' = Tail(scanQueue) \o Sequenced(targets \ seeds)
                                  \o Sequenced(resumes \ (seeds \cup targets))
                /\ functions' = Registered(functions, called, "sub")
                /\ Discover(called)
          /\ scanned' = scanned \cup {a}
    /\ UNCHANGED <<image, phase, blocks, analyzed, worklist, cur, pending>>

(* Every seed is a block start of the function and is built in pass 2.     *)
BeginPass2 ==
    /\ phase = "scan"
    /\ scanQueue = << >>
    /\ phase' = "build"
    /\ functions' = WithBlocks(functions, cur, seeds)
    /\ pending' = seeds
    /\ UNCHANGED <<image, blocks, workVars, cur, seeds, scanQueue, scanned>>

-----------------------------------------------------------------------------
(* Pass 2.  analyzeBlock leaves a block that exists, or whose start is not *)
(* executable, alone.                                                      *)
BadBuildAnywhere(a) == a \notin DOMAIN blocks
Buildable(a)      == a \in Exec /\ a \notin DOMAIN blocks

SkipBlock(a) ==
    /\ phase = "build"
    /\ IsLeast(a, pending)
    /\ ~Buildable(a)
    /\ pending' = pending \ {a}
    /\ UNCHANGED <<image, phase, cfgVars, workVars, cur, seeds, scanQueue, scanned>>

BadCutAtFunctionsOnly == DOMAIN functions

BlockCuts == functions[cur].blocks \cup DOMAIN functions

(* detectLocalJumpTable: the block ends in the bctr of a switch idiom and  *)
(* starts right after the idiom's bounds check, whose conditional branch   *)
(* gives the default target.                                               *)
HasJumpTable(a, c) ==
    /\ code[c].table # {}
    /\ a - 1 \in Addr
    /\ code[a - 1].role = "guard"

JumpTargets(a, c) == code[c].table \cup {code[a - 1].target}

(* queueLocalTarget's filter.                                              *)
LocalJumpTargets(a, targets) ==
    {t \in targets \cap Exec : /\ t - a <= LocalRange
                               /\ a - t <= LocalRange
                               /\ t \notin DOMAIN functions \cup discovered}

(* Addresses whose insertion in the block list was news are queued.        *)
BadQueueNone(known, S) == {}
NewlyListed(known, S)  == S \ known

BuildBlock(a) ==
    /\ phase = "build"
    /\ IsLeast(a, pending)
    /\ Buildable(a)
    /\ \E c \in a..(MaxAddr + 1) :
         /\ IsRunEnd(a, c, BlockCuts)
         /\ LET branches == EndsAtBranch(a, c, BlockCuts)
                called == IF branches THEN CalledFunctions(code[c]) ELSE {}
                queued == IF branches THEN LocalTargets(code[c]) \cup ResumePoints(c)
                          ELSE {}
                jumps  == IF branches /\ HasJumpTable(a, c) THEN JumpTargets(a, c)
                          ELSE {}
                direct == queued \cup ({c} \cap BlockCuts \cap (a + 1)..c)
                known  == functions[cur].blocks
                local  == LocalJumpTargets(a, jumps)
            IN /\ functions' = WithBlocks(Registered(functions, called, "sub"),
                                          cur, direct \cup local)
               /\ Discover(called)
               /\ pending' = (pending \ {a}) \cup NewlyListed(known, queued \cup local)
               /\ blocks' = [s \in DOMAIN blocks \cup {a} |->
                     IF s # a THEN blocks[s]
                     ELSE [last       |-> IF branches THEN c ELSE c - 1,
                           successors |-> direct \cup (jumps \ {0}),
                           jumpTable  |-> jumps]]
    /\ UNCHANGED <<image, phase, analyzed, worklist, cur, seeds, scanQueue, scanned>>

BadForgetLateFunctions == {}
NotAnalyzed            == discovered \ analyzed

(* analyzeFunction returns; analyze() queues what is discovered but not    *)
(* analyzed, again if it was queued before.                                *)
EndFunction ==
    /\ phase = "build"
    /\ pending = {}
    /\ phase' = "pop"
    /\ worklist' = Push(worklist, NotAnalyzed)
    /\ UNCHANGED <<image, cfgVars, discovered, analyzed, passVars>>

-----------------------------------------------------------------------------
Seeding ==
    \/ ScanPrologues
    \/ DiscoverEntryPoint
    \/ ScanDataPointers
    \/ ScanTextPointers
    \/ PopulateWorklist

MainLoop ==
    \/ \E a \in Exec : SkipAnalyzed(a)
    \/ \E a \in Exec : BeginFunction(a)
    \/ Finish
    \/ ScanRun
    \/ BeginPass2
    \/ \E a \in Target : SkipBlock(a)
    \/ \E a \in Target : BuildBlock(a)
    \/ EndFunction

(* analyze() has returned.                                                 *)
Done == phase = "done" /\ UNCHANGED vars

Next == Seeding \/ MainLoop \/ Done

Spec == Init /\ [][Next]_vars

(* The code is one sequential loop: it keeps going while it has a step.    *)
FairSpec == Spec /\ WF_vars(Seeding \/ MainLoop)

-----------------------------------------------------------------------------
(* No function is forgotten: when analyze() returns, the discovered, the   *)
(* registered and the analyzed functions are the same, although functions  *)
(* are found in the middle of analyzing others and the worklist holds      *)
(* stale and duplicate entries.                                            *)
EveryFunctionAnalyzed ==
    phase = "done" => analyzed = discovered /\ DOMAIN functions = discovered

(* Pass 1 has followed every seed before pass 2 builds from them.          *)
EverySeedScanned == phase = "build" => seeds = scanned

(* A function's switch falls back to "goto label_<start>": its own start   *)
(* has to be one of its blocks, and to have been built, by whichever       *)
(* function reached it first.                                              *)
EntryLabelExists ==
    phase = "done" =>
        \A f \in DOMAIN functions :
            f \in functions[f].blocks /\ f \in DOMAIN blocks

(* Every executable address a function lists as one of its blocks has a    *)
(* block in the end, the fall-through successors included, which are       *)
(* listed without being queued.                                            *)
EveryListedBlockBuilt ==
    phase = "done" =>
        \A f \in DOMAIN functions :
            functions[f].blocks \cap Exec \subseteq DOMAIN blocks

(* No block swallows the start of a function: not of one known when it was *)
(* built, nor of one found later from a call elsewhere, for which the      *)
(* block would have to be cut after the fact.                              *)
NoBlockRunsIntoAFunction ==
    \A s \in DOMAIN blocks, f \in DOMAIN functions :
        ~(s < f /\ f <= blocks[s].last)

(* Discovery works as Exploration promises: every entry is taken up at     *)
(* most once, and it ends only when none is left.                          *)
Discovery == INSTANCE Exploration WITH
    Entries <- Exec, known <- discovered, explored <- analyzed, over <- phase = "done"
Explores == Discovery!FairSpec

(* The analysis ends, whatever loops the image's control flow has.         *)
Termination == <>(phase = "done")
=============================================================================
