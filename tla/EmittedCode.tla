---------------------------- MODULE EmittedCode ----------------------------
(***************************************************************************)
(* What Emitter::emitFunction and Analyzer::emitAllFunctions write from    *)
(* the finished CFG: for each function the labels of its C body, in        *)
(* address order, the labels its gotos name, and the dispatch table that   *)
(* call_by_addr searches.                                                  *)
(*                                                                         *)
(* A C body has no jump at the end of a block that falls through, makes a  *)
(* call or takes a conditional branch: control runs on into the next       *)
(* label.  The properties say when that is where the guest would go.       *)
(***************************************************************************)
EXTENDS Analyzer

(* The word that ends a block.                                             *)
End(b) == code[blocks[b].last]

DirectTargets(b) == {t \in {End(b).target} : HasDirectTarget(End(b))}

(* Where the guest continues when a block does not leave by its branch.    *)
Continuation(b) == blocks[b].last + 1

-----------------------------------------------------------------------------
(* emitFunction's label set: the listed blocks that exist, then the jump   *)
(* targets that are not listed, with everything reachable from those.      *)
Listed(f) == functions[f].blocks \cap DOMAIN blocks

JumpTableTargets(f) == UNION {blocks[b].jumpTable : b \in Listed(f)}

IsClosed(f, S) ==
    /\ Listed(f) \cup (JumpTableTargets(f) \cap DOMAIN blocks) \subseteq S
    /\ \A b \in S \ Listed(f) : blocks[b].successors \cap DOMAIN blocks \subseteq S

EmittedBlocks(f) ==
    CHOOSE S \in SUBSET DOMAIN blocks :
        IsClosed(f, S) /\ \A T \in SUBSET S : IsClosed(f, T) => T = S

(* A direct call to one of the labels E sets lr and becomes a goto; the    *)
(* returns of the body switch over the words after those calls.            *)
IsLocalCall(E, b) == End(b).type = "Call" /\ DirectTargets(b) \cap E # {}

LocalResumeTargets(E) == {Continuation(b) : b \in {s \in E : IsLocalCall(E, s)}}

SwitchesOnLr(b) == End(b).via = "lr" /\ End(b).type # "Call"

(* Every label a goto of the body names: in the entry switch and its       *)
(* default, in transfers to a label, in the resume switches.               *)
GotoTargets(f) ==
    LET E == EmittedBlocks(f) IN
    E \cup {f}
      \cup ((UNION {DirectTargets(b) \cup blocks[b].jumpTable : b \in E}) \cap E)
      \cup (IF \E b \in E : SwitchesOnLr(b) THEN LocalResumeTargets(E) ELSE {})

(* Does control run off the end of block b's statements?  Calls that are   *)
(* not local do when call_by_addr returns.                                 *)
FallsThrough(E, b) ==
    \/ End(b).type \in {"Unknown", "ConditionalBranch"}
    \/ End(b).type = "Call" /\ ~IsLocalCall(E, b)

IsNextLabel(E, b, n) == n \in E /\ n > b /\ \A x \in E : x > b => n <= x

-----------------------------------------------------------------------------
(* emitAllFunctions' dispatchTargets: a function's start belongs to it,    *)
(* any other listed block to the first function that lists it.             *)
Lister(a, f) ==
    /\ f \in DOMAIN functions
    /\ a \in functions[f].blocks
    /\ \A g \in DOMAIN functions : a \in functions[g].blocks => f <= g

Dispatched == (UNION {functions[f].blocks : f \in DOMAIN functions}) \cup DOMAIN functions

BadNearestFunction ==
    [a \in Dispatched |->
        CHOOSE f \in DOMAIN functions \cup {0} :
            f <= a /\ \A g \in DOMAIN functions : g <= a => g <= f]

DispatchTargets ==
    [a \in Dispatched |->
        IF IsFunction(a) THEN a ELSE CHOOSE f \in DOMAIN functions : Lister(a, f)]

-----------------------------------------------------------------------------
(* call_by_addr sets pc to the address it looked up and enters the         *)
(* function the table names, whose switch goes to the label of pc or, by   *)
(* default, to the function's first block: an executable address the table *)
(* holds must have a label in that very function.                          *)
DispatchLandsOnLabel ==
    phase = "done" =>
        \A a \in Dispatched \cap Exec : a \in EmittedBlocks(DispatchTargets[a])

(* A direct transfer to executable code that is not a goto goes through    *)
(* call_by_addr, which drops addresses the table does not hold.            *)
TransfersResolve ==
    phase = "done" =>
        \A f \in DOMAIN functions : \A b \in EmittedBlocks(f) :
            DirectTargets(b) \cap Exec \subseteq EmittedBlocks(f) \cup Dispatched

(* No goto names a label the body does not define.                         *)
NoGotoToMissingLabel ==
    phase = "done" =>
        \A f \in DOMAIN functions : GotoTargets(f) \subseteq EmittedBlocks(f)

FallThroughIsNext(f) ==
    LET E == EmittedBlocks(f) IN
    \A b \in E :
        FallsThrough(E, b) /\ Continuation(b) \in Exec => IsNextLabel(E, b, Continuation(b))

SharesNoBlock(f) ==
    \A g \in DOMAIN functions \ {f} : Listed(f) \cap Listed(g) = {}

Overlap(f) ==
    \E b \in EmittedBlocks(f), c \in EmittedBlocks(f) : b < c /\ c <= blocks[b].last

(* A return after a local call resumes behind the call, in this body, if   *)
(* there is code: in the bodies without a jump table, whoever built their  *)
(* blocks, and in those that share no block.  A jump table may lead a body *)
(* to a block that another function built: pass 2 of this one then leaves  *)
(* the block alone and never lists the word after its call.                *)
ResumeLabelsExist ==
    phase = "done" =>
        \A f \in DOMAIN functions :
            JumpTableTargets(f) = {} \/ SharesNoBlock(f)
              => LocalResumeTargets(EmittedBlocks(f)) \cap Exec \subseteq EmittedBlocks(f)

(* Where control runs off a block, the next label in address order is the  *)
(* word the guest executes next: none is skipped, none runs twice.  Of the *)
(* functions that share no block with another, this holds when pass 1 saw  *)
(* all the code, or when what a jump table revealed cuts no emitted block: *)
(* pass 2 splits no finished block, and the targets too far away to be     *)
(* listed bring blocks that nobody cut for this body.                      *)
FallThroughReachesNextWord ==
    phase = "done" =>
        \A f \in DOMAIN functions :
            SharesNoBlock(f) /\ (JumpTableTargets(f) = {} \/ ~Overlap(f))
              => FallThroughIsNext(f)

(* The same without the last condition: pass 2 is said to be "allowing new *)
(* block starts to be discovered while analyzing jump tables and           *)
(* intra-function branches" (analyzer.cpp:1256).  The code does not split  *)
(* the finished block such a start lies in, which then runs into it.       *)
LateBlockStartsAreHonoured ==
    phase = "done" =>
        \A f \in DOMAIN functions : SharesNoBlock(f) => FallThroughIsNext(f)

(* A function lists every place its listed blocks lead to: pass 1 is to    *)
(* "Identify all branch targets and block starts within reachable code"    *)
(* (analyzer.cpp:1180).  The code does not, when a block it reuses was cut *)
(* at a block start of the function that built it.                         *)
EveryReachedBlockListed ==
    phase = "done" =>
        \A f \in DOMAIN functions : \A b \in Listed(f) :
            blocks[b].successors \cap Exec \subseteq functions[f].blocks
=============================================================================
