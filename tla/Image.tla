------------------------------- MODULE Image -------------------------------
(***************************************************************************)
(* The program image the analyzer reads: a loaded DOL (and its RELs), as   *)
(* the disassembler presents it.                                           *)
(*                                                                         *)
(* An address counts instruction words: address a stands for the guest     *)
(* address base + 4 * a, and 0 is the guest address 0, which the analyzer  *)
(* takes to mean "no target".  An instruction keeps what control flow      *)
(* needs of it: its InstructionType, its direct target (0 when it has      *)
(* none, or when it goes through LR or CTR), its role in a prologue, and,  *)
(* for a bctr that ends a switch idiom, the addresses its table holds.     *)
(***************************************************************************)
EXTENDS Integers

CONSTANTS
    MaxAddr,        \* the last word of the image; every later one is unreadable
    Exec,           \* the addresses inside text sections (Binary::isExecutable)
    SectionStarts   \* the first address of each text section

ASSUME ImageAssumption ==
    /\ MaxAddr \in Nat \ {0}
    /\ Exec \subseteq 1..MaxAddr
    /\ SectionStarts \subseteq Exec
    /\ \A a \in Exec : a - 1 \notin Exec => a \in SectionStarts

Addr   == 1..MaxAddr
Target == 0..(MaxAddr + 1)

InstructionType == {"Unknown", "Branch", "Call", "ConditionalBranch", "Return"}

(***************************************************************************)
(* What one word disassembles to.  "role" tells stwu r1,-n(r1) ("frame"),  *)
(* mflr r0 ("mflr") and the bounds check cmplwi; bgt of a switch ("guard", *)
(* the pair counts as one conditional branch) from other words; "table" is *)
(* the content of the jump table a bctr goes through, {} for every other   *)
(* instruction.  "via" names the register a branch goes through.  "link"   *)
(* is isLink: a conditional branch with link (bcl, bclrl, bcctrl) keeps    *)
(* it, but only an unconditional one has the type Call.  A word that is no *)
(* branch keeps what disassemble() starts from: no target, register, link. *)
(***************************************************************************)
Instruction ==
    {i \in [type   : InstructionType,
            target : Target,
            via    : {"none", "lr", "ctr"},
            link   : BOOLEAN,
            role   : {"plain", "frame", "mflr", "guard", "unframe"},
            table  : SUBSET Target] :
        /\ i.type = "Unknown" => i.target = 0 /\ i.via = "none"
        /\ i.type # "ConditionalBranch" => i.link = (i.type = "Call")}

Code == [Addr -> Instruction]

(* The words, and the text addresses that the data sections hold and that  *)
(* instruction pairs build, normalized to the cached address space.        *)
ImageType == [code : Code, dataPointers : SUBSET Target, textPointers : SUBSET Target]

IsBranch(instr)        == instr.type # "Unknown"
HasDirectTarget(instr) == instr.target # 0 /\ instr.via = "none"

(* A frame prologue among the next three words, all of them executable.    *)
HasNearbyStackFramePrologue(code, a) ==
    \E d \in 0..2 :
        /\ \A e \in 0..d : a + e \in Exec
        /\ code[a + d].role = "frame"

IsLinkSavePrelude(code, a) ==
    /\ a \in Exec
    /\ code[a].role = "mflr"
    /\ HasNearbyStackFramePrologue(code, a)

BadAnyPredecessor(code, a) == TRUE

(* Nothing flows into a from the word before it.                           *)
FollowsBoundary(code, a) ==
    \/ a - 1 \notin Exec
    \/ IsBranch(code[a - 1])

(* May a word of data, or an address built by lis/addi, name a function?   *)
LooksLikeDataReferencedEntry(code, a) ==
    /\ a \in Exec
    /\ \/ HasNearbyStackFramePrologue(code, a)
       \/ a \in SectionStarts
       \/ code[a].type \in {"Return", "Branch"}
       \/ FollowsBoundary(code, a)

(* Is the target of a direct call a function of its own?                   *)
LooksLikeIndependentFunctionEntry(code, a) ==
    /\ a \in Exec
    /\ \/ code[a].role = "frame"
       \/ a \in SectionStarts
       \/ FollowsBoundary(code, a)
=============================================================================
