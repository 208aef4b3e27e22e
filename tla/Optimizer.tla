------------------------------ MODULE Optimizer ------------------------------
(***************************************************************************)
(* Optimizer::constantPropagation on one IR block.  The first pass puts    *)
(* known constants in place of the registers an instruction reads, the     *)
(* second drops a write that is overwritten before it is read.             *)
(*                                                                         *)
(* Beside the optimizer run two machines that are not in the code: one     *)
(* executes the block as lifted, one as rewritten by the first pass.       *)
(***************************************************************************)
EXTENDS IRMachine

Fun == INSTANCE Functions

CONSTANTS
    Blocks,     \* the blocks the lifter may pass
    StartStates \* the states a block may be entered in

ASSUME BlocksAssumption ==
    /\ Blocks \subseteq Seq(IRInstruction)
    /\ StartStates \subseteq State

VARIABLES
    block,             \* block.instructions
    pass,              \* "propagate", "eliminate", "done"
    next,              \* the index of the instruction to look at
    regValues,         \* the registers whose value is known, and the value
    optimized,         \* what the first pass has produced
    finalInstructions, \* what the second pass has produced
    lastPureWrite,     \* the index of the latest pure write not read since
    input,             \* the block as lifted (not in the code)
    start,             \* the state the machines start in (not in the code)
    original,          \* the machine that executes input (not in the code)
    rewritten          \* the machine that executes optimized (not in the code)

passVars    == <<block, pass, next, regValues, optimized, finalInstructions, lastPureWrite>>
machineVars == <<input, start, original, rewritten>>
vars        == <<passVars, machineVars>>

-----------------------------------------------------------------------------
(* The tables of the optimizer.  Operands count from 1.                    *)
IsGprRegister(a) == a.kind = "gpr"

BadLoadsForgotten(i) ==
    /\ i.op \in {"SetImm", "SetReg", "Add", "Sub", "Addic", "Rlwimi", "Mfspr"}
    /\ IsGprRegister(i.args[1])
WritesAnyGprValue(i) ==
    /\ i.op \in {"SetImm", "SetReg", "Add", "Sub", "Addic", "Rlwimi", "Load32", "Mfspr"}
    /\ IsGprRegister(i.args[1])

WritesPureGprValue(i) ==
    /\ i.op \in {"SetImm", "SetReg", "Add", "Sub", "Addic", "Rlwimi"}
    /\ IsGprRegister(i.args[1])

WrittenGpr(i)     == IF WritesAnyGprValue(i) THEN {i.args[1].value} ELSE {}
WrittenPureGpr(i) == IF WritesPureGprValue(i) THEN {i.args[1].value} ELSE {}

BadAddressesOnly(i, k) == i.op \notin {"SetImm", "Mfspr"} /\ k > 1
OperandIsRead(i, k) ==
    CASE i.op \in {"SetImm", "Mfspr"}   -> FALSE
      [] i.op = "Rlwimi"                -> k <= 5
      [] i.op = "Store32"               -> k <= 3
      [] i.op \in {"Lmw", "Stmw", "Mtspr"} -> k = 2
      [] i.op = "Cmp"                   -> k \in {2, 3}
      [] i.op = "BranchTable"           -> k = 1
      [] OTHER                          -> k > 1

CollectReadGprs(i) ==
    {i.args[k].value : k \in {j \in DOMAIN i.args :
                                OperandIsRead(i, j) /\ IsGprRegister(i.args[j])}}

-----------------------------------------------------------------------------
(* The first pass.  The destination of a read-modify-write stays.          *)
IsKnown(i, k) ==
    /\ OperandIsRead(i, k)
    /\ ~(k = 1 /\ WritesAnyGprValue(i))
    /\ IsGprRegister(i.args[k])
    /\ i.args[k].value \in DOMAIN regValues

Constant(w) == [kind |-> "imm", value |-> w]

PropagateKnownConstants(i) ==
    [i EXCEPT !.args = [k \in DOMAIN i.args |->
        IF IsKnown(i, k) THEN Constant(regValues[i.args[k].value]) ELSE i.args[k]]]

SetImm(dest, w) == [op |-> "SetImm", args |-> <<dest, Constant(w)>>]

BadFoldWithoutWrap(i) ==
    IF i.op = "Add" /\ i.args[2].kind = "imm" /\ i.args[3].kind = "imm"
    THEN SetImm(i.args[1], i.args[2].value + i.args[3].value) ELSE i
FoldSimpleConstants(i) ==
    CASE i.op = "Add" /\ i.args[2].kind = "imm" /\ i.args[3].kind = "imm" ->
           SetImm(i.args[1], (i.args[2].value + i.args[3].value) % Modulus)
      [] i.op = "SetReg" /\ i.args[1].kind = "gpr" /\ i.args[2].kind = "imm" ->
           SetImm(i.args[1], i.args[2].value)
      [] OTHER -> i

Without(f, S) == Fun!Restrict(f, DOMAIN f \ S)

With(f, x, y) == [z \in DOMAIN f \cup {x} |-> IF z = x THEN y ELSE f[z]]

BadKeepKnown(i) ==
    IF i.op = "SetImm" THEN With(regValues, i.args[1].value, i.args[2].value) ELSE regValues
KnownAfter(i) ==
    IF i.op = "SetImm"
    THEN With(regValues, i.args[1].value, i.args[2].value)
    ELSE Without(regValues, WrittenGpr(i))

Propagate ==
    /\ pass = "propagate"
    /\ next <= Len(block)
    /\ LET i == FoldSimpleConstants(PropagateKnownConstants(block[next])) IN
         /\ regValues' = KnownAfter(i)
         /\ optimized' = Append(optimized, i)
         /\ rewritten' = Exec(rewritten, i)
    /\ original' = Exec(original, block[next])
    /\ next' = next + 1
    /\ UNCHANGED <<block, pass, finalInstructions, lastPureWrite, input, start>>

BeginElimination ==
    /\ pass = "propagate"
    /\ next > Len(block)
    /\ pass' = "eliminate"
    /\ next' = 1
    /\ UNCHANGED <<block, regValues, optimized, finalInstructions, lastPureWrite, machineVars>>

-----------------------------------------------------------------------------
(* The second pass.                                                        *)
None(i) == [i EXCEPT !.op = "None"]

BadStaleAcrossReads(i) == lastPureWrite
Pending(i) == Without(lastPureWrite, CollectReadGprs(i))

(* The writes that i makes superfluous: of what it writes, not yet read.   *)
Overwritten(i) == {lastPureWrite[r] : r \in WrittenGpr(i) \cap DOMAIN Pending(i)}

Eliminate ==
    /\ pass = "eliminate"
    /\ next <= Len(optimized)
    /\ LET i == optimized[next] IN
         /\ finalInstructions' =
              Append([k \in DOMAIN finalInstructions |->
                        IF k \in Overwritten(i) THEN None(finalInstructions[k])
                                                ELSE finalInstructions[k]], i)
         /\ lastPureWrite' =
              [r \in DOMAIN Without(Pending(i), WrittenGpr(i)) \cup WrittenPureGpr(i) |->
                 IF r \in WrittenPureGpr(i) THEN Len(finalInstructions) + 1
                                            ELSE lastPureWrite[r]]
    /\ next' = next + 1
    /\ UNCHANGED <<block, pass, regValues, optimized, machineVars>>

IsKept(i) == i.op # "None"

(* What is kept of a sequence of instructions.                             *)
Compacted(s) ==
    LET kept[k \in 0..Len(s)] ==
            IF k = 0 THEN << >>
            ELSE IF IsKept(s[k]) THEN Append(kept[k - 1], s[k]) ELSE kept[k - 1]
    IN  kept[Len(s)]

Rebuild ==
    /\ pass = "eliminate"
    /\ next > Len(optimized)
    /\ pass' = "done"
    /\ block' = Compacted(finalInstructions)
    /\ UNCHANGED <<next, regValues, optimized, finalInstructions, lastPureWrite, machineVars>>

-----------------------------------------------------------------------------
Init ==
    /\ block \in Blocks
    /\ pass = "propagate"
    /\ next = 1
    /\ regValues = << >>
    /\ optimized = << >>
    /\ finalInstructions = << >>
    /\ lastPureWrite = << >>
    /\ input = block
    /\ start \in StartStates
    /\ original = start
    /\ rewritten = start

Next == Propagate \/ BeginElimination \/ Eliminate \/ Rebuild

Spec == Init /\ [][Next]_vars

-----------------------------------------------------------------------------
TypeOK ==
    /\ block \in Seq(IRInstruction)
    /\ pass \in {"propagate", "eliminate", "done"}
    /\ next \in Nat \ {0}
    /\ DOMAIN regValues \subseteq Reg
    /\ \A r \in DOMAIN regValues : regValues[r] \in Word
    /\ optimized \in Seq(IRInstruction)
    /\ Len(finalInstructions) = IF pass = "propagate" THEN 0 ELSE next - 1
    /\ DOMAIN lastPureWrite \subseteq Reg
    /\ \A r \in DOMAIN lastPureWrite : lastPureWrite[r] \in DOMAIN finalInstructions
    /\ input \in Seq(IRInstruction)
    /\ start \in State
    /\ DOMAIN original.gpr = Reg
    /\ DOMAIN rewritten.gpr = Reg

(* The optimizer's tables say of i at least what the emitter makes of it:  *)
(* every register the C assigns is listed as written, every register it    *)
(* reads as read, and what counts as a pure write changes nothing else.    *)
TablesCover(i) ==
    /\ Assigned(i) \subseteq WrittenGpr(i)
    /\ Used(i) \subseteq CollectReadGprs(i)
    /\ WritesPureGprValue(i) => IsPure(i)

Covered == \A b \in Blocks : \A k \in DOMAIN b : TablesCover(b[k])

(* Operations for which the tables are complete.                           *)
TabledOps == {"SetImm", "SetReg", "Add", "Sub", "Rlwimi", "Load32", "Mfspr", "Store32",
              "Cmp", "Mtspr", "LoadFloat", "BranchTable"}

(* What the first pass takes for the value of a register is its value in   *)
(* the program as lifted.                                                  *)
KnownValuesAreCurrent ==
    pass = "propagate" => \A r \in DOMAIN regValues : original.gpr[r] = regValues[r]

(* Replacing and folding constants does not change what the block does,    *)
(* at any point of it.  A test says of loads that constants are cleared    *)
(* (testOptimizerClearsConstantsAfterLoadClobbers).                        *)
RewrittenAgrees == rewritten = original

(* The states that a sequence of instructions leads through from s.        *)
Step(s, i) == IF IsKept(i) THEN Exec(s, i) ELSE s

States(s, instructions) ==
    LET after[k \in 0..Len(instructions)] ==
            IF k = 0 THEN s ELSE Step(after[k - 1], instructions[k])
    IN  after

Run(s, instructions) == States(s, instructions)[Len(instructions)]

Agree(s, t, S) == s.rest = t.rest /\ \A r \in S : s.gpr[r] = t.gpr[r]

(* A write that the second pass holds for removable may be taken out: only *)
(* its own register tells the difference, also when all of them go.        *)
PendingWritesAreUnread ==
    pass = "eliminate" =>
        \A R \in SUBSET DOMAIN lastPureWrite :
            LET kept == [k \in DOMAIN finalInstructions |->
                           IF \E r \in R : lastPureWrite[r] = k
                           THEN None(finalInstructions[k]) ELSE finalInstructions[k]]
            IN  Agree(Run(start, kept), Run(start, SubSeq(optimized, 1, next - 1)), Reg \ R)

(* The block that is handed to the emitter does what the lifted block does. *)
OptimizedAgrees ==
    pass = "done" => Run(start, block) = original

(* The comment in propagateKnownConstants: an operand that is also a       *)
(* destination stays a register, "so the emitter can still write back to   *)
(* the correct GPR".                                                       *)
DestinationsStayRegisters ==
    \A k \in DOMAIN optimized :
        optimized[k].op = "LoadFloatXU" => IsGprRegister(optimized[k].args[2])
=============================================================================
