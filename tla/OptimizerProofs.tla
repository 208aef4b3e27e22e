--------------------------- MODULE OptimizerProofs ---------------------------
(***************************************************************************)
(* For every block whose instructions the optimizer's tables describe, and *)
(* whatever the operations compute, constant propagation preserves what    *)
(* the block does, at every point of it; the elimination of writes that    *)
(* nobody reads preserves what the propagated block does.                  *)
(***************************************************************************)
EXTENDS Optimizer, WellFoundedInduction, TLAPS

(* What the first pass knows is true of state s.                           *)
Known(s) == \A r \in DOMAIN regValues : r \in Reg /\ s.gpr[r] = regValues[r]

(* The instruction with known constants in place of registers.             *)
LEMMA PropagatedShape ==
    ASSUME NEW i \in IRInstruction
    PROVE  /\ PropagateKnownConstants(i).op = i.op
           /\ DOMAIN PropagateKnownConstants(i).args = DOMAIN i.args
           /\ \A k \in DOMAIN i.args :
                /\ IsKnown(i, k) => PropagateKnownConstants(i).args[k]
                                      = Constant(regValues[i.args[k].value])
                /\ ~IsKnown(i, k) => PropagateKnownConstants(i).args[k] = i.args[k]
    BY DEF PropagateKnownConstants, IRInstruction

(* A replaced operand has the value of the register it replaces.           *)
LEMMA PropagatedValues ==
    ASSUME NEW i \in IRInstruction, NEW s, Known(s),
           NEW k \in DOMAIN i.args
    PROVE  ValueOf(s, PropagateKnownConstants(i).args[k]) = ValueOf(s, i.args[k])
<1>1. CASE IsKnown(i, k)
  <2>1. PropagateKnownConstants(i).args[k] = Constant(regValues[i.args[k].value])
    BY <1>1, PropagatedShape
  <2>2. i.args[k].kind = "gpr" /\ i.args[k].value \in DOMAIN regValues
    BY <1>1 DEF IsKnown, IsGprRegister
  <2> QED BY <2>1, <2>2 DEF Known, ValueOf, Constant
<1>2. CASE ~IsKnown(i, k)
  BY <1>2, PropagatedShape
<1> QED BY <1>1, <1>2

(* The first operand stays where an instruction assigns or stores by it.   *)
LEMMA FirstOperand ==
    ASSUME NEW i \in IRInstruction
    PROVE  /\ 1 \in DOMAIN i.args
           /\ i.op \in HasResult \cup {"Rlwimi", "Lmw", "Stmw"} => ~IsKnown(i, 1)
           /\ i.op = "LoadFloatXU" => 2 \in DOMAIN i.args
           /\ i.op \in {"SetImm", "Mfspr", "Add", "Sub", "Addic", "Neg", "Adde",
                        "Rlwimi", "Load32", "Lmw", "Stmw"} => i.args[1] \in Gpr
<1>1. i.op \in IROp /\ i.args \in Args(i.op)
  BY DEF IRInstruction
<1>2. 1 \in DOMAIN i.args /\ (i.op = "LoadFloatXU" => 2 \in DOMAIN i.args)
  BY <1>1 DEF IROp, Args
<1>3. i.op \in {"SetImm", "Mfspr", "Add", "Sub", "Addic", "Neg", "Adde",
                "Rlwimi", "Load32", "Lmw", "Stmw"} => i.args[1] \in Gpr
  BY <1>1 DEF Args
<1>4. i.op \in HasResult \cup {"Lmw", "Stmw"} => ~OperandIsRead(i, 1)
  BY DEF HasResult, OperandIsRead
<1>5. i.op = "Rlwimi" => WritesAnyGprValue(i)
  BY <1>3 DEF WritesAnyGprValue, IsGprRegister, Gpr
<1> QED BY <1>2, <1>3, <1>4, <1>5 DEF IsKnown

(* Propagation leaves alone what is assigned, stored, and read.            *)
LEMMA PropagatedEffect ==
    ASSUME NEW i \in IRInstruction, TablesCover(i), NEW s, Known(s),
           NEW p, p = PropagateKnownConstants(i)
    PROVE  /\ Assigned(p) = Assigned(i)
           /\ StoredRegs(p) = StoredRegs(i)
           /\ IsPure(p) <=> IsPure(i)
           /\ Inputs(s, p) = Inputs(s, i)
<1>1. p.op = i.op /\ DOMAIN p.args = DOMAIN i.args
  BY PropagatedShape
<1>2. i.op \in HasResult \cup {"Rlwimi", "Lmw", "Stmw"} => p.args[1] = i.args[1]
  BY FirstOperand, PropagatedShape
<1>3. i.op = "LoadFloatXU" => {p.args[2].value} \cap Reg = {i.args[2].value} \cap Reg
  <2> SUFFICES ASSUME i.op = "LoadFloatXU"
               PROVE  {p.args[2].value} \cap Reg = {i.args[2].value} \cap Reg
    OBVIOUS
  <2>1. WrittenGpr(i) = {}
    BY DEF WrittenGpr, WritesAnyGprValue
  <2>2. i.args[2].value \notin Reg
    BY <2>1 DEF TablesCover, Assigned
  <2>3. ~IsKnown(i, 2)
    BY <2>2 DEF Known, IsKnown
  <2> QED BY <2>3, FirstOperand, PropagatedShape
<1>4. Assigned(p) = Assigned(i)
  BY <1>1, <1>2, <1>3 DEF Assigned, HasResult
<1>5. StoredRegs(p) = StoredRegs(i)
  BY <1>1, <1>2 DEF StoredRegs
<1>6. IsPure(p) <=> IsPure(i)
  BY <1>1, <1>2 DEF IsPure, HasResult
<1>7. Inputs(s, p) = Inputs(s, i)
  <2>1. InputPositions(p) = InputPositions(i) /\ InputPositions(i) \subseteq DOMAIN i.args
    BY <1>1 DEF InputPositions
  <2>2. \A k \in InputPositions(i) : ValueOf(s, p.args[k]) = ValueOf(s, i.args[k])
    BY <2>1, PropagatedValues
  <2> QED BY <2>1, <2>2 DEF Inputs
<1> QED BY <1>4, <1>5, <1>6, <1>7

LEMMA PropagatedResult ==
    ASSUME NEW i \in IRInstruction, TablesCover(i), NEW s, Known(s),
           NEW p, p = PropagateKnownConstants(i),
           NEW r \in Assigned(i)
    PROVE  Result(s, p, r) = Result(s, i, r)
<1>1. p.op = i.op
  BY PropagatedShape
<1>2. Inputs(s, p) = Inputs(s, i) /\ Stored(s, p) = Stored(s, i)
  BY PropagatedEffect DEF Stored
<1>3. \A k \in DOMAIN i.args : ValueOf(s, p.args[k]) = ValueOf(s, i.args[k])
  BY PropagatedValues
<1>4. /\ i.op \in {"SetImm", "SetReg", "Add", "LoadFloatXU"} => 2 \in DOMAIN i.args
      /\ i.op \in {"Add", "LoadFloatXU"} => 3 \in DOMAIN i.args
  BY DEF IRInstruction, Args
<1>5. CASE i.op \in {"SetImm", "SetReg"}
  BY <1>1, <1>3, <1>4, <1>5 DEF Result
<1>6. CASE i.op \in {"Add", "LoadFloatXU"}
  BY <1>1, <1>3, <1>4, <1>6 DEF Result, Sum
<1>7. CASE i.op \notin {"SetImm", "SetReg", "Add", "LoadFloatXU"}
  BY <1>1, <1>2, <1>7 DEF Result
<1> QED BY <1>5, <1>6, <1>7

LEMMA PropagationIsInvisible ==
    ASSUME NEW i \in IRInstruction, TablesCover(i), NEW s, Known(s)
    PROVE  Exec(s, PropagateKnownConstants(i)) = Exec(s, i)
<1> DEFINE p == PropagateKnownConstants(i)
<1>1. p.op = i.op
  BY PropagatedShape
<1>2. /\ Assigned(p) = Assigned(i)
      /\ IsPure(p) <=> IsPure(i)
      /\ Inputs(s, p) = Inputs(s, i)
      /\ Stored(s, p) = Stored(s, i)
  BY PropagatedEffect DEF Stored
<1>3. \A r \in Assigned(i) : Result(s, p, r) = Result(s, i, r)
  BY PropagatedResult
<1> HIDE DEF p
<1>4. [r \in Reg |-> IF r \in Assigned(p) THEN Result(s, p, r) ELSE s.gpr[r]]
        = [r \in Reg |-> IF r \in Assigned(i) THEN Result(s, i, r) ELSE s.gpr[r]]
  BY <1>2, <1>3
<1> QED BY <1>1, <1>2, <1>4 DEF Exec, p

-----------------------------------------------------------------------------
(* Folding an instruction with constant operands.                          *)
LEMMA FoldingIsInvisible ==
    ASSUME NEW i, i.op = "Add" => i.args[1].kind = "gpr", NEW s
    PROVE  Exec(s, FoldSimpleConstants(i)) = Exec(s, i)
<1>1. CASE i.op = "Add" /\ i.args[2].kind = "imm" /\ i.args[3].kind = "imm"
  <2>1. FoldSimpleConstants(i)
          = SetImm(i.args[1], (i.args[2].value + i.args[3].value) % Modulus)
    BY <1>1 DEF FoldSimpleConstants
  <2> DEFINE w == (i.args[2].value + i.args[3].value) % Modulus
             j == SetImm(i.args[1], w)
  <2>2. Assigned(i) = {i.args[1].value} /\ \A r : Result(s, i, r) = w
    BY <1>1 DEF Assigned, HasResult, Result, Sum, ValueOf
  <2>3. Assigned(j) = {i.args[1].value} /\ \A r : Result(s, j, r) = w
    BY <1>1 DEF Assigned, HasResult, Result, SetImm, Constant, ValueOf
  <2>4. IsPure(i) /\ IsPure(j)
    BY <1>1 DEF IsPure, SetImm
  <2> HIDE DEF w, j
  <2>5. Exec(s, j) = Exec(s, i)
    BY <2>2, <2>3, <2>4 DEF Exec
  <2> QED BY <2>1, <2>5 DEF w, j
<1>2. CASE i.op = "SetReg" /\ i.args[1].kind = "gpr" /\ i.args[2].kind = "imm"
  <2>1. FoldSimpleConstants(i) = SetImm(i.args[1], i.args[2].value)
    BY <1>2 DEF FoldSimpleConstants
  <2> DEFINE j == SetImm(i.args[1], i.args[2].value)
  <2>2. Assigned(i) = {i.args[1].value} /\ \A r : Result(s, i, r) = i.args[2].value
    BY <1>2 DEF Assigned, HasResult, Result, ValueOf
  <2>3. Assigned(j) = {i.args[1].value} /\ \A r : Result(s, j, r) = i.args[2].value
    BY <1>2 DEF Assigned, HasResult, Result, SetImm, Constant, ValueOf
  <2>4. IsPure(i) /\ IsPure(j)
    BY <1>2 DEF IsPure, SetImm
  <2> HIDE DEF j
  <2>5. Exec(s, j) = Exec(s, i)
    BY <2>2, <2>3, <2>4 DEF Exec
  <2> QED BY <2>1, <2>5 DEF j
<1>3. CASE /\ ~(i.op = "Add" /\ i.args[2].kind = "imm" /\ i.args[3].kind = "imm")
           /\ ~(i.op = "SetReg" /\ i.args[1].kind = "gpr" /\ i.args[2].kind = "imm")
  BY <1>3 DEF FoldSimpleConstants
<1> QED BY <1>1, <1>2, <1>3

(* What the first pass makes of an instruction.                            *)
Rewrite(i) == FoldSimpleConstants(PropagateKnownConstants(i))

LEMMA RewritingIsInvisible ==
    ASSUME NEW i \in IRInstruction, TablesCover(i), NEW s, Known(s)
    PROVE  Exec(s, Rewrite(i)) = Exec(s, i)
<1> DEFINE p == PropagateKnownConstants(i)
<1>1. p.op = "Add" => p.args[1].kind = "gpr"
  <2> SUFFICES ASSUME p.op = "Add" PROVE p.args[1].kind = "gpr"
    OBVIOUS
  <2>1. i.op = "Add"
    BY PropagatedShape
  <2>2. i.args[1] \in Gpr /\ p.args[1] = i.args[1]
    BY <2>1, FirstOperand, PropagatedShape DEF HasResult
  <2> QED BY <2>2 DEF Gpr
<1>2. Exec(s, p) = Exec(s, i)
  BY PropagationIsInvisible
<1> HIDE DEF p
<1>3. Exec(s, FoldSimpleConstants(p)) = Exec(s, p)
  BY <1>1, FoldingIsInvisible
<1> QED BY <1>2, <1>3 DEF Rewrite, p

(* What is known after an instruction is true of the state after it.       *)
LEMMA KnowledgeIsKept ==
    ASSUME NEW i \in IRInstruction, TablesCover(i), NEW s, Known(s),
           NEW r \in DOMAIN KnownAfter(Rewrite(i))
    PROVE  r \in Reg /\ Exec(s, Rewrite(i)).gpr[r] = KnownAfter(Rewrite(i))[r]
<1> DEFINE p == PropagateKnownConstants(i)
           j == Rewrite(i)
<1>1. /\ p.op = i.op
      /\ i.op \in HasResult \cup {"Rlwimi", "Lmw", "Stmw"} => p.args[1] = i.args[1]
  BY PropagatedShape, FirstOperand
<1>2. CASE j.op = "SetImm"
  <2>1. /\ j.args[1].kind = "gpr" /\ j.args[1].value \in Reg
        /\ j.args[2].kind # "gpr"
    <3>1. CASE i.op = "SetImm"
      <4>1. i.args[1] \in Gpr /\ i.args[2] \in Imm /\ 2 \in DOMAIN i.args
        BY <3>1 DEF IRInstruction, Args
      <4>2. ~IsKnown(i, 2)
        BY <4>1 DEF IsKnown, IsGprRegister, Imm
      <4>3. j = p /\ p.args[2] = i.args[2]
        BY <1>1, <3>1, <4>1, <4>2, PropagatedShape DEF Rewrite, FoldSimpleConstants
      <4> QED BY <1>1, <3>1, <4>1, <4>3 DEF HasResult, Gpr, Imm
    <3>2. CASE i.op # "SetImm"
      <4>1. j # p
        BY <1>1, <1>2, <3>2
      <4>2. \/ /\ i.op = "Add"
               /\ \E w : j = SetImm(p.args[1], w)
            \/ /\ i.op = "SetReg" /\ p.args[1].kind = "gpr"
               /\ \E w : j = SetImm(p.args[1], w)
        BY <4>1, <1>1 DEF Rewrite, FoldSimpleConstants
      <4>3. i.op \in {"Add", "SetReg"} /\ p.args[1] = i.args[1]
        BY <4>2, <1>1 DEF HasResult
      <4>4. p.args[1].kind = "gpr" => p.args[1].value \in Reg
        <5>1. i.args[1] \in Gpr \cup Fpr
          BY <4>3 DEF IRInstruction, Args
        <5> QED BY <4>3, <5>1 DEF Gpr, Fpr
      <4>5. p.args[1].kind = "gpr"
        BY <4>2, <4>3, FirstOperand DEF Gpr
      <4> QED BY <4>2, <4>4, <4>5 DEF SetImm, Constant
    <3> QED BY <3>1, <3>2
  <2>2. Assigned(j) = {j.args[1].value}
    BY <1>2, <2>1 DEF Assigned, HasResult
  <2>3. Result(s, j, j.args[1].value) = j.args[2].value
    BY <1>2, <2>1 DEF Result, ValueOf
  <2>4. KnownAfter(j) = With(regValues, j.args[1].value, j.args[2].value)
    BY <1>2 DEF KnownAfter
  <2> HIDE DEF j
  <2>5. r \in DOMAIN regValues \cup {j.args[1].value}
    BY <2>4 DEF With, j
  <2>6. r \in Reg
    BY <2>1, <2>5 DEF Known
  <2>7. Exec(s, j).gpr[r] = IF r = j.args[1].value THEN j.args[2].value ELSE s.gpr[r]
    BY <2>2, <2>3, <2>6 DEF Exec
  <2>8. KnownAfter(j)[r] = IF r = j.args[1].value THEN j.args[2].value ELSE regValues[r]
    BY <2>4, <2>5 DEF With
  <2>9. r # j.args[1].value => s.gpr[r] = regValues[r]
    BY <2>5 DEF Known
  <2> QED BY <2>6, <2>7, <2>8, <2>9 DEF j
<1>3. CASE j.op # "SetImm"
  <2>1. j = p
    BY <1>3 DEF Rewrite, FoldSimpleConstants, SetImm
  <2>2. WrittenGpr(p) = WrittenGpr(i)
    BY <1>1 DEF WrittenGpr, WritesAnyGprValue, HasResult, IsGprRegister
  <2>3. Assigned(p) = Assigned(i)
    BY PropagatedEffect
  <2>4. Assigned(j) \subseteq WrittenGpr(j)
    BY <2>1, <2>2, <2>3 DEF TablesCover
  <2>5. KnownAfter(j) = Without(regValues, WrittenGpr(j))
    BY <1>3 DEF KnownAfter
  <2> HIDE DEF j, p
  <2>6. r \in DOMAIN regValues \ WrittenGpr(j) /\ KnownAfter(j)[r] = regValues[r]
    BY <2>5 DEF Without, Fun!Restrict, j
  <2>7. r \in Reg /\ s.gpr[r] = regValues[r]
    BY <2>6 DEF Known
  <2>8. Exec(s, j).gpr[r] = s.gpr[r]
    BY <2>4, <2>6, <2>7 DEF Exec
  <2> QED BY <2>6, <2>7, <2>8 DEF j
<1> QED BY <1>2, <1>3

-----------------------------------------------------------------------------
(* The machines are in step and what is known holds in both.               *)
PropagationInv ==
    /\ pass = "propagate" => /\ block \in Blocks
                            /\ next \in Nat \ {0}
                            /\ Known(original)
    /\ rewritten = original

LEMMA InitPropagation == Init => PropagationInv
  BY DEF Init, PropagationInv, Known

LEMMA NextPropagation ==
    ASSUME Covered, PropagationInv, [Next]_vars
    PROVE  PropagationInv'
<1>1. CASE Propagate
  <2> DEFINE i == block[next]
  <2>1. /\ block \in Blocks /\ next \in 1..Len(block)
        /\ Known(original) /\ rewritten = original
    BY <1>1 DEF Propagate, PropagationInv
  <2>2. block \in Seq(IRInstruction)
    BY <2>1, BlocksAssumption
  <2>3. i \in IRInstruction
    BY <2>1, <2>2
  <2>4. TablesCover(i)
    BY <2>1, <2>2 DEF Covered
  <2>5. /\ regValues' = KnownAfter(Rewrite(i))
        /\ rewritten' = Exec(rewritten, Rewrite(i))
        /\ original' = Exec(original, i)
        /\ next' = next + 1 /\ UNCHANGED <<block, pass>>
    BY <1>1 DEF Propagate, Rewrite
  <2> HIDE DEF i
  <2>6. rewritten' = original'
    BY <2>1, <2>3, <2>4, <2>5, RewritingIsInvisible
  <2>7. \A r \in DOMAIN KnownAfter(Rewrite(i)) :
           r \in Reg /\ Exec(original, Rewrite(i)).gpr[r] = KnownAfter(Rewrite(i))[r]
    BY <2>1, <2>3, <2>4, KnowledgeIsKept
  <2>8. Known(original)'
    BY <2>1, <2>5, <2>6, <2>7 DEF Known
  <2> QED BY <2>1, <2>2, <2>5, <2>6, <2>8 DEF PropagationInv
<1>2. CASE BeginElimination
  BY <1>2 DEF BeginElimination, machineVars, PropagationInv
<1>3. CASE Eliminate
  BY <1>3 DEF Eliminate, machineVars, PropagationInv
<1>4. CASE Rebuild
  BY <1>4 DEF Rebuild, machineVars, PropagationInv
<1>5. CASE UNCHANGED vars
  BY <1>5 DEF vars, passVars, machineVars, PropagationInv, Known
<1> QED BY <1>1, <1>2, <1>3, <1>4, <1>5 DEF Next

(* If the tables describe every instruction of every block, the rewritten  *)
(* block does at each point what the lifted block does, for every width,   *)
(* number of registers and meaning of the operations                       *)
(* (propagateKnownConstants, foldSimpleConstants, constantPropagation).    *)
THEOREM PropagationAgrees == ASSUME Covered PROVE Spec => []RewrittenAgrees
<1>1. PropagationInv => RewrittenAgrees
  BY DEF PropagationInv, RewrittenAgrees
<1>2. PropagationInv /\ [Next]_vars => PropagationInv'
  BY NextPropagation
<1> QED BY <1>1, <1>2, InitPropagation, PTL DEF Spec

(* Likewise each value the first pass knows is the register's value        *)
(* (regValues in constantPropagation).                                     *)
THEOREM KnownIsCurrent == ASSUME Covered PROVE Spec => []KnownValuesAreCurrent
<1>1. PropagationInv => KnownValuesAreCurrent
  BY DEF PropagationInv, KnownValuesAreCurrent, Known
<1>2. PropagationInv /\ [Next]_vars => PropagationInv'
  BY NextPropagation
<1> QED BY <1>1, <1>2, InitPropagation, PTL DEF Spec

(* The tables describe each instruction of these operations, whatever its  *)
(* operands (collectReadGprs, writesAnyGprValue, writesPureGprValue).      *)
LEMMA TabledOpIsCovered ==
    ASSUME NEW i \in IRInstruction, i.op \in TabledOps
    PROVE  TablesCover(i)
<1>1. i.args \in Args(i.op)
  BY DEF IRInstruction
<1>2. Assigned(i) \subseteq WrittenGpr(i)
  <2>1. i.op = "LoadFloat" \/ i.op \in {"Store32", "Cmp", "Mtspr", "BranchTable"}
          => Assigned(i) = {}
    BY DEF Assigned, HasResult
  <2>2. i.op \in {"SetImm", "SetReg", "Add", "Sub", "Rlwimi", "Load32", "Mfspr"}
          => Assigned(i) = WrittenGpr(i)
    BY DEF Assigned, HasResult, WrittenGpr, WritesAnyGprValue, IsGprRegister
  <2> QED BY <2>1, <2>2 DEF TabledOps
<1>3. ASSUME NEW k \in InputPositions(i), i.args[k].kind = "gpr"
      PROVE  k \in DOMAIN i.args /\ OperandIsRead(i, k)
  <2>1. k \in DOMAIN i.args /\ DOMAIN i.args \subseteq 1..3
    BY <1>1 DEF InputPositions, Args, TabledOps
  <2>2. i.op \in HasResult => k # 1
    BY DEF InputPositions
  <2>3. i.op \in {"Cmp", "Mtspr"} => k # 1
    BY <1>1, <1>3 DEF Args, Imm
  <2>4. i.op \in {"SetImm", "Mfspr"} => FALSE
    BY <1>1, <1>3, <2>1, <2>2 DEF Args, HasResult, Imm
  <2>5. i.op = "Mtspr" => k = 2
    BY <1>1, <2>1, <2>3 DEF Args
  <2>6. i.op = "BranchTable" => k = 1
    BY <1>1, <1>3, <2>1 DEF Args, Imm
  <2> QED BY <2>1, <2>2, <2>3, <2>4, <2>5, <2>6 DEF OperandIsRead, HasResult, TabledOps
<1>4. Used(i) \subseteq CollectReadGprs(i)
  <2>1. StoredRegs(i) = {}
    BY DEF StoredRegs, TabledOps
  <2> QED BY <1>3, <2>1 DEF Used, CollectReadGprs, IsGprRegister
<1>5. WritesPureGprValue(i) => IsPure(i)
  BY DEF WritesPureGprValue, IsGprRegister, IsPure, TabledOps
<1> QED BY <1>2, <1>4, <1>5 DEF TablesCover

(* So in a program of such instructions constant propagation preserves     *)
(* what each block does and knows only current values.                     *)
THEOREM TabledBlocksAgree ==
    ASSUME \A b \in Blocks : \A k \in DOMAIN b : b[k].op \in TabledOps
    PROVE  Spec => [](RewrittenAgrees /\ KnownValuesAreCurrent)
<1>1. Covered
  <2>1. ASSUME NEW b \in Blocks, NEW k \in DOMAIN b
        PROVE  b[k] \in IRInstruction /\ b[k].op \in TabledOps
    BY <2>1, BlocksAssumption
  <2> QED BY <2>1, TabledOpIsCovered DEF Covered
<1> QED BY <1>1, PropagationAgrees, KnownIsCurrent, PTL

-----------------------------------------------------------------------------
(* Sequences of two operands, and of three, are operand lists.             *)
LEMMA PairOfArguments ==
    ASSUME NEW A, NEW B, NEW x \in A \X B, NEW f, f = [k \in DOMAIN x |-> f[k]],
           f[1] \in A, f[2] \in B
    PROVE  f \in A \X B
<1>1. DOMAIN x = 1..2
  OBVIOUS
<1>2. f = <<f[1], f[2]>>
  BY <1>1
<1> QED BY <1>2

LEMMA TripleOfArguments ==
    ASSUME NEW A, NEW B, NEW C, NEW x \in A \X B \X C, NEW f, f = [k \in DOMAIN x |-> f[k]],
           f[1] \in A, f[2] \in B, f[3] \in C
    PROVE  f \in A \X B \X C
<1>1. DOMAIN x = 1..3
  OBVIOUS
<1>2. f = <<f[1], f[2], f[3]>>
  BY <1>1
<1> QED BY <1>2

(* The values that are known are words of registers.                       *)
KnownTyped == \A r \in DOMAIN regValues : r \in Reg /\ regValues[r] \in Word

RegOrImm == Gpr \cup Imm

(* The operands stay operands when known constants take their places.      *)
LEMMA PropagatedOperands ==
    ASSUME NEW i \in IRInstruction, KnownTyped, NEW k \in DOMAIN i.args,
           NEW a, a = PropagateKnownConstants(i).args[k]
    PROVE  /\ i.args[k] \in Operand => a \in Operand
           /\ i.args[k] \in RegOrImm => a \in RegOrImm
           /\ i.args[k] \in Fpr => a \in Fpr
           /\ i.args[k] \in Imm => a \in Imm
           /\ (~OperandIsRead(i, k) \/ (k = 1 /\ WritesAnyGprValue(i))) => a = i.args[k]
<1>1. CASE IsKnown(i, k)
  <2>1. a = Constant(regValues[i.args[k].value]) /\ regValues[i.args[k].value] \in Word
    BY <1>1, PropagatedShape DEF IsKnown, KnownTyped
  <2>2. a \in Imm
    BY <2>1 DEF Constant, Imm
  <2>3. i.args[k].kind = "gpr" /\ ~(~OperandIsRead(i, k) \/ (k = 1 /\ WritesAnyGprValue(i)))
    BY <1>1 DEF IsKnown, IsGprRegister
  <2>4. i.args[k] \notin Fpr
    BY <2>3 DEF Fpr
  <2> QED BY <2>2, <2>3, <2>4 DEF Operand, RegOrImm
<1>2. CASE ~IsKnown(i, k)
  BY <1>2, PropagatedShape
<1> QED BY <1>1, <1>2

(* So an instruction stays one of the intermediate code.                   *)
LEMMA PropagatedTyped ==
    ASSUME NEW i \in IRInstruction, KnownTyped
    PROVE  PropagateKnownConstants(i) \in IRInstruction
<1> DEFINE p == PropagateKnownConstants(i)
           x == i.args
           f == p.args
<1>1. i.op \in IROp /\ x \in Seq(Operand) /\ x \in Args(i.op)
  BY DEF IRInstruction
<1>2. p = [op |-> i.op, args |-> f]
  BY DEF IRInstruction, PropagateKnownConstants
<1>3. f = [k \in DOMAIN x |-> f[k]]
  BY <1>1 DEF IRInstruction, PropagateKnownConstants
<1>4. \A k \in DOMAIN x :
         /\ x[k] \in Operand => f[k] \in Operand
         /\ x[k] \in RegOrImm => f[k] \in RegOrImm
         /\ x[k] \in Fpr => f[k] \in Fpr
         /\ x[k] \in Imm => f[k] \in Imm
         /\ (~OperandIsRead(i, k) \/ (k = 1 /\ WritesAnyGprValue(i))) => f[k] = x[k]
  BY PropagatedOperands
<1> HIDE DEF p, f
<1>5. f \in Seq(Operand)
  <2>1. \A k \in DOMAIN x : f[k] \in Operand
    BY <1>1, <1>4
  <2>2. Len(x) \in Nat /\ DOMAIN x = 1..Len(x)
    BY <1>1
  <2>3. f \in [1..Len(x) -> Operand]
    BY <1>3, <2>1, <2>2
  <2> QED BY <2>2, <2>3
<1>6. /\ 1 \in DOMAIN x
      /\ i.op \in {"SetImm", "Mfspr", "SetReg", "Neg", "Rlwimi", "Add", "Sub", "Addic", "Adde",
                   "Load32", "Lmw", "Stmw"} => f[1] = x[1]
  <2>1. i.op \in HasResult \cup {"Rlwimi", "Lmw", "Stmw"} => f[1] = x[1]
    BY FirstOperand, PropagatedShape DEF f, p
  <2> QED BY <2>1, FirstOperand DEF HasResult
<1>7. f \in Args(i.op)
  <2>1. CASE i.op \in {"SetImm", "Mfspr"}
    <3>1. x \in Gpr \X Imm
      BY <1>1, <2>1 DEF Args
    <3>2. f[1] \in Gpr /\ f[2] \in Imm
      <4>1. 2 \in DOMAIN x /\ x[1] \in Gpr /\ x[2] \in Imm
        BY <3>1
      <4> QED BY <1>4, <1>6, <2>1, <4>1
    <3>3. f \in Gpr \X Imm
      BY <1>3, <3>1, <3>2, PairOfArguments
    <3> QED BY <2>1, <3>3 DEF Args
  <2>2. CASE i.op = "SetReg"
    <3>1. x \in (Gpr \cup Fpr) \X Operand
      BY <1>1, <2>2 DEF Args
    <3>2. f[1] \in Gpr \cup Fpr /\ f[2] \in Operand
      <4>1. 2 \in DOMAIN x /\ x[1] \in Gpr \cup Fpr /\ x[2] \in Operand
        BY <3>1
      <4> QED BY <1>4, <1>6, <2>2, <4>1
    <3>3. f \in (Gpr \cup Fpr) \X Operand
      BY <1>3, <3>1, <3>2, PairOfArguments
    <3> QED BY <2>2, <3>3 DEF Args
  <2>3. CASE i.op \in {"Neg", "Rlwimi"}
    <3>1. x \in Gpr \X RegOrImm
      BY <1>1, <2>3 DEF Args, RegOrImm
    <3>2. f[1] \in Gpr /\ f[2] \in RegOrImm
      <4>1. 2 \in DOMAIN x /\ x[1] \in Gpr /\ x[2] \in RegOrImm
        BY <3>1
      <4> QED BY <1>4, <1>6, <2>3, <4>1
    <3>3. f \in Gpr \X RegOrImm
      BY <1>3, <3>1, <3>2, PairOfArguments
    <3> QED BY <2>3, <3>3 DEF Args, RegOrImm
  <2>4. CASE i.op \in {"Add", "Sub", "Addic", "Adde", "Load32", "Lmw", "Stmw"}
    <3>1. x \in Gpr \X RegOrImm \X RegOrImm
      BY <1>1, <2>4 DEF Args, RegOrImm
    <3>2. f[1] \in Gpr /\ f[2] \in RegOrImm /\ f[3] \in RegOrImm
      <4>1. {2, 3} \subseteq DOMAIN x /\ x[1] \in Gpr /\ x[2] \in RegOrImm /\ x[3] \in RegOrImm
        BY <3>1
      <4> QED BY <1>4, <1>6, <2>4, <4>1
    <3>3. f \in Gpr \X RegOrImm \X RegOrImm
      BY <1>3, <3>1, <3>2, TripleOfArguments
    <3> QED BY <2>4, <3>3 DEF Args, RegOrImm
  <2>5. CASE i.op = "Store32"
    <3>1. x \in RegOrImm \X RegOrImm \X RegOrImm
      BY <1>1, <2>5 DEF Args, RegOrImm
    <3>2. f[1] \in RegOrImm /\ f[2] \in RegOrImm /\ f[3] \in RegOrImm
      BY <1>4, <3>1
    <3>3. f \in RegOrImm \X RegOrImm \X RegOrImm
      BY <1>3, <3>1, <3>2, TripleOfArguments
    <3> QED BY <2>5, <3>3 DEF Args, RegOrImm
  <2>6. CASE i.op \in {"LoadFloat", "LoadFloatXU"}
    <3>1. x \in Fpr \X RegOrImm \X RegOrImm
      BY <1>1, <2>6 DEF Args, RegOrImm
    <3>2. f[1] \in Fpr /\ f[2] \in RegOrImm /\ f[3] \in RegOrImm
      BY <1>4, <3>1
    <3>3. f \in Fpr \X RegOrImm \X RegOrImm
      BY <1>3, <3>1, <3>2, TripleOfArguments
    <3> QED BY <2>6, <3>3 DEF Args, RegOrImm
  <2>7. CASE i.op = "Cmp"
    <3>1. x \in Imm \X RegOrImm \X RegOrImm
      BY <1>1, <2>7 DEF Args, RegOrImm
    <3>2. f[1] \in Imm /\ f[2] \in RegOrImm /\ f[3] \in RegOrImm
      BY <1>4, <3>1
    <3>3. f \in Imm \X RegOrImm \X RegOrImm
      BY <1>3, <3>1, <3>2, TripleOfArguments
    <3> QED BY <2>7, <3>3 DEF Args, RegOrImm
  <2>8. CASE i.op = "Mtspr"
    <3>1. x \in Imm \X RegOrImm
      BY <1>1, <2>8 DEF Args, RegOrImm
    <3>2. f[1] \in Imm /\ f[2] \in RegOrImm
      BY <1>4, <3>1
    <3>3. f \in Imm \X RegOrImm
      BY <1>3, <3>1, <3>2, PairOfArguments
    <3> QED BY <2>8, <3>3 DEF Args, RegOrImm
  <2>9. CASE i.op = "Dcbz"
    <3>1. x \in RegOrImm \X RegOrImm
      BY <1>1, <2>9 DEF Args, RegOrImm
    <3>2. f[1] \in RegOrImm /\ f[2] \in RegOrImm
      BY <1>4, <3>1
    <3>3. f \in RegOrImm \X RegOrImm
      BY <1>3, <3>1, <3>2, PairOfArguments
    <3> QED BY <2>9, <3>3 DEF Args, RegOrImm
  <2>10. CASE i.op = "BranchTable"
    <3>1. x \in RegOrImm \X Imm
      BY <1>1, <2>10 DEF Args, RegOrImm
    <3>2. f[1] \in RegOrImm /\ f[2] \in Imm
      BY <1>4, <3>1
    <3>3. f \in RegOrImm \X Imm
      BY <1>3, <3>1, <3>2, PairOfArguments
    <3> QED BY <2>10, <3>3 DEF Args, RegOrImm
  <2> QED BY <1>1, <2>1, <2>2, <2>3, <2>4, <2>5, <2>6, <2>7, <2>8, <2>9, <2>10 DEF IROp
<1>8. [op |-> i.op, args |-> f] \in IRInstruction
  BY <1>1, <1>5, <1>7 DEF IRInstruction
<1> QED BY <1>2, <1>8 DEF p

(* As does what folding makes of it.                                       *)
LEMMA FoldedTyped ==
    ASSUME NEW i \in IRInstruction
    PROVE  FoldSimpleConstants(i) \in IRInstruction
<1>1. ASSUME NEW d \in Gpr, NEW w \in Word
      PROVE  SetImm(d, w) \in IRInstruction
  <2>1. Constant(w) \in Imm
    BY DEF Constant, Imm
  <2>2. <<d, Constant(w)>> \in Gpr \X Imm /\ <<d, Constant(w)>> \in Seq(Operand)
    BY <2>1 DEF Operand
  <2> QED BY <2>2 DEF SetImm, IRInstruction, Args, IROp
<1>2. i.args \in Args(i.op)
  BY DEF IRInstruction
<1>3. CASE i.op = "Add" /\ i.args[2].kind = "imm" /\ i.args[3].kind = "imm"
  <2>1. i.args[1] \in Gpr /\ i.args[2] \in Gpr \cup Imm /\ i.args[3] \in Gpr \cup Imm
    BY <1>2, <1>3 DEF Args
  <2>2. i.args[2].value \in Word /\ i.args[3].value \in Word
    BY <1>3, <2>1 DEF Gpr, Imm
  <2>3. (i.args[2].value + i.args[3].value) % Modulus \in Word
    <3> DEFINE w == i.args[2].value + i.args[3].value
    <3>1. w \in Int
      BY <2>2 DEF Word
    <3> HIDE DEF w
    <3>2. w % Modulus \in Word
      BY <3>1, IRAssumption DEF Word
    <3> QED BY <3>2 DEF w
  <2>4. FoldSimpleConstants(i) = SetImm(i.args[1], (i.args[2].value + i.args[3].value) % Modulus)
    BY <1>3 DEF FoldSimpleConstants
  <2> QED BY <1>1, <2>1, <2>3, <2>4
<1>4. CASE i.op = "SetReg" /\ i.args[1].kind = "gpr" /\ i.args[2].kind = "imm"
  <2>1. i.args[1] \in Gpr \cup Fpr /\ i.args[2] \in Operand
    BY <1>2, <1>4 DEF Args
  <2>2. i.args[1] \in Gpr
    BY <1>4, <2>1 DEF Fpr
  <2>3. i.args[2].value \in Word
    BY <1>4, <2>1 DEF Gpr, Fpr, Imm, Operand
  <2>4. FoldSimpleConstants(i) = SetImm(i.args[1], i.args[2].value)
    BY <1>4 DEF FoldSimpleConstants
  <2> QED BY <1>1, <2>2, <2>3, <2>4
<1>5. CASE /\ ~(i.op = "Add" /\ i.args[2].kind = "imm" /\ i.args[3].kind = "imm")
           /\ ~(i.op = "SetReg" /\ i.args[1].kind = "gpr" /\ i.args[2].kind = "imm")
  BY <1>5 DEF FoldSimpleConstants
<1> QED BY <1>3, <1>4, <1>5

(* And the two together.                                                   *)
LEMMA RewriteTyped ==
    ASSUME NEW i \in IRInstruction, KnownTyped
    PROVE  /\ Rewrite(i) \in IRInstruction
           /\ i.op \in TabledOps => Rewrite(i).op \in TabledOps
<1> DEFINE p == PropagateKnownConstants(i)
<1>1. p \in IRInstruction /\ p.op = i.op
  BY PropagatedTyped, PropagatedShape
<1> HIDE DEF p
<1>2. FoldSimpleConstants(p) \in IRInstruction
  BY <1>1, FoldedTyped
<1>3. FoldSimpleConstants(p).op \in {p.op, "SetImm"}
  BY DEF FoldSimpleConstants, SetImm
<1>4. "SetImm" \in TabledOps
  BY DEF TabledOps
<1> QED BY <1>1, <1>2, <1>3, <1>4 DEF Rewrite, p

-----------------------------------------------------------------------------
(* A set of numbers has a least one.                                       *)
LEMMA LeastNumber ==
    ASSUME NEW S \in SUBSET Nat, S # {}
    PROVE  \E x \in S : \A y \in S : x <= y
<1> DEFINE Less == {p \in Nat \X Nat : p[1] < p[2]}
<1>1. IsWellFoundedOn(Less, Nat)
  BY NatLessThanWellFounded DEF OpToRel
<1>2. PICK x \in S : \A y \in S : ~(<<y, x>> \in Less)
  BY <1>1, WFMin, Zenon
<1>3. ASSUME NEW y \in S PROVE x <= y
  <2>1. ~(y < x)
    BY <1>2
  <2> QED BY <2>1
<1> QED BY <1>3

(* A set of numbers that holds 0, and with a number below n the next one,  *)
(* holds all numbers up to n.                                              *)
LEMMA UpTo ==
    ASSUME NEW n \in Nat, NEW S, 0 \in S,
           \A k \in 1..n : k - 1 \in S => k \in S
    PROVE  \A k \in 0..n : k \in S
<1> DEFINE T == {k \in 0..n : k \notin S}
<1>1. SUFFICES ASSUME T # {} PROVE FALSE
  OBVIOUS
<1>2. T \in SUBSET Nat
  OBVIOUS
<1>3. PICK k \in T : \A j \in T : k <= j
  <2> HIDE DEF T
  <2> QED BY <1>1, <1>2, LeastNumber
<1>4. k # 0 /\ k \in 1..n
  OBVIOUS
<1>5. k - 1 \in 0..n /\ k - 1 \notin T
  BY <1>3, <1>4
<1> QED BY <1>4, <1>5

-----------------------------------------------------------------------------
(* The states of a run.                                                    *)
Solves(f, s, q, n) == f = [k \in 0..n |-> IF k = 0 THEN s ELSE Step(f[k - 1], q[k])]

(* The recursive function that lists the states of a run exists.           *)
LEMMA StatesExist ==
    ASSUME NEW s, NEW q, NEW n \in Nat
    PROVE  \E f : Solves(f, s, q, n)
<1> DEFINE S == {m \in Nat : \E f : Solves(f, s, q, m)}
<1>1. 0 \in S
  <2> DEFINE f == [k \in 0..0 |-> s]
  <2>1. f = [k \in 0..0 |-> IF k = 0 THEN s ELSE Step(f[k - 1], q[k])]
    <3> DEFINE g == f
    <3>1. \A k \in 0..0 : s = IF k = 0 THEN s ELSE Step(g[k - 1], q[k])
      OBVIOUS
    <3> HIDE DEF g
    <3>2. f = [k \in 0..0 |-> IF k = 0 THEN s ELSE Step(g[k - 1], q[k])]
      BY <3>1
    <3> QED BY <3>2 DEF g
  <2> HIDE DEF f
  <2> QED BY <2>1 DEF Solves
<1>2. ASSUME NEW m \in 1..n, m - 1 \in S
      PROVE  m \in S
  <2>1. PICK g : Solves(g, s, q, m - 1)
    BY <1>2
  <2> DEFINE f == [k \in 0..m |-> IF k = m THEN Step(g[m - 1], q[m]) ELSE g[k]]
  <2>2. \A k \in 0..(m - 1) : g[k] = IF k = 0 THEN s ELSE Step(g[k - 1], q[k])
    BY <2>1 DEF Solves
  <2>3. \A k \in 0..m : f[k] = IF k = 0 THEN s ELSE Step(f[k - 1], q[k])
    <3> TAKE k \in 0..m
    <3>1. CASE k = m
      <4>1. f[k] = Step(g[m - 1], q[m])
        BY <3>1
      <4>2. f[m - 1] = g[m - 1]
        OBVIOUS
      <4> HIDE DEF f
      <4> QED BY <3>1, <4>1, <4>2
    <3>2. CASE k # m
      <4>1. k \in 0..(m - 1) /\ f[k] = g[k]
        BY <3>2
      <4>2. k # 0 => f[k - 1] = g[k - 1]
        BY <3>2
      <4> HIDE DEF f
      <4> QED BY <2>2, <4>1, <4>2
    <3> QED BY <3>1, <3>2
  <2>4. f = [k \in 0..m |-> IF k = 0 THEN s ELSE Step(f[k - 1], q[k])]
    <3> DEFINE h == f
    <3>1. f = [k \in 0..m |-> f[k]]
      OBVIOUS
    <3>2. \A k \in 0..m : f[k] = IF k = 0 THEN s ELSE Step(h[k - 1], q[k])
      BY <2>3
    <3> HIDE DEF h, f
    <3>3. f = [k \in 0..m |-> IF k = 0 THEN s ELSE Step(h[k - 1], q[k])]
      BY <3>1, <3>2
    <3> QED BY <3>3 DEF h
  <2> HIDE DEF f
  <2> QED BY <2>4 DEF Solves
<1>3. n \in S
  <2> HIDE DEF S
  <2> QED BY <1>1, <1>2, UpTo
<1> QED BY <1>3

(* It starts with the given state and goes on by steps.                    *)
LEMMA StatesSteps ==
    ASSUME NEW s, NEW q, Len(q) \in Nat
    PROVE  /\ States(s, q)[0] = s
           /\ \A k \in 1..Len(q) : States(s, q)[k] = Step(States(s, q)[k - 1], q[k])
<1> DEFINE f == States(s, q)
<1>1. f = CHOOSE g : Solves(g, s, q, Len(q))
  BY DEF States, Solves
<1>2. Solves(f, s, q, Len(q))
  <2> HIDE DEF f
  <2> QED BY <1>1, StatesExist
<1> HIDE DEF f
<1>3. \A k \in 0..Len(q) : f[k] = IF k = 0 THEN s ELSE Step(f[k - 1], q[k])
  BY <1>2 DEF Solves
<1> QED BY <1>3 DEF f

(* They depend on the instructions up to there alone.                      *)
LEMMA SamePrefix ==
    ASSUME NEW s, NEW p, NEW q, Len(p) \in Nat, Len(q) \in Nat,
           NEW n \in Nat, n <= Len(p), n <= Len(q), \A k \in 1..n : p[k] = q[k]
    PROVE  States(s, p)[n] = States(s, q)[n]
<1> DEFINE S == {k \in 0..n : States(s, p)[k] = States(s, q)[k]}
<1>1. 0 \in S
  BY StatesSteps
<1>2. ASSUME NEW k \in 1..n, k - 1 \in S
      PROVE  k \in S
  <2>1. k \in 1..Len(p) /\ k \in 1..Len(q)
    OBVIOUS
  <2> QED BY <1>2, <2>1, StatesSteps
<1> HIDE DEF S
<1>3. \A k \in 0..n : k \in S
  BY <1>1, <1>2, UpTo
<1>4. n \in 0..n
  OBVIOUS
<1> QED BY <1>3, <1>4 DEF S

(* What a run does with one instruction more, with none, and how far the   *)
(* states of a sequence are the runs of its beginnings.                    *)
LEMMA RunAppend ==
    ASSUME NEW s, NEW S, NEW q \in Seq(S), NEW i \in S
    PROVE  Run(s, Append(q, i)) = Step(Run(s, q), i)
<1> DEFINE p == Append(q, i)
<1>1. /\ Len(q) \in Nat /\ Len(p) = Len(q) + 1 /\ p[Len(p)] = i
      /\ \A k \in 1..Len(q) : p[k] = q[k]
  OBVIOUS
<1> HIDE DEF p
<1>2. States(s, p)[Len(q)] = States(s, q)[Len(q)]
  BY <1>1, SamePrefix
<1>3. States(s, p)[Len(p)] = Step(States(s, p)[Len(p) - 1], p[Len(p)])
  BY <1>1, StatesSteps
<1>4. Len(p) - 1 = Len(q)
  BY <1>1
<1> QED BY <1>1, <1>2, <1>3, <1>4 DEF Run, p

LEMMA RunNothing ==
    ASSUME NEW s
    PROVE  Run(s, << >>) = s
<1>1. Len(<< >>) = 0
  OBVIOUS
<1> QED BY <1>1, StatesSteps DEF Run

LEMMA RunPrefix ==
    ASSUME NEW s, NEW S, NEW q \in Seq(S), NEW n \in 0..Len(q)
    PROVE  Run(s, SubSeq(q, 1, n)) = States(s, q)[n]
<1> DEFINE p == SubSeq(q, 1, n)
<1>1. Len(q) \in Nat /\ Len(p) = n /\ \A k \in 1..n : p[k] = q[k]
  OBVIOUS
<1> HIDE DEF p
<1>2. Len(p) \in Nat /\ n \in Nat /\ n <= Len(p) /\ n <= Len(q)
  BY <1>1
<1>3. States(s, p)[n] = States(s, q)[n]
  BY <1>1, <1>2, SamePrefix
<1> QED BY <1>1, <1>3 DEF Run, p

(* States keep their shape.                                                *)
IsState(s) == s = [gpr |-> s.gpr, rest |-> s.rest] /\ s.gpr = [r \in Reg |-> s.gpr[r]]

(* A step leads from a state to a state, so a run does.                    *)
LEMMA ExecGivesState ==
    ASSUME NEW s, NEW i
    PROVE  IsState(Exec(s, i))
<1> DEFINE g == [r \in Reg |-> IF r \in Assigned(i) THEN Result(s, i, r) ELSE s.gpr[r]]
           e == IF IsPure(i) THEN s.rest
                ELSE Compute(<<i.op, Rest>>, Inputs(s, i), Stored(s, i), s.rest)
<1>1. Exec(s, i) = [gpr |-> g, rest |-> e]
  BY DEF Exec
<1>2. g = [r \in Reg |-> g[r]]
  OBVIOUS
<1> HIDE DEF g, e
<1> QED BY <1>1, <1>2 DEF IsState

LEMMA RunGivesState ==
    ASSUME NEW s, IsState(s), NEW q, Len(q) \in Nat
    PROVE  \A k \in 0..Len(q) : IsState(States(s, q)[k])
<1> DEFINE S == {k \in 0..Len(q) : IsState(States(s, q)[k])}
<1>1. 0 \in S
  BY StatesSteps
<1>2. ASSUME NEW k \in 1..Len(q), k - 1 \in S
      PROVE  k \in S
  <2>1. States(s, q)[k] = Step(States(s, q)[k - 1], q[k])
    BY StatesSteps
  <2> QED BY <1>2, <2>1, ExecGivesState DEF Step
<1> HIDE DEF S
<1>3. \A k \in 0..Len(q) : k \in S
  BY <1>1, <1>2, UpTo
<1> QED BY <1>3 DEF S

(* States that agree on every register and on what was seen are the same.  *)
LEMMA SameState ==
    ASSUME NEW s, NEW t, IsState(s), IsState(t), Agree(s, t, Reg)
    PROVE  s = t
<1>1. s.rest = t.rest /\ \A r \in Reg : s.gpr[r] = t.gpr[r]
  BY DEF Agree
<1>2. s.gpr = [r \in Reg |-> s.gpr[r]] /\ t.gpr = [r \in Reg |-> t.gpr[r]]
  BY DEF IsState
<1>3. s.gpr = t.gpr
  BY <1>1, <1>2
<1> QED BY <1>1, <1>3 DEF IsState

-----------------------------------------------------------------------------
(* What is dropped is passed over.                                         *)
Collects(f, q, n) ==
    f = [k \in 0..n |-> IF k = 0 THEN << >>
                        ELSE IF IsKept(q[k]) THEN Append(f[k - 1], q[k]) ELSE f[k - 1]]

(* The recursive function that compacts a sequence exists.                 *)
LEMMA CollectionExists ==
    ASSUME NEW q, NEW n \in Nat
    PROVE  \E f : Collects(f, q, n)
<1> DEFINE S == {m \in Nat : \E f : Collects(f, q, m)}
           More(t, i) == IF IsKept(i) THEN Append(t, i) ELSE t
<1>1. 0 \in S
  <2> DEFINE f == [k \in 0..0 |-> << >>]
  <2>1. f = [k \in 0..0 |-> IF k = 0 THEN << >>
                            ELSE IF IsKept(q[k]) THEN Append(f[k - 1], q[k]) ELSE f[k - 1]]
    <3> DEFINE g == f
    <3>1. \A k \in 0..0 : << >> = IF k = 0 THEN << >>
                            ELSE IF IsKept(q[k]) THEN Append(g[k - 1], q[k]) ELSE g[k - 1]
      OBVIOUS
    <3> HIDE DEF g
    <3>2. f = [k \in 0..0 |-> IF k = 0 THEN << >>
                            ELSE IF IsKept(q[k]) THEN Append(g[k - 1], q[k]) ELSE g[k - 1]]
      BY <3>1
    <3> QED BY <3>2 DEF g
  <2> HIDE DEF f
  <2> QED BY <2>1 DEF Collects
<1>2. ASSUME NEW m \in 1..n, m - 1 \in S
      PROVE  m \in S
  <2>1. PICK g : Collects(g, q, m - 1)
    BY <1>2
  <2> DEFINE f == [k \in 0..m |-> IF k = m THEN More(g[m - 1], q[m]) ELSE g[k]]
  <2>2. \A k \in 0..(m - 1) : g[k] = IF k = 0 THEN << >> ELSE More(g[k - 1], q[k])
    BY <2>1 DEF Collects
  <2>3. \A k \in 0..m : f[k] = IF k = 0 THEN << >> ELSE More(f[k - 1], q[k])
    <3> HIDE DEF More
    <3> TAKE k \in 0..m
    <3>1. CASE k = m
      <4>1. f[k] = More(g[m - 1], q[m])
        BY <3>1
      <4>2. f[m - 1] = g[m - 1]
        OBVIOUS
      <4> HIDE DEF f
      <4> QED BY <3>1, <4>1, <4>2
    <3>2. CASE k # m
      <4>1. k \in 0..(m - 1) /\ f[k] = g[k]
        BY <3>2
      <4>2. k # 0 => f[k - 1] = g[k - 1]
        BY <3>2
      <4> HIDE DEF f
      <4> QED BY <2>2, <4>1, <4>2
    <3> QED BY <3>1, <3>2
  <2>4. f = [k \in 0..m |-> IF k = 0 THEN << >>
                            ELSE IF IsKept(q[k]) THEN Append(f[k - 1], q[k]) ELSE f[k - 1]]
    <3> DEFINE h == f
    <3>1. f = [k \in 0..m |-> f[k]]
      OBVIOUS
    <3>2. \A k \in 0..m :
             f[k] = IF k = 0 THEN << >>
                    ELSE IF IsKept(q[k]) THEN Append(h[k - 1], q[k]) ELSE h[k - 1]
      BY <2>3
    <3> HIDE DEF h, f
    <3>3. f = [k \in 0..m |-> IF k = 0 THEN << >>
                 ELSE IF IsKept(q[k]) THEN Append(h[k - 1], q[k]) ELSE h[k - 1]]
      BY <3>1, <3>2
    <3> QED BY <3>3 DEF h
  <2> HIDE DEF f
  <2> QED BY <2>4 DEF Collects
<1>3. \A k \in 0..n : k \in S
  <2> HIDE DEF S
  <2> QED BY <1>1, <1>2, UpTo
<1> QED BY <1>3

(* Compacting keeps what a sequence does, and nothing that is dropped.     *)
LEMMA CompactedRuns ==
    ASSUME NEW s, NEW S, NEW q \in Seq(S)
    PROVE  /\ Compacted(q) \in Seq({i \in S : IsKept(i)})
           /\ Run(s, Compacted(q)) = Run(s, q)
<1> DEFINE n == Len(q)
           f == CHOOSE g : Collects(g, q, n)
           T == {i \in S : IsKept(i)}
           Z == {k \in 0..n : f[k] \in Seq(T) /\ Run(s, f[k]) = States(s, q)[k]}
<1>1. Compacted(q) = f[n] /\ n \in Nat
  BY DEF Compacted, Collects
<1>2. Collects(f, q, n)
  BY <1>1, CollectionExists
<1> HIDE DEF f
<1>3. /\ f[0] = << >>
      /\ \A k \in 1..n : f[k] = IF IsKept(q[k]) THEN Append(f[k - 1], q[k]) ELSE f[k - 1]
  <2> HIDE DEF n
  <2>1. \A k \in 0..n : f[k] = IF k = 0 THEN << >>
                                ELSE IF IsKept(q[k]) THEN Append(f[k - 1], q[k]) ELSE f[k - 1]
    BY <1>2 DEF Collects
  <2>2. 0 \in 0..n /\ \A k \in 1..n : k \in 0..n /\ k # 0
    BY <1>1
  <2> QED BY <2>1, <2>2
<1>4. 0 \in Z
  <2>1. Run(s, f[0]) = s /\ States(s, q)[0] = s
    BY <1>1, <1>3, StatesSteps, RunNothing
  <2>2. f[0] \in Seq(T) /\ 0 \in 0..n
    BY <1>1, <1>3
  <2> HIDE DEF T, n
  <2> QED BY <2>1, <2>2
<1>5. ASSUME NEW k \in 1..n, k - 1 \in Z
      PROVE  k \in Z
  <2>1. States(s, q)[k] = Step(States(s, q)[k - 1], q[k])
    BY <1>1, StatesSteps
  <2>2. f[k - 1] \in Seq(T) /\ Run(s, f[k - 1]) = States(s, q)[k - 1]
    BY <1>5
  <2>3. q[k] \in S
    OBVIOUS
  <2>4. CASE IsKept(q[k])
    <3>1. q[k] \in T /\ f[k] = Append(f[k - 1], q[k])
      BY <1>3, <2>3, <2>4
    <3> HIDE DEF T
    <3>2. Run(s, f[k]) = Step(Run(s, f[k - 1]), q[k])
      BY <2>2, <3>1, RunAppend
    <3>3. f[k] \in Seq(T)
      BY <2>2, <3>1
    <3>4. Run(s, f[k]) = States(s, q)[k]
      BY <2>1, <2>2, <3>2
    <3> QED BY <3>3, <3>4
  <2>5. CASE ~IsKept(q[k])
    <3>1. f[k] = f[k - 1]
      BY <1>3, <2>5
    <3>2. States(s, q)[k] = States(s, q)[k - 1]
      BY <2>1, <2>5 DEF Step
    <3> HIDE DEF T
    <3> QED BY <2>2, <3>1, <3>2
  <2> QED BY <2>4, <2>5
<1>6. \A k \in 0..n : k \in Z
  <2> HIDE DEF Z, n
  <2> QED BY <1>1, <1>4, <1>5, UpTo
<1>7. f[n] \in Seq(T) /\ Run(s, f[n]) = States(s, q)[n]
  <2> HIDE DEF T
  <2> QED BY <1>1, <1>6
<1> QED BY <1>1, <1>7 DEF Run

-----------------------------------------------------------------------------
(* What the second pass works on: instructions, and what it has dropped.   *)
Dead == [op : {"None"}, args : Seq(Operand)]

Final == IRInstruction \cup Dead

(* Dropping an instruction makes it one that is not kept, once and for all. *)
LEMMA NoneTyped ==
    ASSUME NEW x \in Final
    PROVE  /\ None(x) \in Dead /\ ~IsKept(None(x)) /\ None(None(x)) = None(x)
           /\ x \in IRInstruction => IsKept(x)
<1>1. x \in [op : IROp \cup {"None"}, args : Seq(Operand)]
  BY DEF Final, IRInstruction, Dead
<1>2. None(x) = [op |-> "None", args |-> x.args]
  BY <1>1 DEF None
<1>3. x.args \in Seq(Operand)
  BY <1>1
<1>4. None(x) \in Dead /\ ~IsKept(None(x))
  BY <1>2, <1>3 DEF Dead, IsKept
<1>5. None([op |-> "None", args |-> x.args]) = [op |-> "None", args |-> x.args]
  BY DEF None
<1>6. x \in IRInstruction => IsKept(x)
  BY DEF IRInstruction, IROp, IsKept
<1> QED BY <1>2, <1>4, <1>5, <1>6

(* A sequence from which the instructions at the places of K are taken.    *)
Taken(q, K) == [k \in DOMAIN q |-> IF k \in K THEN None(q[k]) ELSE q[k]]

(* A function on 1..n is a sequence of that length.                        *)
LEMMA SequenceOfLength ==
    ASSUME NEW S, NEW n \in Nat, NEW f \in [1..n -> S]
    PROVE  f \in Seq(S) /\ Len(f) = n
OBVIOUS

(* What is left has the same length; only the places of K have changed.    *)
LEMMA TakenFacts ==
    ASSUME NEW q \in Seq(Final), NEW K
    PROVE  /\ Taken(q, K) \in Seq(Final) /\ Len(Taken(q, K)) = Len(q) /\ Len(q) \in Nat
           /\ \A k \in 1..Len(q) : Taken(q, K)[k] = IF k \in K THEN None(q[k]) ELSE q[k]
<1>1. Len(q) \in Nat /\ DOMAIN q = 1..Len(q) /\ \A k \in 1..Len(q) : q[k] \in Final
  OBVIOUS
<1>2. \A k \in 1..Len(q) : None(q[k]) \in Final
  BY <1>1, NoneTyped DEF Final
<1> DEFINE e(k) == IF k \in K THEN None(q[k]) ELSE q[k]
           f == [k \in 1..Len(q) |-> e(k)]
<1>3. \A k \in 1..Len(q) : e(k) \in Final
  BY <1>1, <1>2
<1>4. \A k \in 1..Len(q) : f[k] = e(k)
  OBVIOUS
<1>5. Taken(q, K) = f
  BY <1>1 DEF Taken
<1> HIDE DEF e
<1>6. f \in [1..Len(q) -> Final]
  BY <1>3
<1> HIDE DEF f
<1>7. f \in Seq(Final) /\ Len(f) = Len(q)
  BY <1>1, <1>6, SequenceOfLength
<1> QED BY <1>1, <1>4, <1>5, <1>7 DEF e

(* What an instruction writes, as the tables have it, is what it assigns.  *)
LEMMA WrittenTyped ==
    ASSUME NEW i \in IRInstruction
    PROVE  /\ WrittenGpr(i) \subseteq Reg /\ WrittenPureGpr(i) \subseteq WrittenGpr(i)
           /\ WrittenGpr(i) \subseteq Assigned(i)
           /\ \A r, q \in WrittenGpr(i) : r = q
<1>1. i.args[1] \in Operand
  BY FirstOperand DEF IRInstruction
<1>2. WritesAnyGprValue(i) => i.args[1].kind = "gpr" /\ i.args[1].value \in Reg
  BY <1>1 DEF WritesAnyGprValue, IsGprRegister, Operand, Gpr, Fpr, Imm
<1>3. WrittenGpr(i) \subseteq Assigned(i)
  BY <1>2 DEF WrittenGpr, WritesAnyGprValue, Assigned, HasResult
<1>4. WrittenPureGpr(i) \subseteq WrittenGpr(i)
  BY DEF WrittenPureGpr, WrittenGpr, WritesPureGprValue, WritesAnyGprValue
<1> QED BY <1>2, <1>3, <1>4 DEF WrittenGpr

-----------------------------------------------------------------------------
(* Types, with the relation of the sequences to each other.                *)
IsFinal ==
    /\ finalInstructions \in Seq(Final)
    /\ Len(finalInstructions) = IF pass = "propagate" THEN 0 ELSE next - 1
    /\ DOMAIN lastPureWrite \subseteq Reg
    /\ \A r \in DOMAIN lastPureWrite : lastPureWrite[r] \in 1..Len(finalInstructions)

TypeInv ==
    /\ block \in Seq(IRInstruction)
    /\ pass \in {"propagate", "eliminate", "done"}
    /\ next \in Nat \ {0}
    /\ KnownTyped
    /\ optimized \in Seq(IRInstruction)
    /\ pass = "eliminate" => next <= Len(optimized) + 1
    /\ IsFinal
    /\ input \in Seq(IRInstruction)
    /\ start \in State
    /\ DOMAIN original.gpr = Reg
    /\ DOMAIN rewritten.gpr = Reg

(* It holds at first, and the steps preserve it.                           *)
LEMMA TypeInvInit == Init => TypeInv
<1> SUFFICES ASSUME Init PROVE TypeInv
  OBVIOUS
<1>1. block \in Seq(IRInstruction) /\ start \in State
  BY BlocksAssumption DEF Init
<1>2. DOMAIN start.gpr = Reg
  BY <1>1 DEF State
<1>3. KnownTyped
  BY DEF Init, KnownTyped
<1>4. IsFinal
  BY DEF Init, IsFinal
<1> QED BY <1>1, <1>2, <1>3, <1>4 DEF Init, TypeInv

(* The map of known constants, the registers, and the sequence of the second *)
(* pass keep their types.                                                  *)
LEMMA KnownAfterTyped ==
    ASSUME KnownTyped, NEW i \in IRInstruction
    PROVE  \A r \in DOMAIN KnownAfter(i) : r \in Reg /\ KnownAfter(i)[r] \in Word
<1>1. CASE i.op = "SetImm"
  <2>1. i.args[1].value \in Reg /\ i.args[2].value \in Word
    BY <1>1 DEF IRInstruction, Args, Gpr, Imm
  <2>2. KnownAfter(i) = With(regValues, i.args[1].value, i.args[2].value)
    BY <1>1 DEF KnownAfter
  <2> QED BY <2>1, <2>2 DEF With, KnownTyped
<1>2. CASE i.op # "SetImm"
  <2>1. KnownAfter(i) = Without(regValues, WrittenGpr(i))
    BY <1>2 DEF KnownAfter
  <2> QED BY <2>1 DEF Without, Fun!Restrict, KnownTyped
<1> QED BY <1>1, <1>2

LEMMA ExecDomain ==
    ASSUME NEW s, NEW i
    PROVE  DOMAIN Exec(s, i).gpr = Reg
BY DEF Exec

(* What the second pass holds for pending after an instruction.            *)
LEMMA PendingAfter ==
    ASSUME Eliminate, NEW i, i = optimized[next],
           WrittenPureGpr(i) \subseteq WrittenGpr(i)
    PROVE  /\ DOMAIN lastPureWrite' =
                 (DOMAIN lastPureWrite \ (CollectReadGprs(i) \cup WrittenGpr(i)))
                   \cup WrittenPureGpr(i)
           /\ \A r \in WrittenPureGpr(i) : lastPureWrite'[r] = Len(finalInstructions) + 1
           /\ \A r \in DOMAIN lastPureWrite \ (CollectReadGprs(i) \cup WrittenGpr(i)) :
                 lastPureWrite'[r] = lastPureWrite[r]
<1> DEFINE D == DOMAIN Without(Pending(i), WrittenGpr(i)) \cup WrittenPureGpr(i)
           n == Len(finalInstructions) + 1
<1>1. lastPureWrite' = [r \in D |-> IF r \in WrittenPureGpr(i) THEN n ELSE lastPureWrite[r]]
  BY DEF Eliminate
<1>2. D = (DOMAIN lastPureWrite \ (CollectReadGprs(i) \cup WrittenGpr(i))) \cup WrittenPureGpr(i)
  BY DEF Without, Fun!Restrict, Pending
<1> HIDE DEF D, n
<1>3. /\ DOMAIN lastPureWrite' = D
      /\ \A r \in D : lastPureWrite'[r] = IF r \in WrittenPureGpr(i) THEN n ELSE lastPureWrite[r]
  BY <1>1
<1> QED BY <1>2, <1>3 DEF n

LEMMA FinalAfter ==
    ASSUME IsFinal, Eliminate, NEW i \in IRInstruction, i = optimized[next]
    PROVE  /\ finalInstructions' = Append(Taken(finalInstructions, Overwritten(i)), i)
           /\ finalInstructions' \in Seq(Final)
           /\ Len(finalInstructions') = Len(finalInstructions) + 1
<1>1. finalInstructions' = Append(Taken(finalInstructions, Overwritten(i)), i)
  BY DEF Eliminate, Taken
<1>2. /\ Taken(finalInstructions, Overwritten(i)) \in Seq(Final)
      /\ Len(Taken(finalInstructions, Overwritten(i))) = Len(finalInstructions)
  BY TakenFacts DEF IsFinal
<1>3. i \in Final
  BY DEF Final
<1> QED BY <1>1, <1>2, <1>3

LEMMA TypeInvStep == TypeInv /\ [Next]_vars => TypeInv'
<1> SUFFICES ASSUME TypeInv, [Next]_vars PROVE TypeInv'
  OBVIOUS
<1>1. CASE Propagate
  <2> DEFINE i == block[next]
             j == Rewrite(i)
  <2>1. /\ i \in IRInstruction /\ pass = "propagate" /\ next \in Nat \ {0}
    BY <1>1 DEF Propagate, TypeInv
  <2>2. j \in IRInstruction
    BY <2>1, RewriteTyped DEF TypeInv
  <2>3. /\ regValues' = KnownAfter(j) /\ optimized' = Append(optimized, j)
        /\ rewritten' = Exec(rewritten, j) /\ original' = Exec(original, i)
        /\ next' = next + 1
        /\ UNCHANGED <<block, pass, finalInstructions, lastPureWrite, input, start>>
    BY <1>1 DEF Propagate, Rewrite
  <2> HIDE DEF i, j
  <2>4. KnownTyped'
    BY <2>2, <2>3, KnownAfterTyped DEF KnownTyped, TypeInv
  <2>5. optimized' \in Seq(IRInstruction)
    BY <2>2, <2>3 DEF TypeInv
  <2>6. DOMAIN original'.gpr = Reg /\ DOMAIN rewritten'.gpr = Reg
    BY <2>3, ExecDomain
  <2>7. IsFinal'
    BY <2>1, <2>3 DEF IsFinal, TypeInv
  <2> QED BY <2>1, <2>3, <2>4, <2>5, <2>6, <2>7 DEF TypeInv
<1>2. CASE BeginElimination
  <2>1. /\ pass = "propagate" /\ pass' = "eliminate" /\ next' = 1
        /\ UNCHANGED <<block, regValues, optimized, finalInstructions, lastPureWrite, input,
                       start, original, rewritten>>
    BY <1>2 DEF BeginElimination, machineVars
  <2>2. IsFinal' /\ KnownTyped'
    BY <2>1 DEF IsFinal, KnownTyped, TypeInv
  <2>3. next' <= Len(optimized') + 1
    BY <2>1 DEF TypeInv
  <2> QED BY <2>1, <2>2, <2>3 DEF TypeInv
<1>3. CASE Eliminate
  <2> DEFINE i == optimized[next]
  <2>1. /\ pass = "eliminate" /\ next \in 1..Len(optimized) /\ next' = next + 1
        /\ UNCHANGED <<block, pass, regValues, optimized, input, start, original, rewritten>>
    BY <1>3 DEF Eliminate, machineVars, TypeInv
  <2>2. i \in IRInstruction
    BY <2>1 DEF TypeInv
  <2> HIDE DEF i
  <2>3. /\ finalInstructions' \in Seq(Final)
        /\ Len(finalInstructions') = Len(finalInstructions) + 1
        /\ Len(finalInstructions) = next - 1
    BY <1>3, <2>1, <2>2, FinalAfter DEF i, TypeInv, IsFinal
  <2>4. /\ WrittenGpr(i) \subseteq Reg /\ WrittenPureGpr(i) \subseteq WrittenGpr(i)
    BY <2>2, WrittenTyped
  <2>5. /\ DOMAIN lastPureWrite' =
                 (DOMAIN lastPureWrite \ (CollectReadGprs(i) \cup WrittenGpr(i)))
                   \cup WrittenPureGpr(i)
        /\ \A r \in WrittenPureGpr(i) : lastPureWrite'[r] = Len(finalInstructions) + 1
        /\ \A r \in DOMAIN lastPureWrite \ (CollectReadGprs(i) \cup WrittenGpr(i)) :
                 lastPureWrite'[r] = lastPureWrite[r]
    BY <1>3, <2>4, PendingAfter DEF i
  <2>6. /\ DOMAIN lastPureWrite \subseteq Reg
        /\ \A r \in DOMAIN lastPureWrite : lastPureWrite[r] \in 1..Len(finalInstructions)
        /\ Len(finalInstructions) \in Nat
    BY DEF TypeInv, IsFinal
  <2>7. \A x \in 1..Len(finalInstructions) : x \in 1..(Len(finalInstructions) + 1)
    BY <2>6
  <2>8. IsFinal'
    BY <2>1, <2>3, <2>4, <2>5, <2>6, <2>7 DEF IsFinal
  <2>9. KnownTyped'
    BY <2>1 DEF TypeInv, KnownTyped
  <2>10. next' \in Nat \ {0} /\ next' <= Len(optimized') + 1
    BY <2>1
  <2> QED BY <2>1, <2>8, <2>9, <2>10 DEF TypeInv
<1>4. CASE Rebuild
  <2>1. /\ pass' = "done" /\ block' = Compacted(finalInstructions) /\ pass = "eliminate"
        /\ UNCHANGED <<next, regValues, optimized, finalInstructions, lastPureWrite, input,
                       start, original, rewritten>>
    BY <1>4 DEF Rebuild, machineVars
  <2>2. block' \in Seq({x \in Final : IsKept(x)})
    BY <2>1, CompactedRuns DEF TypeInv, IsFinal
  <2>3. \A x \in {y \in Final : IsKept(y)} : x \in IRInstruction
    BY DEF Final, Dead, IsKept
  <2>4. block' \in Seq(IRInstruction)
    <3> DEFINE S == {y \in Final : IsKept(y)}
    <3> HIDE DEF S
    <3> QED BY <2>2, <2>3 DEF S
  <2>5. IsFinal' /\ KnownTyped'
    BY <2>1 DEF IsFinal, KnownTyped, TypeInv
  <2> QED BY <2>1, <2>4, <2>5 DEF TypeInv
<1>5. CASE UNCHANGED vars
  BY <1>5 DEF vars, passVars, machineVars, TypeInv, IsFinal, KnownTyped
<1> QED BY <1>1, <1>2, <1>3, <1>4, <1>5 DEF Next

(* Every variable of the optimizer keeps its type, for every block,        *)
(* whatever its operations are and compute: what it puts in place of       *)
(* operands are operands again, what it folds is an instruction, and the   *)
(* block it rebuilds holds nothing that was dropped (constantPropagation). *)
THEOREM OptimizerTypeCorrect == Spec => []TypeOK
<1>1. TypeInv => TypeOK
  <2> SUFFICES ASSUME TypeInv PROVE TypeOK
    OBVIOUS
  <2>1. DOMAIN finalInstructions = 1..Len(finalInstructions)
    BY DEF TypeInv, IsFinal
  <2>2. DOMAIN regValues \subseteq Reg /\ \A r \in DOMAIN regValues : regValues[r] \in Word
    BY DEF TypeInv, KnownTyped
  <2> QED BY <2>1, <2>2 DEF TypeInv, IsFinal, TypeOK
<1> QED BY <1>1, TypeInvInit, TypeInvStep, PTL DEF Spec

-----------------------------------------------------------------------------
(* An instruction that reads none of the registers in which two states     *)
(* differ does the same to both.                                           *)
DifferUnread(s, t, R, i) == Agree(s, t, Reg \ R) /\ R \cap CollectReadGprs(i) = {}

SameEffect(s, t, i) ==
    /\ Exec(s, i).rest = Exec(t, i).rest
    /\ \A r \in Reg \cap Assigned(i) : Exec(s, i).gpr[r] = Exec(t, i).gpr[r]
    /\ \A r \in Reg \ Assigned(i) : /\ Exec(s, i).gpr[r] = s.gpr[r]
                                   /\ Exec(t, i).gpr[r] = t.gpr[r]

(* Then it does the same in both of them, and reads what it read.          *)
LEMMA ExecAgrees ==
    ASSUME NEW i \in IRInstruction, TablesCover(i), NEW s, NEW t, NEW R,
           DifferUnread(s, t, R, i)
    PROVE  SameEffect(s, t, i)
<1>0. Agree(s, t, Reg \ R) /\ R \cap CollectReadGprs(i) = {}
  BY DEF DifferUnread
<1>1. s.rest = t.rest /\ \A r \in Reg \ R : s.gpr[r] = t.gpr[r]
  BY <1>0 DEF Agree
<1>2. \A k \in DOMAIN i.args : i.args[k] \in Operand
  BY DEF IRInstruction
<1>3. \A r \in Used(i) : r \in CollectReadGprs(i)
  BY DEF TablesCover
<1>4. \A k \in InputPositions(i) : ValueOf(s, i.args[k]) = ValueOf(t, i.args[k])
  <2> TAKE k \in InputPositions(i)
  <2>1. k \in DOMAIN i.args
    BY DEF InputPositions
  <2>2. CASE i.args[k].kind = "gpr"
    <3>1. i.args[k].value \in Used(i)
      BY <2>2 DEF Used
    <3>2. i.args[k].value \in Reg
      <4>1. i.args[k] \in Operand
        BY <1>2, <2>1
      <4> QED BY <2>2, <4>1 DEF Operand, Gpr, Fpr, Imm
    <3>3. i.args[k].value \in Reg \ R
      BY <1>0, <1>3, <3>1, <3>2
    <3> QED BY <1>1, <2>2, <3>3 DEF ValueOf
  <2>3. CASE i.args[k].kind # "gpr"
    BY <2>3 DEF ValueOf
  <2> QED BY <2>2, <2>3
<1>5. Inputs(s, i) = Inputs(t, i)
  BY <1>4 DEF Inputs
<1>6. Stored(s, i) = Stored(t, i)
  <2>1. \A r \in StoredRegs(i) : r \in Reg
    <3>1. i.op = "Stmw" => i.args[1].value \in Reg
      BY FirstOperand DEF Gpr
    <3>2. \A m \in Reg : \A r \in m..LastReg : r \in Reg
      BY IRAssumption DEF Reg
    <3> QED BY <3>1, <3>2 DEF StoredRegs
  <2>2. \A r \in StoredRegs(i) : r \in Reg \ R
    BY <1>0, <1>3, <2>1 DEF Used
  <2>3. \A r \in StoredRegs(i) : s.gpr[r] = t.gpr[r]
    BY <1>1, <2>2
  <2> QED BY <2>3 DEF Stored
<1>7. \A r : Result(s, i, r) = Result(t, i, r)
  <2> TAKE r
  <2>1. CASE i.op \in {"SetImm", "SetReg", "Add", "LoadFloatXU"}
    <3>1. /\ 2 \in InputPositions(i)
          /\ i.op \in {"Add", "LoadFloatXU"} => 3 \in InputPositions(i)
      BY <2>1 DEF IRInstruction, Args, InputPositions, HasResult
    <3>2. ValueOf(s, i.args[2]) = ValueOf(t, i.args[2])
      BY <1>4, <3>1
    <3>3. i.op \in {"Add", "LoadFloatXU"} => ValueOf(s, i.args[3]) = ValueOf(t, i.args[3])
      BY <1>4, <3>1
    <3> QED BY <2>1, <3>2, <3>3 DEF Result, Sum
  <2>2. CASE i.op \notin {"SetImm", "SetReg", "Add", "LoadFloatXU"}
    BY <1>1, <1>5, <1>6, <2>2 DEF Result
  <2> QED BY <2>1, <2>2
<1>8. Exec(s, i).rest = Exec(t, i).rest
  BY <1>1, <1>5, <1>6 DEF Exec
<1>9. \A r \in Reg : /\ Exec(s, i).gpr[r] = IF r \in Assigned(i) THEN Result(s, i, r) ELSE s.gpr[r]
                     /\ Exec(t, i).gpr[r] = IF r \in Assigned(i) THEN Result(t, i, r) ELSE t.gpr[r]
  BY DEF Exec
<1> QED BY <1>7, <1>8, <1>9 DEF SameEffect

-----------------------------------------------------------------------------
(* The writes of the registers of R, where they stand.                     *)
WritesOf(R) == {lastPureWrite[r] : r \in R}

(* Taking any of the pending writes out is told by their registers alone.  *)
Unread ==
    \A R \in SUBSET DOMAIN lastPureWrite :
        Agree(Run(start, Taken(finalInstructions, WritesOf(R))),
              States(start, optimized)[next - 1], Reg \ R)

(* The choice of writes after an instruction, seen before it: those that   *)
(* are taken then, and those it overwrites.                                *)
Before(R, i) ==
    (R \ WrittenPureGpr(i)) \cup (WrittenGpr(i) \cap (DOMAIN lastPureWrite \ CollectReadGprs(i)))

(* Before a write is recorded, the writes without it were pending already. *)
LEMMA BeforeIsPending ==
    ASSUME Eliminate, NEW i \in IRInstruction, i = optimized[next],
           NEW R \in SUBSET DOMAIN lastPureWrite'
    PROVE  /\ Before(R, i) \in SUBSET DOMAIN lastPureWrite
           /\ Before(R, i) \cap CollectReadGprs(i) = {}
           /\ R \ WrittenPureGpr(i) \subseteq
                DOMAIN lastPureWrite \ (CollectReadGprs(i) \cup WrittenGpr(i))
<1>1. DOMAIN lastPureWrite' =
        (DOMAIN lastPureWrite \ (CollectReadGprs(i) \cup WrittenGpr(i))) \cup WrittenPureGpr(i)
  BY PendingAfter, WrittenTyped
<1> QED BY <1>1 DEF Before

(* What is taken afterwards is, up to the instruction, what was taken      *)
(* before.                                                                 *)
LEMMA TakenBefore ==
    ASSUME IsFinal, Eliminate, NEW i \in IRInstruction, i = optimized[next],
           NEW R \in SUBSET DOMAIN lastPureWrite',
           NEW k \in 1..Len(finalInstructions)
    PROVE  Taken(finalInstructions', WritesOf(R)')[k]
             = Taken(finalInstructions, WritesOf(Before(R, i)))[k]
<1> DEFINE q == finalInstructions
           n == Len(q)
           g == Taken(q, Overwritten(i))
<1>1. /\ finalInstructions' = Append(g, i) /\ finalInstructions' \in Seq(Final)
      /\ Len(finalInstructions') = n + 1 /\ n \in Nat /\ q \in Seq(Final)
      /\ g \in Seq(Final) /\ Len(g) = n /\ k \in 1..n
      /\ g[k] = IF k \in Overwritten(i) THEN None(q[k]) ELSE q[k]
  BY FinalAfter, TakenFacts DEF IsFinal
<1> HIDE DEF n, g, q
<1>2. finalInstructions'[k] = g[k] /\ k \in 1..(n + 1) /\ k # n + 1
  BY <1>1
<1>3. q[k] \in Final
  BY <1>1 DEF n
<1>4. /\ \A r \in WrittenPureGpr(i) : lastPureWrite'[r] = n + 1
      /\ \A r \in DOMAIN lastPureWrite \ (CollectReadGprs(i) \cup WrittenGpr(i)) :
                 lastPureWrite'[r] = lastPureWrite[r]
  BY PendingAfter, WrittenTyped DEF n, q
<1>5. \A r \in R \ WrittenPureGpr(i) : lastPureWrite'[r] = lastPureWrite[r]
  BY <1>4, BeforeIsPending
<1>6. k \in WritesOf(R)' <=> \E r \in R \ WrittenPureGpr(i) : lastPureWrite[r] = k
  BY <1>2, <1>4, <1>5 DEF WritesOf
<1>7. k \in Overwritten(i)
        <=> \E r \in WrittenGpr(i) \cap (DOMAIN lastPureWrite \ CollectReadGprs(i)) :
               lastPureWrite[r] = k
  BY DEF Overwritten, Pending, Without, Fun!Restrict
<1>8. k \in WritesOf(Before(R, i)) <=> k \in WritesOf(R)' \/ k \in Overwritten(i)
  BY <1>6, <1>7 DEF WritesOf, Before
<1>9. Taken(finalInstructions', WritesOf(R)')[k]
        = IF k \in WritesOf(R)' THEN None(g[k]) ELSE g[k]
  <2> DEFINE f == finalInstructions'
             K == WritesOf(R)'
  <2>1. f \in Seq(Final) /\ k \in 1..Len(f) /\ f[k] = g[k]
    BY <1>1, <1>2
  <2> HIDE DEF f, K
  <2>2. Taken(f, K)[k] = IF k \in K THEN None(f[k]) ELSE f[k]
    BY <2>1, TakenFacts
  <2> QED BY <2>1, <2>2 DEF f, K
<1>10. Taken(q, WritesOf(Before(R, i)))[k]
         = IF k \in WritesOf(Before(R, i)) THEN None(q[k]) ELSE q[k]
  BY <1>1, TakenFacts DEF n
<1>11. None(None(q[k])) = None(q[k])
  BY <1>3, NoneTyped
<1> QED BY <1>1, <1>8, <1>9, <1>10, <1>11 DEF q

(* The instruction itself goes if its write is taken.                      *)
LEMMA TakenLast ==
    ASSUME IsFinal, Eliminate, NEW i \in IRInstruction, i = optimized[next],
           NEW R \in SUBSET DOMAIN lastPureWrite'
    PROVE  Taken(finalInstructions', WritesOf(R)')[Len(finalInstructions) + 1]
             = IF R \cap WrittenPureGpr(i) = {} THEN i ELSE None(i)
<1> DEFINE n == Len(finalInstructions)
           f == finalInstructions'
           K == WritesOf(R)'
<1>1. /\ f = Append(Taken(finalInstructions, Overwritten(i)), i) /\ f \in Seq(Final)
      /\ Len(f) = n + 1 /\ n \in Nat
      /\ Taken(finalInstructions, Overwritten(i)) \in Seq(Final)
      /\ Len(Taken(finalInstructions, Overwritten(i))) = n
  BY FinalAfter, TakenFacts DEF IsFinal
<1>2. f[n + 1] = i
  <2> DEFINE g == Taken(finalInstructions, Overwritten(i))
  <2>1. f = Append(g, i) /\ g \in Seq(Final) /\ Len(g) = n
    BY <1>1
  <2> HIDE DEF g, f, n
  <2> QED BY <2>1
<1>3. /\ \A r \in WrittenPureGpr(i) : lastPureWrite'[r] = n + 1
      /\ \A r \in R \ WrittenPureGpr(i) :
            lastPureWrite'[r] = lastPureWrite[r] /\ lastPureWrite[r] \in 1..n
  BY PendingAfter, WrittenTyped, BeforeIsPending DEF IsFinal
<1>4. n + 1 \in K <=> R \cap WrittenPureGpr(i) # {}
  <2>1. \A x \in 1..n : x # n + 1
    BY <1>1
  <2> QED BY <1>3, <2>1 DEF WritesOf
<1> HIDE DEF f, K, n
<1>5. Taken(f, K)[n + 1] = IF n + 1 \in K THEN None(f[n + 1]) ELSE f[n + 1]
  <2>1. f \in Seq(Final) /\ n + 1 \in 1..Len(f)
    BY <1>1
  <2> QED BY <2>1, TakenFacts
<1> QED BY <1>2, <1>4, <1>5 DEF f, K, n

(* One instruction of the second pass keeps the invariant.                 *)
LEMMA UnreadStep ==
    ASSUME TypeInv, Unread, Eliminate, TablesCover(optimized[next])
    PROVE  Unread'
<1> DEFINE i == optimized[next]
           n == Len(finalInstructions)
<1>1. /\ i \in IRInstruction /\ TablesCover(i) /\ IsFinal /\ n \in Nat
      /\ next \in 1..Len(optimized) /\ next' = next + 1 /\ UNCHANGED <<optimized, start>>
  BY DEF TypeInv, IsFinal, Eliminate, machineVars
<1>2. i = optimized[next]
  OBVIOUS
<1> HIDE DEF i
<1>3. SUFFICES ASSUME NEW R \in SUBSET DOMAIN lastPureWrite'
               PROVE  Agree(Run(start, Taken(finalInstructions', WritesOf(R)')),
                            States(start, optimized)[next], Reg \ R)
  <2>1. next' - 1 = next
    BY <1>1
  <2> QED BY <1>1, <2>1 DEF Unread, Agree
<1> DEFINE B == Before(R, i)
           u == Taken(finalInstructions, WritesOf(B))
           v == Taken(finalInstructions', WritesOf(R)')
           s == Run(start, u)
           t == States(start, optimized)[next - 1]
           j == IF R \cap WrittenPureGpr(i) = {} THEN i ELSE None(i)
<1>4. /\ Len(u) = n /\ Len(v) = n + 1
      /\ \A k \in 1..n : v[k] = u[k]
      /\ v[n + 1] = j
  <2>1. Len(u) = n
    BY <1>1, TakenFacts DEF IsFinal
  <2>2. Len(v) = n + 1
    <3> DEFINE f == finalInstructions'
               K == WritesOf(R)'
    <3>1. f \in Seq(Final) /\ Len(f) = n + 1
      BY <1>1, <1>2, FinalAfter
    <3> HIDE DEF f, K
    <3>2. Len(Taken(f, K)) = Len(f)
      BY <3>1, TakenFacts
    <3> QED BY <3>1, <3>2 DEF f, K
  <2> QED BY <1>1, <1>2, <2>1, <2>2, TakenBefore, TakenLast
<1>5. Agree(s, t, Reg \ B) /\ B \cap CollectReadGprs(i) = {}
  BY <1>1, <1>2, BeforeIsPending DEF Unread
<1>6. Run(start, v) = Step(s, j)
  <2> HIDE DEF u, v, s, j, n
  <2>1. States(start, v)[n] = States(start, u)[n]
    BY <1>1, <1>4, SamePrefix
  <2>2. States(start, v)[n + 1] = Step(States(start, v)[(n + 1) - 1], v[n + 1])
    BY <1>1, <1>4, StatesSteps
  <2>3. (n + 1) - 1 = n
    BY <1>1
  <2>4. s = States(start, u)[n]
    BY <1>4 DEF Run, s
  <2> QED BY <1>4, <2>1, <2>2, <2>3, <2>4 DEF Run
<1>7. States(start, optimized)[next] = Exec(t, i)
  <2>1. IsKept(i)
    BY <1>1, NoneTyped DEF Final
  <2>2. States(start, optimized)[next] = Step(t, i)
    BY <1>1, <1>2, StatesSteps DEF TypeInv
  <2> QED BY <2>1, <2>2 DEF Step
<1> HIDE DEF s, t, u, v, n
<1>8. /\ WrittenGpr(i) \subseteq Assigned(i) /\ Assigned(i) \subseteq WrittenGpr(i)
      /\ WrittenPureGpr(i) \subseteq WrittenGpr(i) /\ \A r, q \in WrittenGpr(i) : r = q
  BY <1>1, WrittenTyped DEF TablesCover
<1>9. /\ Exec(s, i).rest = Exec(t, i).rest
      /\ \A r \in Reg \cap Assigned(i) : Exec(s, i).gpr[r] = Exec(t, i).gpr[r]
      /\ \A r \in Reg \ Assigned(i) : /\ Exec(s, i).gpr[r] = s.gpr[r]
                                     /\ Exec(t, i).gpr[r] = t.gpr[r]
  <2> HIDE DEF B
  <2>1. DifferUnread(s, t, B, i)
    BY <1>5 DEF DifferUnread
  <2>2. SameEffect(s, t, i)
    BY <1>1, <2>1, ExecAgrees
  <2> QED BY <2>2 DEF SameEffect
<1>10. \A r \in Reg \ R : r \notin Assigned(i) => s.gpr[r] = t.gpr[r]
  <2> TAKE r \in Reg \ R
  <2> HAVE r \notin Assigned(i)
  <2>1. r \in Reg \ B
    BY <1>8 DEF Before
  <2> QED BY <1>5, <2>1 DEF Agree
<1>11. CASE R \cap WrittenPureGpr(i) = {}
  <2>1. Step(s, j) = Exec(s, i)
    <3>1. IsKept(i)
      BY <1>1, NoneTyped DEF Final
    <3> QED BY <1>11, <3>1 DEF Step
  <2>2. \A r \in Reg \ R : Exec(s, i).gpr[r] = Exec(t, i).gpr[r]
    BY <1>9, <1>10
  <2>3. Agree(Exec(s, i), Exec(t, i), Reg \ R)
    BY <1>9, <2>2 DEF Agree
  <2> QED BY <1>6, <1>7, <2>1, <2>3 DEF v
<1>12. CASE R \cap WrittenPureGpr(i) # {}
  <2>1. Step(s, j) = s
    <3>1. ~IsKept(None(i))
      BY <1>1, NoneTyped DEF Final
    <3> QED BY <1>12, <3>1 DEF Step
  <2>2. IsPure(i) /\ \A r \in Reg \ R : r \notin Assigned(i)
    <3>1. PICK w \in R : w \in WrittenPureGpr(i)
      BY <1>12
    <3>2. WritesPureGprValue(i)
      BY <3>1 DEF WrittenPureGpr
    <3>3. \A r \in Assigned(i) : r = w
      BY <1>8, <3>1
    <3> QED BY <1>1, <3>2, <3>3 DEF TablesCover
  <2>3. Exec(t, i).rest = s.rest
    <3>1. Exec(t, i).rest = t.rest
      BY <2>2 DEF Exec
    <3> QED BY <1>5, <3>1 DEF Agree
  <2>4. \A r \in Reg \ R : s.gpr[r] = Exec(t, i).gpr[r]
    BY <1>9, <1>10, <2>2
  <2>5. Agree(s, Exec(t, i), Reg \ R)
    BY <2>3, <2>4 DEF Agree
  <2> QED BY <1>6, <1>7, <2>1, <2>5 DEF v
<1> QED BY <1>11, <1>12

-----------------------------------------------------------------------------
Tabled(q) == \A k \in DOMAIN q : q[k].op \in TabledOps

(* The second pass: its input runs as the machine beside the first pass    *)
(* has run, and so does what it hands over.                                *)
EliminationInv ==
    /\ pass = "propagate" => block \in Blocks
    /\ Tabled(optimized)
    /\ rewritten = Run(start, optimized)
    /\ pass = "eliminate" => Unread
    /\ pass = "done" => Run(start, block) = Run(start, optimized)

(* At first nothing was rewritten and nothing was run.                     *)
LEMMA EliminationInvInit == Init => EliminationInv
<1> SUFFICES ASSUME Init PROVE EliminationInv
  OBVIOUS
<1>1. optimized = << >> /\ rewritten = start /\ pass = "propagate" /\ block \in Blocks
  BY DEF Init
<1>2. Run(start, optimized) = start
  BY <1>1, RunNothing
<1>3. Tabled(optimized)
  BY <1>1 DEF Tabled
<1> QED BY <1>1, <1>2, <1>3 DEF EliminationInv

(* Nothing is left out yet.                                                *)
LEMMA EliminationBegins ==
    ASSUME TypeInv, BeginElimination
    PROVE  Unread'
<1>1. /\ pass = "propagate" /\ next' = 1
      /\ UNCHANGED <<optimized, finalInstructions, lastPureWrite, start>>
  BY DEF BeginElimination, machineVars
<1>2. finalInstructions \in Seq(Final) /\ Len(finalInstructions) = 0
  BY <1>1 DEF TypeInv, IsFinal
<1>3. DOMAIN lastPureWrite = {}
  <2>1. \A r \in DOMAIN lastPureWrite : lastPureWrite[r] \in 1..Len(finalInstructions)
    BY DEF TypeInv, IsFinal
  <2>2. 1..Len(finalInstructions) = {}
    BY <1>2
  <2> QED BY <2>1, <2>2
<1>4. Len(optimized) \in Nat
  BY DEF TypeInv
<1>5. States(start, optimized)[0] = start
  BY <1>4, StatesSteps
<1>6. Run(start, Taken(finalInstructions, WritesOf({}))) = start
  <2> DEFINE u == Taken(finalInstructions, WritesOf({}))
  <2>1. Len(u) = 0
    BY <1>2, TakenFacts
  <2> HIDE DEF u
  <2>2. Len(u) \in Nat
    BY <2>1
  <2>3. States(start, u)[0] = start
    BY <2>2, StatesSteps
  <2>4. Run(start, u) = start
    BY <2>1, <2>3 DEF Run
  <2> QED BY <2>4 DEF u
<1>7. next' - 1 = 0
  BY <1>1
<1>8. \A R \in SUBSET DOMAIN lastPureWrite : R = {}
  BY <1>3
<1> QED BY <1>1, <1>5, <1>6, <1>7, <1>8 DEF Unread, Agree, WritesOf

(* What is handed over does what the second pass was given.                *)
LEMMA RebuiltAgrees ==
    ASSUME TypeInv, Unread, Rebuild
    PROVE  Run(start, block') = Run(start, optimized)
<1>1. /\ block' = Compacted(finalInstructions) /\ pass = "eliminate"
      /\ next > Len(optimized)
  BY DEF Rebuild
<1>2. /\ finalInstructions \in Seq(Final) /\ Len(optimized) \in Nat
      /\ next \in Nat /\ next <= Len(optimized) + 1 /\ start \in State
      /\ Len(finalInstructions) \in Nat
  BY <1>1 DEF TypeInv, IsFinal
<1>3. next - 1 = Len(optimized)
  BY <1>1, <1>2
<1>4. Run(start, block') = Run(start, finalInstructions)
  BY <1>1, <1>2, CompactedRuns
<1>5. Run(start, Taken(finalInstructions, WritesOf({}))) = Run(start, finalInstructions)
  <2> DEFINE u == Taken(finalInstructions, WritesOf({}))
             n == Len(finalInstructions)
  <2>1. Len(u) = n /\ \A k \in 1..n : u[k] = finalInstructions[k]
    <3>1. WritesOf({}) = {}
      BY DEF WritesOf
    <3> QED BY <1>2, <3>1, TakenFacts
  <2> HIDE DEF u
  <2>2. States(start, u)[n] = States(start, finalInstructions)[n]
    BY <1>2, <2>1, SamePrefix
  <2> QED BY <2>1, <2>2 DEF Run, u
<1>6. Agree(Run(start, finalInstructions), Run(start, optimized), Reg)
  <2>1. {} \in SUBSET DOMAIN lastPureWrite /\ Reg \ {} = Reg
    OBVIOUS
  <2>2. Agree(Run(start, Taken(finalInstructions, WritesOf({}))),
              States(start, optimized)[next - 1], Reg \ {})
    BY <2>1 DEF Unread
  <2> QED BY <1>3, <1>5, <2>1, <2>2 DEF Run
<1>7. IsState(start)
  BY <1>2 DEF State, IsState
<1>8. IsState(Run(start, finalInstructions)) /\ IsState(Run(start, optimized))
  BY <1>2, <1>7, RunGivesState DEF Run
<1> QED BY <1>4, <1>6, <1>8, SameState

(* Each of the actions preserves it.                                       *)
LEMMA EliminationInvStep ==
    ASSUME \A b \in Blocks : Tabled(b), TypeInv, EliminationInv, [Next]_vars
    PROVE  EliminationInv'
<1>1. CASE Propagate
  <2> DEFINE i == block[next]
             j == Rewrite(i)
  <2>1. /\ i \in IRInstruction /\ i.op \in TabledOps /\ KnownTyped
        /\ optimized \in Seq(IRInstruction)
    BY <1>1 DEF Propagate, TypeInv, EliminationInv, Tabled
  <2>2. j \in IRInstruction /\ j.op \in TabledOps
    BY <2>1, RewriteTyped
  <2>3. /\ optimized' = Append(optimized, j) /\ rewritten' = Exec(rewritten, j)
        /\ pass = "propagate" /\ UNCHANGED <<block, pass, start>>
    BY <1>1 DEF Propagate, Rewrite
  <2> HIDE DEF i, j
  <2>4. IsKept(j)
    BY <2>2, NoneTyped DEF Final
  <2>5. Run(start, optimized') = Step(Run(start, optimized), j)
    BY <2>1, <2>2, <2>3, RunAppend
  <2>6. rewritten' = Run(start', optimized')
    BY <2>3, <2>4, <2>5 DEF Step, EliminationInv
  <2>7. Tabled(optimized')
    BY <2>1, <2>2, <2>3 DEF Tabled, EliminationInv
  <2> QED BY <2>3, <2>6, <2>7 DEF EliminationInv, Tabled
<1>2. CASE BeginElimination
  <2>1. /\ pass' = "eliminate" /\ UNCHANGED <<block, optimized, start, rewritten>>
    BY <1>2 DEF BeginElimination, machineVars
  <2>2. Unread'
    BY <1>2, EliminationBegins
  <2> QED BY <2>1, <2>2 DEF EliminationInv, Tabled
<1>3. CASE Eliminate
  <2>1. /\ pass = "eliminate" /\ next \in 1..Len(optimized)
        /\ UNCHANGED <<pass, block, optimized, start, rewritten>>
    BY <1>3 DEF Eliminate, machineVars, TypeInv
  <2>2. optimized[next] \in IRInstruction /\ optimized[next].op \in TabledOps
    BY <2>1 DEF TypeInv, EliminationInv, Tabled
  <2>3. TablesCover(optimized[next])
    BY <2>2, TabledOpIsCovered
  <2>4. Unread'
    BY <1>3, <2>1, <2>3, UnreadStep DEF EliminationInv
  <2> QED BY <2>1, <2>4 DEF EliminationInv, Tabled
<1>4. CASE Rebuild
  <2>1. /\ pass = "eliminate" /\ pass' = "done" /\ UNCHANGED <<optimized, start, rewritten>>
    BY <1>4 DEF Rebuild, machineVars
  <2>2. Run(start, block') = Run(start, optimized)
    BY <1>4, <2>1, RebuiltAgrees DEF EliminationInv
  <2> QED BY <2>1, <2>2 DEF EliminationInv, Tabled
<1>5. CASE UNCHANGED vars
  <2>1. UNCHANGED <<block, pass, next, optimized, finalInstructions, lastPureWrite, start,
                    rewritten>>
    BY <1>5 DEF vars, passVars, machineVars
  <2>2. Unread' <=> Unread
    BY <2>1 DEF Unread, WritesOf
  <2> QED BY <2>1, <2>2 DEF EliminationInv, Tabled
<1> QED BY <1>1, <1>2, <1>3, <1>4, <1>5 DEF Next

(* Stated for the states that the run checks.                              *)
LEMMA UnreadWrites == TypeInv /\ EliminationInv => PendingWritesAreUnread
<1> SUFFICES ASSUME TypeInv, EliminationInv, pass = "eliminate",
                    NEW R \in SUBSET DOMAIN lastPureWrite
             PROVE  LET kept == [k \in DOMAIN finalInstructions |->
                           IF \E r \in R : lastPureWrite[r] = k
                           THEN None(finalInstructions[k]) ELSE finalInstructions[k]]
                    IN  Agree(Run(start, kept), Run(start, SubSeq(optimized, 1, next - 1)),
                              Reg \ R)
  BY DEF PendingWritesAreUnread
<1> DEFINE kept == [k \in DOMAIN finalInstructions |->
                      IF \E r \in R : lastPureWrite[r] = k
                      THEN None(finalInstructions[k]) ELSE finalInstructions[k]]
<1>1. kept = Taken(finalInstructions, WritesOf(R))
  <2>1. \A k : (\E r \in R : lastPureWrite[r] = k) <=> k \in WritesOf(R)
    BY DEF WritesOf
  <2> QED BY <2>1 DEF Taken
<1>2. Run(start, SubSeq(optimized, 1, next - 1)) = States(start, optimized)[next - 1]
  <2>1. next - 1 \in 0..Len(optimized) /\ optimized \in Seq(IRInstruction)
    BY DEF TypeInv
  <2> QED BY <2>1, RunPrefix
<1>3. Agree(Run(start, Taken(finalInstructions, WritesOf(R))),
            States(start, optimized)[next - 1], Reg \ R)
  BY DEF EliminationInv, Unread
<1> HIDE DEF kept
<1>4. Agree(Run(start, kept), Run(start, SubSeq(optimized, 1, next - 1)), Reg \ R)
  BY <1>1, <1>2, <1>3
<1> QED BY <1>4 DEF kept

(* In a program of operations that the tables describe, the block that is  *)
(* handed to the emitter does what the lifted block does, and of the       *)
(* writes that the second pass holds for removable any may go: for every   *)
(* block, state, number of registers, width and meaning of the operations  *)
(* (constantPropagation, operandIsRead, writesPureGprValue).               *)
THEOREM TabledBlocksSurvive ==
    ASSUME \A b \in Blocks : \A k \in DOMAIN b : b[k].op \in TabledOps
    PROVE  Spec => [](PendingWritesAreUnread /\ OptimizedAgrees)
<1>1. \A b \in Blocks : Tabled(b)
  BY DEF Tabled
<1>2. TypeInv /\ EliminationInv /\ [Next]_vars => EliminationInv'
  BY <1>1, EliminationInvStep
<1>3. EliminationInv /\ RewrittenAgrees => OptimizedAgrees
  BY DEF EliminationInv, RewrittenAgrees, OptimizedAgrees
<1>4. Spec => []RewrittenAgrees
  BY TabledBlocksAgree, PTL
<1>5. Spec => [](TypeInv /\ EliminationInv)
  BY <1>2, TypeInvInit, TypeInvStep, EliminationInvInit, PTL DEF Spec
<1> QED BY <1>3, <1>4, <1>5, UnreadWrites, PTL
=============================================================================
