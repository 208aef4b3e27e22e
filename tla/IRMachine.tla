------------------------------ MODULE IRMachine ------------------------------
(***************************************************************************)
(* What the C emitted for one IR instruction does to the general purpose   *)
(* registers.  Memory, carry, condition register, floating point and       *)
(* special registers are one value, rest.                                  *)
(*                                                                         *)
(* An operation stands for all that are emitted and optimized alike:       *)
(*   Sub     every two- or one-operand result without side effect: Mul,    *)
(*           MulHighS, MulHighU, DivS, DivU, And, Or, Xor, Nor, Andc, Orc, *)
(*           Nand, Shl, Shr, Sar, Rol, Mask, Extsb, Extsh, Cntlzw          *)
(*   Load32  every load of one register; Mfspr also Mfcr and Mfmsr         *)
(*   Store32 every store of one register; Cmp also Cmpl                    *)
(*   Neg     also Eqv; Adde also Subfc, Addc, Subfe, Subfze and the rest   *)
(*   LoadFloat    every floating-point access that updates no register     *)
(*   LoadFloatXU  LoadDoubleXU, StoreFloatXU, StoreDoubleXU, PsqLoadU,     *)
(*                PsqStoreU: the access also writes the address register   *)
(***************************************************************************)
EXTENDS Integers, Sequences

CONSTANTS
    LastReg,        \* registers are numbered from 0; 31 in the code
    Modulus,        \* of the register width, 2^32 in the code
    Compute(_, _, _, _) \* what an operation computes for a register or rest,
                        \* of its operands, the registers it stores, and rest

Reg  == 0..LastReg
Word == 0..(Modulus - 1)
Rest == LastReg + 1   \* names the rest of the state where a register goes

State == [gpr : [Reg -> Word], rest : Word]

ASSUME IRAssumption ==
    /\ LastReg \in Nat
    /\ Modulus \in Nat \ {0}

-----------------------------------------------------------------------------
(* IROperand and IRInstruction.  Constant operands that only select a      *)
(* field (shift and mask bounds) are left out.                             *)
Gpr == [kind : {"gpr"}, value : Reg]
Fpr == [kind : {"fpr"}, value : Reg]
Imm == [kind : {"imm"}, value : Word]
Operand == Gpr \cup Fpr \cup Imm

IROp ==
    {"SetImm", "SetReg", "Add", "Sub", "Addic", "Neg", "Adde", "Rlwimi", "Load32",
     "Mfspr", "Lmw", "Store32", "Stmw", "Dcbz", "Cmp", "Mtspr", "LoadFloat",
     "LoadFloatXU", "BranchTable"}

Args(op) ==
    CASE op \in {"SetImm", "Mfspr"}        -> Gpr \X Imm
      [] op = "SetReg"                     -> (Gpr \cup Fpr) \X Operand
      [] op \in {"Neg", "Rlwimi"}          -> Gpr \X (Gpr \cup Imm)
      [] op \in {"Add", "Sub", "Addic", "Adde", "Load32", "Lmw", "Stmw"}
                                           -> Gpr \X (Gpr \cup Imm) \X (Gpr \cup Imm)
      [] op = "Store32"                    -> (Gpr \cup Imm) \X (Gpr \cup Imm) \X (Gpr \cup Imm)
      [] op \in {"LoadFloat", "LoadFloatXU"} -> Fpr \X (Gpr \cup Imm) \X (Gpr \cup Imm)
      [] op = "Cmp"                        -> Imm \X (Gpr \cup Imm) \X (Gpr \cup Imm)
      [] op = "Mtspr"                      -> Imm \X (Gpr \cup Imm)
      [] op = "Dcbz"                       -> (Gpr \cup Imm) \X (Gpr \cup Imm)
      [] op = "BranchTable"                -> (Gpr \cup Imm) \X Imm

IRInstruction == {i \in [op : IROp, args : Seq(Operand)] : i.args \in Args(i.op)}

-----------------------------------------------------------------------------
(* The first operand is where the result goes, and is not read.            *)
HasResult == {"SetImm", "SetReg", "Add", "Sub", "Addic", "Neg", "Adde", "Load32",
              "Mfspr", "LoadFloat", "LoadFloatXU"}

(* The registers the C assigns, and those it reads.                        *)
Assigned(i) ==
    CASE i.op = "Lmw"         -> i.args[1].value..LastReg
      [] i.op = "LoadFloatXU" -> {i.args[2].value} \cap Reg
      [] i.op \in {"SetReg", "Rlwimi"} \cup (HasResult \ {"LoadFloat", "LoadFloatXU"}) ->
           IF i.args[1].kind = "gpr" THEN {i.args[1].value} ELSE {}
      [] OTHER                -> {}

InputPositions(i) ==
    DOMAIN i.args \ (IF i.op \in HasResult \cup {"Lmw", "Stmw"} THEN {1} ELSE {})

StoredRegs(i) == IF i.op = "Stmw" THEN i.args[1].value..LastReg ELSE {}

Used(i) ==
    {i.args[k].value : k \in {j \in InputPositions(i) : i.args[j].kind = "gpr"}}
      \cup StoredRegs(i)

(* Only registers change, and only by the operands.                        *)
IsPure(i) ==
    \/ i.op \in {"SetImm", "Add", "Sub", "Neg", "Rlwimi", "BranchTable"}
    \/ i.op = "SetReg" /\ i.args[1].kind = "gpr"

-----------------------------------------------------------------------------
ValueOf(s, a) == IF a.kind = "gpr" THEN s.gpr[a.value] ELSE a.value

Inputs(s, i) == [k \in InputPositions(i) |-> ValueOf(s, i.args[k])]
Stored(s, i) == [r \in StoredRegs(i) |-> s.gpr[r]]

Sum(s, i) == (ValueOf(s, i.args[2]) + ValueOf(s, i.args[3])) % Modulus

Result(s, i, r) ==
    CASE i.op \in {"SetImm", "SetReg"}      -> ValueOf(s, i.args[2])
      [] i.op \in {"Add", "LoadFloatXU"}    -> Sum(s, i)
      [] OTHER -> Compute(<<i.op, r>>, Inputs(s, i), Stored(s, i), s.rest)

Exec(s, i) ==
    [gpr  |-> [r \in Reg |-> IF r \in Assigned(i) THEN Result(s, i, r) ELSE s.gpr[r]],
     rest |-> IF IsPure(i) THEN s.rest
              ELSE Compute(<<i.op, Rest>>, Inputs(s, i), Stored(s, i), s.rest)]
=============================================================================
