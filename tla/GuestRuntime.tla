---------------------------- MODULE GuestRuntime ----------------------------
(***************************************************************************)
(* What the generated functions run on: carry chains, memory and quantized *)
(* pairs over that memory (recomp_runtime.h) and the dispatcher            *)
(* (jump_table.c), used in any order.                                      *)
(***************************************************************************)
EXTENDS CarryChain, PairedSingles, Dispatcher

CONSTANT Budgets    \* bounds: operations of each part in one behaviour

ASSUME BudgetsAssumption == Budgets \subseteq [{"carry", "memory", "pairs", "calls"} -> Nat]

VARIABLE left       \* of the budget

vars == <<left, carryVars, memoryVars, pairVars, callVars>>

Init ==
    /\ left \in Budgets
    /\ CarryInit /\ MemoryInit /\ PairInit /\ CallInit

Spend(part) == left[part] > 0 /\ left' = [left EXCEPT ![part] = @ - 1]

Arithmetic == Spend("carry") /\ CarryNext /\ UNCHANGED <<memoryVars, pairVars, callVars>>

(* What was stored last is no longer known once memory has changed.        *)
Memory ==
    /\ Spend("memory") /\ MemoryNext
    /\ kept' = IF ram' = ram THEN kept ELSE None
    /\ UNCHANGED <<carryVars, pair, gqr, callVars>>

Pairs == Spend("pairs") /\ PairNext /\ UNCHANGED <<carryVars, callVars>>

Calls == Spend("calls") /\ CallNext /\ UNCHANGED <<carryVars, memoryVars, pairVars>>

Next == Arithmetic \/ Memory \/ Pairs \/ Calls

Spec == Init /\ [][Next]_vars

TypeOK ==
    /\ CarryTypeOK /\ MemoryTypeOK /\ PairTypeOK /\ CallTypeOK
    /\ left \in [{"carry", "memory", "pairs", "calls"} -> Nat]

(* Seen at any base and by any width, the array is a memory of bytes: an   *)
(* aligned access reaches each of its bytes at the byte's own address, and *)
(* nothing else; a quantized store changes no byte but those of its        *)
(* elements (MEM_READ8_FN to MEM_WRITE_DOUBLE_FN, LMW, STMW, DCBZ).        *)
Flat == INSTANCE ByteMemory

MemoryIsBytes ==
    [][ CASE left'["memory"] < left["memory"] -> Flat!Access
          [] left'["pairs"] < left["pairs"]   -> Flat!PairAccess \/ UNCHANGED memoryVars
          [] OTHER -> UNCHANGED memoryVars ]_vars
=============================================================================
