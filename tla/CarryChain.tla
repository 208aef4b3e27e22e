----------------------------- MODULE CarryChain -----------------------------
(***************************************************************************)
(* Sums and differences of numbers of several words, as guest code forms   *)
(* them: one instruction per word, the least significant first, which hand *)
(* the carry on in XER[CA].  recomp_runtime.h computes the carry in three  *)
(* ways: by comparing the result (ADDIC, PPC_ADDC), by a case distinction  *)
(* that a wide sum then corrects (PPC_SUBFC), and by a wide sum alone.     *)
(*                                                                         *)
(* exact is history: the number that the chain so far ought to stand for.  *)
(***************************************************************************)
EXTENDS MachineWords

CONSTANT Operands    \* words that instructions are run on

ASSUME OperandsAssumption == Operands \subseteq Word

VARIABLES
    ca,       \* XER[CA]
    mode,     \* "none", "add", "subtract"
    weight,   \* Modulus to the number of words done
    result,   \* the result's words so far, as one number
    exact     \* the operands' words so far, added or subtracted

carryVars == <<ca, mode, weight, result, exact>>

(* The first instruction of a chain does not read the carry.               *)
CarryInit ==
    /\ ca = 0
    /\ mode = "none" /\ weight = 1 /\ result = 0 /\ exact = 0

Not(a) == Modulus - 1 - a

BadCarries(wide) == wide >= Modulus - 1

Carries(wide) == wide > Modulus - 1

Low(wide) == IF wide < Modulus THEN wide ELSE wide - Modulus

(* A word of the result; signed says by how much the operands' words move  *)
(* the exact number.                                                       *)
AppendWord(word, signed) ==
    /\ result' = result + word * weight
    /\ exact' = exact + signed * weight
    /\ weight' = weight * Modulus

(* addic, addc: the sum has wrapped when it is less than an operand.       *)
AddFirst(a, b) ==
    /\ mode = "none"
    /\ ca' = IF Low(a + b) < a THEN 1 ELSE 0
    /\ AppendWord(Low(a + b), a + b)
    /\ mode' = "add"

(* subfc: b - a.  The carry of the case distinction is overwritten by that *)
(* of the wide sum.                                                        *)
SubtractFirst(a, b) ==
    /\ mode = "none"
    /\ LET wide == Not(a) + b + 1
       IN  /\ ca' = IF Carries(wide) THEN 1 ELSE 0
           /\ AppendWord(Low(wide), b - a)
    /\ mode' = "subtract"

(* The sum of a, b and the carry; what it means depends on the chain.      *)
Extend(a, b, signed) ==
    LET wide == a + b + ca
    IN  /\ ca' = IF Carries(wide) THEN 1 ELSE 0
        /\ AppendWord(Low(wide), signed)

Adde(a, b)  == mode = "add" /\ Extend(a, b, a + b) /\ UNCHANGED mode
Addze(a)    == mode = "add" /\ Extend(a, 0, a) /\ UNCHANGED mode
Addme(a)    == mode = "add" /\ Extend(a, Modulus - 1, a + Modulus - 1) /\ UNCHANGED mode
Subfe(a, b) == mode = "subtract" /\ Extend(Not(a), b, b - a) /\ UNCHANGED mode
Subfze(a)   == mode = "subtract" /\ Extend(Not(a), 0, -a) /\ UNCHANGED mode
Subfme(a)   ==
    mode = "subtract" /\ Extend(Not(a), Modulus - 1, Modulus - 1 - a) /\ UNCHANGED mode

CarryNext ==
    \E a \in Operands :
        \/ \E b \in Operands :
              AddFirst(a, b) \/ SubtractFirst(a, b) \/ Adde(a, b) \/ Subfe(a, b)
        \/ Addze(a) \/ Addme(a) \/ Subfze(a) \/ Subfme(a)

CarrySpec == CarryInit /\ [][CarryNext]_carryVars

-----------------------------------------------------------------------------
CarryTypeOK ==
    /\ ca \in {0, 1} /\ mode \in {"none", "add", "subtract"}
    /\ weight \in Nat \ {0} /\ result \in Nat /\ exact \in Int

(* After any number of words the result and the carry together are the     *)
(* exact number: in a sum the carry stands for one more of the weight, in  *)
(* a difference its absence for a borrow (ADDIC, PPC_ADDC to PPC_ADDME).   *)
ChainIsExact ==
    /\ result < weight
    /\ mode = "add" => exact = result + ca * weight
    /\ mode = "subtract" => exact = result + (ca - 1) * weight
=============================================================================
