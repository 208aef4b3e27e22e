----------------------------- MODULE MCOptimizer -----------------------------
(***************************************************************************)
(* Short IR blocks.                                                        *)
(***************************************************************************)
EXTENDS Optimizer

LOCAL INSTANCE FiniteSetsExt

R(r) == [kind |-> "gpr", value |-> r]
F(r) == [kind |-> "fpr", value |-> r]
I(w) == [kind |-> "imm", value |-> w]
Ins(op, args) == [op |-> op, args |-> args]

(* A computation that tells its arguments apart.                           *)
OpNumber == [Sub |-> 1, Addic |-> 2, Neg |-> 3, Adde |-> 4, Rlwimi |-> 5, Load32 |-> 6,
             Mfspr |-> 7, Lmw |-> 8, Store32 |-> 9, Stmw |-> 10, Dcbz |-> 11, Cmp |-> 12,
             Mtspr |-> 13, LoadFloat |-> 14, LoadFloatXU |-> 15, SetReg |-> 16]

Weight(f) == MapThenSumSet(LAMBDA k : (11 * k + 3) * (f[k] + 1), DOMAIN f)

Hash(what, ins, stored, rest) ==
    (OpNumber[what[1]] * 29 + what[2] * 41 + Weight(ins) * 7 + Weight(stored) * 5 + rest * 3)
      % Modulus

OneState == {[gpr |-> [r \in Reg |-> 20 + 9 * r], rest |-> 2]}

(* What the lifter emits, over two registers; register 0 as a base is the  *)
(* constant 0.                                                             *)
Two == {R(1), R(2)}

SetImms   == {Ins("SetImm", <<d, I(w)>>) : d \in Two, w \in {5, Modulus - 1}}
Adds      == {Ins("Add", <<d, a, b>>) : d \in Two, a \in Two, b \in {R(2), I(3)}}
Subs      == {Ins("Sub", <<d, I(4), a>>) : d \in Two, a \in Two}
Rlwimis   == {Ins("Rlwimi", <<d, a>>) : d \in Two, a \in Two}
Loads     == {Ins("Load32", <<d, a, I(8)>>) : d \in Two, a \in {R(1), I(0)}}
Stores    == {Ins("Store32", <<d, a, R(2)>>) : d \in Two, a \in {R(1), I(0)}}
Others    == {Ins("Cmp", <<I(0), R(1), R(2)>>), Ins("Mtspr", <<I(9), R(1)>>),
              Ins("Mfspr", <<R(2), I(9)>>), Ins("LoadFloat", <<F(1), R(1), I(4)>>),
              Ins("SetReg", <<F(1), F(2)>>), Ins("BranchTable", <<R(1), I(7)>>)}

Sequences(S, n) == UNION {[1..m -> S] : m \in 1..n}

CoveredBlocks ==
    Sequences(SetImms \cup Adds \cup Subs \cup Rlwimis \cup Loads \cup Stores \cup Others, 3)
      \cup Sequences({Ins("SetImm", <<R(1), I(5)>>), Ins("Add", <<R(2), R(1), I(3)>>),
                      Ins("Sub", <<R(1), I(4), R(2)>>), Ins("Rlwimi", <<R(1), R(2)>>),
                      Ins("Load32", <<R(1), R(1), I(8)>>),
                      Ins("Store32", <<R(2), I(0), R(1)>>)}, 5)

(* Loads of several registers, and accesses that update their address.     *)
LoadBlocks ==
    Sequences(SetImms \cup Loads \cup Stores
                \cup {Ins("Lmw", <<R(2), R(1), I(4)>>), Ins("Lmw", <<R(1), I(0), I(4)>>)}, 3)

UpdateBlocks ==
    Sequences(SetImms \cup {Ins("LoadFloatXU", <<F(1), a, R(2)>>) : a \in Two} \cup Stores, 3)
=============================================================================
