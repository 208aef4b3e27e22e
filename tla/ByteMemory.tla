----------------------------- MODULE ByteMemory -----------------------------
(***************************************************************************)
(* What the runtime's memory promises: the guest's memory is an array of   *)
(* bytes, seen at every base address, in which every byte of an access     *)
(* lies at its own address.  Addresses that a hook of the host owns are a  *)
(* device, those in no window hold zero and swallow what is written.       *)
(***************************************************************************)
EXTENDS MachineWords

CONSTANTS RamSize, Bases, Line, Owned, Device, Regs, Addresses

VARIABLES
    ram, gpr, fpr,
    asked    \* what this step was asked to do

Nothing == -1

(* The place of the byte at address a: the bases are multiples of RamSize. *)
Place(a) ==
    IF a \notin Owned /\ (a - (a % RamSize)) \in Bases THEN a % RamSize ELSE Nothing

ByteAt(a) == IF Place(a) = Nothing THEN 0 ELSE ram[Place(a)]

(* The n bytes at a, of which a hook owns all or none, as one number.      *)
Item(a, n) ==
    LET number[k \in 0..n] ==
            IF k = 0 THEN 0 ELSE number[k - 1] * Radix + ByteAt(Add(a, k - 1))
    IN  IF a \in Owned THEN Device % Values(n) ELSE number[n]

Digit(v, n, i) == (v \div Values(n - 1 - i)) % Radix

(* Memory after each address of S got the byte to[a].                      *)
Put(S, to(_)) ==
    ram' = [p \in DOMAIN ram |->
               IF \E a \in S : Place(a) = p
                 THEN to(CHOOSE a \in S : Place(a) = p)
                 ELSE ram[p]]

Span(a, n) == {Add(a, i) : i \in 0..(n - 1)}

Store(a, n, v) ==
    /\ UNCHANGED <<gpr, fpr>>
    /\ Put(Span(a, n), LAMBDA b : Digit(v, n, Sub(b, a)))

Load(a, n, r) ==
    /\ UNCHANGED <<ram, fpr>>
    /\ gpr' = [gpr EXCEPT ![r] = Item(a, n)]

(* Two's complement.                                                       *)
LoadSigned(a, r) ==
    /\ UNCHANGED <<ram, fpr>>
    /\ LET v == Item(a, 2)
       IN  gpr' = [gpr EXCEPT ![r] = IF v < Half \div 2 THEN v ELSE v + Modulus - Half]

From(r) == {q \in Regs : q >= r}

(* A run of registers is one access of as many words.                      *)
LoadMultiple(a, r) ==
    /\ UNCHANGED <<ram, fpr>>
    /\ gpr' = [q \in Regs |-> IF q \in From(r) THEN Item(Add(a, 4 * (q - r)), 4) ELSE gpr[q]]

StoreMultiple(a, r) ==
    /\ UNCHANGED <<gpr, fpr>>
    /\ LET last == CHOOSE q \in Regs : \A p \in Regs : p <= q
       IN  Put(Span(a, 4 * (last + 1 - r)),
               LAMBDA b : Digit(gpr[r + (Sub(b, a) \div 4)], 4, Sub(b, a) % 4))

LoadDouble(a) ==
    /\ UNCHANGED <<ram, gpr>>
    /\ fpr' = <<Item(a, 4), Item(Add(a, 4), 4)>>

StoreDouble(a) ==
    /\ UNCHANGED <<gpr, fpr>>
    /\ Put(Span(a, 8), LAMBDA b : Digit(fpr[1 + (Sub(b, a) \div 4)], 4, Sub(b, a) % 4))

(* The line that a lies in becomes zero; a hook is not asked.              *)
Clear(a) ==
    /\ UNCHANGED <<gpr, fpr>>
    /\ ram' = [p \in DOMAIN ram |->
                  IF (a - (a % RamSize)) \in Bases /\ p \div Line = (a % RamSize) \div Line
                    THEN 0 ELSE ram[p]]

(* A quantized store changes no byte but those of its elements.            *)
StoreElements(a, n) ==
    /\ UNCHANGED <<gpr, fpr>>
    /\ \A p \in DOMAIN ram : (\A b \in Span(a, n) : Place(b) # p) => ram'[p] = ram[p]
    /\ DOMAIN ram' = DOMAIN ram

(* A step does what was asked for, at the address it was asked for.        *)
Access ==
    \E a \in Addresses :
        \/ \E r \in Regs, n \in {1, 2, 4} :
              \/ asked' = <<"load", a, n, r>>  /\ Load(a, n, r)
              \/ asked' = <<"store", a, n, r>> /\ Store(a, n, gpr[r] % Values(n))
        \/ \E r \in Regs :
              \/ asked' = <<"lha", a, r>>  /\ LoadSigned(a, r)
              \/ asked' = <<"lmw", a, r>>  /\ LoadMultiple(a, r)
              \/ asked' = <<"stmw", a, r>> /\ StoreMultiple(a, r)
        \/ asked' = <<"lfd", a>>    /\ LoadDouble(a)
        \/ asked' = <<"stfd", a>>   /\ StoreDouble(a)
        \/ asked' = <<"stfiwx", a>> /\ Store(a, 4, fpr[2])
        \/ asked' = <<"dcbz", a>>   /\ Clear(a)

(* n is the length of all the elements together.                           *)
PairAccess ==
    \E a \in Addresses, n \in 1..8 : asked' = <<"psq_st", a, n>> /\ StoreElements(a, n)
=============================================================================
