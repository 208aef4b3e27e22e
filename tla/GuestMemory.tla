---------------------------- MODULE GuestMemory ----------------------------
(***************************************************************************)
(* The guest's memory in recomp_runtime.h: one array of bytes, which the   *)
(* guest sees at three bases.  An access asks the host's hook first, then  *)
(* translates the address of its first byte and indexes the array from     *)
(* there.  A write keeps to its width; 64 bits are two words; lmw and stmw *)
(* go word by word.                                                        *)
(*                                                                         *)
(* Accesses are aligned.  Of one that is not, at the end of the array, the *)
(* code reads or writes beyond the array.                                  *)
(***************************************************************************)
EXTENDS MachineWords

CONSTANTS
    RamSize,    \* GC_RAM_SIZE
    Bases,      \* 0, 0x80000000 and 0xC0000000 in the code
    Line,       \* bytes that dcbz clears: 32 in the code
    Owned,      \* addresses that the host's hooks answer for
    Device,     \* the word they read as
    LastReg,    \* the registers at the end of the file are 0 to LastReg
    Contents,   \* what they may hold at first
    Addresses   \* addresses that are accessed

Regs == 0..LastReg

ASSUME MemoryAssumption ==
    /\ RamSize \in Nat \ {0} /\ Line \in Nat \ {0}
    /\ Modulus % RamSize = 0 /\ RamSize % Line = 0 /\ Line % 8 = 0
    /\ Bases \subseteq Word /\ \A b \in Bases : b % RamSize = 0
    /\ Owned \subseteq Word /\ \A a \in Owned : \A i \in 0..7 : (a - (a % 8)) + i \in Owned
    /\ Device \in Word /\ Addresses \subseteq Word
    /\ LastReg \in Nat /\ 4 * (LastReg + 1) <= RamSize
    /\ Contents \subseteq [Regs -> Word]

VARIABLES
    ram,    \* the array
    gpr,    \* the last of the general registers
    fpr,    \* the bits of a floating point register, as two words
    asked   \* history: the access that was asked for last

memoryVars == <<ram, gpr, fpr, asked>>

Nowhere == -1

(* Forgets the last of the windows.                                        *)
BadTranslate(a) ==
    IF \E b, c \in Bases : c > b /\ a >= b /\ a < b + RamSize
      THEN a - (CHOOSE b \in Bases : a >= b /\ a < b + RamSize)
      ELSE Nowhere

(* translate_ram_addr                                                      *)
Translate(a) ==
    IF \E b \in Bases : a >= b /\ a < b + RamSize
      THEN a - (CHOOSE b \in Bases : a >= b /\ a < b + RamSize)
      ELSE Nowhere

Big(b) == IF Len(b) = 1 THEN b[1] ELSE Value(b)

Read(m, a, n) ==
    IF a \in Owned THEN Device % Values(n)
    ELSE IF Translate(a) = Nowhere THEN 0
    ELSE Big([i \in 1..n |-> m[Translate(a) + i - 1]])

BadWritten(m, a, n, v) ==
    LET t == Translate(a)
    IN  IF a \in Owned \/ t = Nowhere THEN m
        ELSE [p \in DOMAIN m |->
                 IF p \in t..(t + n - 1) THEN v \div Values(t + n - 1 - p) ELSE m[p]]

(* The array after the n low bytes of v were written, high byte first.     *)
Written(m, a, n, v) ==
    LET t == Translate(a)
    IN  IF a \in Owned \/ t = Nowhere THEN m
        ELSE [p \in DOMAIN m |->
                 IF p \in t..(t + n - 1) THEN (v \div Values(t + n - 1 - p)) % Radix ELSE m[p]]

(* stmw, from register r on: after each number of words                    *)
WrittenFrom(m, a, r) ==
    LET after[k \in 0..(LastReg + 1 - r)] ==
            IF k = 0 THEN m ELSE Written(after[k - 1], Add(a, 4 * (k - 1)), 4, gpr[r + k - 1])
    IN  after[LastReg + 1 - r]

Aligned(a, n) == a % n = 0

MemoryInit ==
    /\ ram = [p \in 0..(RamSize - 1) |-> 0]
    /\ gpr \in Contents
    /\ fpr \in {<<gpr[0], gpr[LastReg]>>}
    /\ asked = <<>>

Load(a, n, r) ==
    /\ Aligned(a, n)
    /\ asked' = <<"load", a, n, r>>
    /\ gpr' = [gpr EXCEPT ![r] = Read(ram, a, n)]
    /\ UNCHANGED <<ram, fpr>>

(* lha: the half word is extended by its sign.                             *)
LoadHalfAlgebraic(a, r) ==
    /\ Aligned(a, 2)
    /\ asked' = <<"lha", a, r>>
    /\ LET v == Read(ram, a, 2)
       IN  gpr' = [gpr EXCEPT ![r] = IF 2 * v >= Half THEN Add(v, -Half) ELSE v]
    /\ UNCHANGED <<ram, fpr>>

Store(a, n, r) ==
    /\ Aligned(a, n)
    /\ asked' = <<"store", a, n, r>>
    /\ ram' = Written(ram, a, n, gpr[r])
    /\ UNCHANGED <<gpr, fpr>>

LMW(a, r) ==
    /\ Aligned(a, 4)
    /\ asked' = <<"lmw", a, r>>
    /\ gpr' = [q \in Regs |-> IF q >= r THEN Read(ram, Add(a, 4 * (q - r)), 4) ELSE gpr[q]]
    /\ UNCHANGED <<ram, fpr>>

STMW(a, r) ==
    /\ Aligned(a, 4)
    /\ asked' = <<"stmw", a, r>>
    /\ ram' = WrittenFrom(ram, a, r)
    /\ UNCHANGED <<gpr, fpr>>

LoadDouble(a) ==
    /\ Aligned(a, 4)
    /\ asked' = <<"lfd", a>>
    /\ fpr' = <<Read(ram, a, 4), Read(ram, Add(a, 4), 4)>>
    /\ UNCHANGED <<ram, gpr>>

StoreDouble(a) ==
    /\ Aligned(a, 4)
    /\ asked' = <<"stfd", a>>
    /\ ram' = Written(Written(ram, a, 4, fpr[1]), Add(a, 4), 4, fpr[2])
    /\ UNCHANGED <<gpr, fpr>>

(* The low word of a floating point register.                              *)
STFIWX(a) ==
    /\ Aligned(a, 4)
    /\ asked' = <<"stfiwx", a>>
    /\ ram' = Written(ram, a, 4, fpr[2])
    /\ UNCHANGED <<gpr, fpr>>

(* The line's address is rounded down before it is translated; no hook is  *)
(* asked.                                                                  *)
DCBZ(a) ==
    /\ asked' = <<"dcbz", a>>
    /\ LET t == Translate(a - (a % Line))
       IN  ram' = IF t = Nowhere THEN ram
                  ELSE [p \in DOMAIN ram |-> IF p \in t..(t + Line - 1) THEN 0 ELSE ram[p]]
    /\ UNCHANGED <<gpr, fpr>>

MemoryNext ==
    \E a \in Addresses :
        \/ \E r \in Regs :
              \/ \E n \in {1, 2, 4} : Load(a, n, r) \/ Store(a, n, r)
              \/ LoadHalfAlgebraic(a, r) \/ LMW(a, r) \/ STMW(a, r)
        \/ LoadDouble(a) \/ StoreDouble(a) \/ STFIWX(a) \/ DCBZ(a)

-----------------------------------------------------------------------------
MemoryTypeOK ==
    /\ ram \in [0..(RamSize - 1) -> 0..(Radix - 1)]
    /\ gpr \in [Regs -> Word]
    /\ fpr \in Word \X Word
    /\ asked = <<>> \/ asked[2] \in Addresses
=============================================================================
