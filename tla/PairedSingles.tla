--------------------------- MODULE PairedSingles ---------------------------
(***************************************************************************)
(* Quantized loads and stores of a pair of floats (PSQ_LOAD, PSQ_STORE).   *)
(* A GQR holds a type and a scale for loads and for stores; a scale is     *)
(* kept as 1 << scale.  A lane is an f64, counted in units of 1 / Unit: a  *)
(* lane that is no multiple of it, whose sum with 0.5 an f64 might have to *)
(* round, is not modelled, and neither is one that is not a number.        *)
(***************************************************************************)
EXTENDS GuestMemory

CONSTANTS
    Unit,      \* the number 1; every scale divides it
    Scales,    \* 1 << scale, of the scales up to 31
    Float,     \* the number that the bits of an f32 stand for
    Lanes,     \* numbers that paired arithmetic may leave
    Types,     \* of quantization: 4 u8, 5 u16, 6 s8, 7 s16, else a float
    Gqrs       \* what a GQR is set to

(* A scale has six bits, but 1u << scale is undefined from 32 on.          *)
Undefined == 0

(* An infinity counts as the first number that is too large for an f32:    *)
(* so IEEE 754 rounds where the largest f32 is passed.                     *)
ASSUME PairsAssumption ==
    /\ Unit \in Nat \ {0}
    /\ Scales \subseteq Nat \ {0} /\ 1 \in Scales /\ \A s \in Scales : Unit % s = 0
    /\ Types \subseteq 0..7 /\ 0 \in Types
    /\ Float \in [Word -> Int]
    /\ Lanes \subseteq Int

GqrType ==
    [ldType : Types, ldScale : Scales \cup {Undefined},
     stType : Types, stScale : Scales \cup {Undefined}]

ASSUME GqrsAssumption == Gqrs \subseteq GqrType

VARIABLES
    pair,   \* ps0, ps1 and fpr of one register
    gqr,    \* the fields of one GQR
    kept    \* history: the last quantized store, until memory changes again

pairVars == <<pair, gqr, kept>>

None == [at |-> Nowhere]

(* C's conversion to an integer, of n / d.                                 *)
Truncated(n, d) == IF n >= 0 THEN n \div d ELSE -((-n) \div d)

Clamped(q, lo, hi) == IF q < lo THEN lo ELSE IF q > hi THEN hi ELSE q

TypeSize(type) == CASE type \in {4, 6} -> 1 [] type \in {5, 7} -> 2 [] OTHER -> 4

Unsigned(type) == type \in {4, 5}
IsSigned(type) == type \in {6, 7}
IsFloat(type)  == ~Unsigned(type) /\ ~IsSigned(type)

Limit(type) == Values(TypeSize(type))

Least(type) == IF Unsigned(type) THEN 0 ELSE -(Limit(type) \div 2)

BadGreatest(type) == IF Unsigned(type) THEN Limit(type) - 1 ELSE Limit(type) \div 2

Greatest(type) == IF Unsigned(type) THEN Limit(type) - 1 ELSE Limit(type) \div 2 - 1

(* What 1u << scale may be: the hosts' shifters mask a count that is too   *)
(* large, which leaves one that is not.                                    *)
Multipliers(scale) == IF scale = Undefined THEN Scales ELSE {scale}

(* The number that is converted to s32: unsigned types are rounded, signed *)
(* ones truncated.                                                         *)
Scaled(v, type, multiplier) ==
    IF Unsigned(type) THEN Truncated(2 * v * multiplier + Unit, 2 * Unit)
    ELSE Truncated(v * multiplier, Unit)

FitsS32(q) == q >= -(Modulus \div 2) /\ q < Modulus \div 2

(* gqr_quantize_one for the integers, before the number is cut to its      *)
(* width.  The conversion of a number outside s32 is undefined: whatever   *)
(* comes of it is clamped.                                                 *)
Converted(v, type, scale) ==
    {q \in Least(type)..Greatest(type) :
        \E m \in Multipliers(scale) :
            LET x == Scaled(v, type, m)
            IN  FitsS32(x) => q = Clamped(x, Least(type), Greatest(type))}

Magnitude(n) == IF n < 0 THEN -n ELSE n

(* (f32)value: the nearest number that an f32 holds, of two either one.    *)
Narrowed(v) ==
    LET gap(bits) == Magnitude(Float[bits] - v)
        least == CHOOSE d \in {gap(bits) : bits \in Word} : \A bits \in Word : d <= gap(bits)
    IN  {bits \in Word : gap(bits) = least}

Quantized(v, type, scale) ==
    IF IsFloat(type) THEN Narrowed(v) ELSE Converted(v, type, scale)

(* gqr_dequantize_one: integers are extended by their type's sign.         *)
Dequantized(m, a, type, scale) ==
    LET bits == Read(m, a, TypeSize(type))
        q    == IF Unsigned(type) \/ 2 * bits < Limit(type) THEN bits ELSE bits - Limit(type)
    IN  IF IsFloat(type) THEN {Float[bits]}
        ELSE {(q * Unit) \div multiplier : multiplier \in Multipliers(scale)}

WrittenLane(m, a, q, type) == Written(m, a, TypeSize(type), q % Limit(type))

SecondAt(a, type) == Add(a, TypeSize(type))

InRam(a, n) == \A i \in 0..(n - 1) : Add(a, i) \notin Owned /\ Translate(Add(a, i)) # Nowhere

PairInit ==
    /\ pair = [ps0 |-> 0, ps1 |-> 0, fpr |-> 0]
    /\ gqr = [ldType |-> 0, ldScale |-> 1, stType |-> 0, stScale |-> 1]
    /\ kept = None

(* set_spr of a GQR.                                                       *)
SetGqr ==
    /\ gqr' \in Gqrs
    /\ UNCHANGED <<memoryVars, pair, kept>>

(* Paired arithmetic leaves its first lane in fpr as well.                 *)
SetLanes ==
    /\ \E x, y \in Lanes : pair' = [ps0 |-> x, ps1 |-> y, fpr |-> x]
    /\ UNCHANGED <<memoryVars, gqr, kept>>

(* w: only the first lane.                                                 *)
PSQ_STORE(a, w) ==
    LET type  == gqr.stType
        scale == gqr.stScale
    IN  /\ Aligned(a, TypeSize(type))
        /\ asked' = <<"psq_st", a, IF w THEN TypeSize(type) ELSE 2 * TypeSize(type)>>
        /\ \E q0 \in Quantized(pair.ps0, type, scale) :
              LET first == WrittenLane(ram, a, q0, type)
              IN  \/ w /\ ram' = first
                  \/ /\ ~w
                     /\ \E q1 \in Quantized(pair.ps1, type, scale) :
                           ram' = WrittenLane(first, SecondAt(a, type), q1, type)
        /\ kept' = IF InRam(a, 2 * TypeSize(type))
                     THEN [at |-> a, w |-> w, type |-> type, scale |-> scale,
                           ps0 |-> pair.ps0, ps1 |-> pair.ps1]
                     ELSE None
        /\ UNCHANGED <<gpr, fpr, pair, gqr>>

PSQ_LOAD(a, w) ==
    LET type  == gqr.ldType
        scale == gqr.ldScale
    IN  /\ Aligned(a, TypeSize(type))
        /\ \E x \in Dequantized(ram, a, type, scale) :
              \/ w /\ pair' = [ps0 |-> x, ps1 |-> Unit, fpr |-> x]
              \/ /\ ~w
                 /\ \E y \in Dequantized(ram, SecondAt(a, type), type, scale) :
                       pair' = [ps0 |-> x, ps1 |-> y, fpr |-> x]
        /\ UNCHANGED <<memoryVars, gqr, kept>>

PairNext ==
    \/ SetGqr \/ SetLanes
    \/ \E a \in Addresses, w \in BOOLEAN : PSQ_STORE(a, w) \/ PSQ_LOAD(a, w)

-----------------------------------------------------------------------------
PairTypeOK ==
    /\ pair \in [ps0 : Int, ps1 : Int, fpr : Int]
    /\ gqr \in GqrType

(* The numbers that an integer type can hold at a scale.                   *)
Numbers(type, scale) ==
    {(q * Unit) \div scale : q \in
        IF IsSigned(type) THEN -(Limit(type) \div 2)..((Limit(type) \div 2) - 1)
        ELSE 0..(Limit(type) - 1)}

(* r is what is left of v: for a float and an unsigned type no number it   *)
(* can hold is closer, for a signed one none lies between r and v on the   *)
(* way to zero.  Of a number that no s32 holds once it is scaled, only     *)
(* some number of the type is left.                                        *)
IsRest(r, v, type, scale) ==
    /\ IsFloat(type) =>
          /\ \E bits \in Word : r = Float[bits]
          /\ \A bits \in Word : Magnitude(r - v) <= Magnitude(Float[bits] - v)
    /\ ~IsFloat(type) => r \in Numbers(type, scale)
    /\ Unsigned(type) /\ FitsS32(Scaled(v, type, scale)) =>
          \A x \in Numbers(type, scale) : Magnitude(r - v) <= Magnitude(x - v)
    /\ IsSigned(type) /\ FitsS32(Scaled(v, type, scale)) =>
          /\ Magnitude(r) <= Magnitude(v) /\ r * v >= 0
          /\ \A x \in Numbers(type, scale) :
                x * v >= 0 /\ Magnitude(x) <= Magnitude(v) => Magnitude(x) <= Magnitude(r)

(* A pair stored through a GQR with a scale below 32 loads, through one of *)
(* the same type and scale, as what that type can hold of it, both lanes:  *)
(* the sizes, signs and limits of the two directions agree (PSQ_STORE,     *)
(* PSQ_LOAD).                                                              *)
StoredPairsReadBack ==
    kept # None /\ kept.scale # Undefined =>
        LET loaded(a)  == Dequantized(ram, a, kept.type, kept.scale)
            isRest(r, v) == IsRest(r, v, kept.type, kept.scale)
        IN  /\ \A r \in loaded(kept.at) : isRest(r, kept.ps0)
            /\ ~kept.w => \A r \in loaded(SecondAt(kept.at, kept.type)) : isRest(r, kept.ps1)
=============================================================================
