---------------------------- MODULE MachineWords ----------------------------
(***************************************************************************)
(* Words of the guest at a width of their own: a "byte" is a digit of      *)
(* radix Radix, a half word has two of them and a word four.  In the code  *)
(* Radix is 256, so that Modulus is 2^32; TLC runs it with a smaller one.  *)
(* Every sum of addresses is a u32 and wraps.                              *)
(***************************************************************************)
EXTENDS Integers, Sequences

CONSTANT Radix      \* values of a byte: 256 in the code

ASSUME RadixAssumption == Radix \in Nat \ {0, 1}

Half    == Radix * Radix
Modulus == Half * Half
Word    == 0..(Modulus - 1)

(* The numbers that n bytes tell apart, up to four.                        *)
Values(n) ==
    CASE n = 0 -> 1 [] n = 1 -> Radix [] n = 2 -> Half [] n = 3 -> Half * Radix
      [] OTHER -> Modulus

BadAdd(a, b) == a + b

Add(a, b) == (a + b) % Modulus
Sub(a, b) == (a - b) % Modulus

(* Of a big-endian sequence, the n bytes from offset o (0-based) on.       *)
Bytes(data, o, n) == SubSeq(data, o + 1, o + n)

(* read_be16 and read_be32 *)
Value(b) ==
    IF Len(b) = 2
      THEN b[1] * Radix + b[2]
      ELSE (b[1] * Radix + b[2]) * Half + b[3] * Radix + b[4]

Region == [start : Word, isText : BOOLEAN, data : Seq(0..(Radix - 1))]

BadContains(r, a) == a >= r.start /\ a <= Add(r.start, Len(r.data))

Contains(r, a) == a >= r.start /\ a < Add(r.start, Len(r.data))
=============================================================================
