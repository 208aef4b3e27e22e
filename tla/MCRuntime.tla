----------------------------- MODULE MCRuntime -----------------------------
(***************************************************************************)
(* Bytes of four values, so that a word has 256: a memory of sixteen bytes *)
(* at 0, 128 and 192, lines of eight, and a device behind memory.          *)
(***************************************************************************)
EXTENDS GuestRuntime

Edges == {0, 1, 127, 128, 254, 255}

Windows == {0, 128, 192}

Hooked == 208..215

(* Both ends of memory in the windows, what lies behind it, the device,    *)
(* and the end of the address space.                                       *)
Places == {0, 2, 3, 12, 15, 16, 128, 140, 142, 196, 204, 208, 252}

(* Digits 0123, 3210 and 2221                                              *)
Filled == {[r \in 0..2 |-> <<27, 228, 169>>[r + 1]]}

(* Floats with three bits of exponent and four of fraction, in units of    *)
(* 1 / 128, the smallest: up to 15.5, and the first and smallest steps.    *)
MiniFloat ==
    [bits \in 0..255 |->
        LET e == (bits \div 16) % 8
            f == bits % 16
            n == IF e = 0 THEN f ELSE (16 + f) * 2^(e - 1)
        IN  IF bits < 128 THEN n ELSE -n]

(* -8.5; half a unit of the integers less and more than a step; 3.5; a     *)
(* number that no float is; one that no s32 holds at the largest scale,    *)
(* and one beyond the largest float.                                       *)
SomeLanes == {-1088, 63, 64, 1857, 4000}

SomeTypes == {0, 1, 4, 5, 6, 7}

SomeScales == {1, 2, 16}

(* Loads as stores; a scale from 32 on; two GQRs whose directions differ.  *)
SomeGqrs ==
    {[ldType |-> t, ldScale |-> s, stType |-> t, stScale |-> s] :
        t \in {4, 5, 6, 7}, s \in {1, 2}}
    \cup {[ldType |-> t, ldScale |-> 1, stType |-> t, stScale |-> 1] : t \in {1}}
    \cup {[ldType |-> t, ldScale |-> 16, stType |-> t, stScale |-> 16] : t \in {4, 6}}
    \cup {[ldType |-> 6, ldScale |-> 0, stType |-> 4, stScale |-> 0],
          [ldType |-> 6, ldScale |-> 1, stType |-> 4, stScale |-> 2],
          [ldType |-> 5, ldScale |-> 2, stType |-> 7, stScale |-> 1]}

(* Two functions in memory, the second also entered at a block behind its  *)
(* start, and one elsewhere.                                               *)
Entry(a, f) == [addr |-> a, function |-> f]

OneTable == {<<Entry(128, 128), Entry(132, 132), Entry(140, 132), Entry(160, 160)>>}

(* Each of them, by different windows; between and behind them.            *)
Called == {0, 196, 140, 160, 136, 240}

(* A chain of words; some accesses; a pair set, stored and loaded; a pair  *)
(* stored over or under an access; calls.                                  *)
Parts == {"carry", "memory", "pairs", "calls"}

Share(c, m, p, d) ==
    [x \in Parts |-> CASE x = "carry" -> c [] x = "memory" -> m [] x = "pairs" -> p [] OTHER -> d]

SomeBudgets ==
    {Share(3, 0, 0, 0), Share(0, 2, 0, 0), Share(0, 0, 3, 0), Share(0, 1, 1, 0), Share(0, 0, 0, 6)}
=============================================================================
