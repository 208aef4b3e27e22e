----------------------------- MODULE MCAnalyzer -----------------------------
(***************************************************************************)
(* Small images for the analyzer: every image of a few words.              *)
(***************************************************************************)
EXTENDS EmittedCode, MCWords

(* Words 1..6 are one text section, word 7 would be data right after it.  *)
TextWords  == 1..6
TextStarts == {1}

(* Every direct transfer between the first four words occurs; the text     *)
(* goes on behind them with a word that ends what runs into it.            *)
DirectWords ==
    {Op, Frame, Blr, B(3), Bc(2)} \cup {Bl(t) : t \in 1..4}
DirectImages ==
    {NoPointers([a \in 1..6 |-> IF a > 4 THEN Rfi ELSE w[a]]) :
        w \in [1..4 -> DirectWords]}

(* A switch: word 2 checks the bounds and word 3 goes through a table,     *)
(* which holds the guard, words behind the switch, or the guest's address  *)
(* 0.  A data word and an address built in code may point into the code    *)
(* behind it.                                                              *)
SwitchTables == {T \in SUBSET {0, 2, 4, 5, 6} : Cardinality(T) \in 1..2}
OneBodyImages ==
    {[code |-> <<w1, Guard(t), Switch(T), w4, w5, w6>>,
      dataPointers |-> p[1], textPointers |-> p[2]] :
        w1 \in {Op, Frame}, t \in {4, 6}, T \in SwitchTables,
        w4 \in {Op, Rfi, Bc(2)}, w5 \in {Mflr, Blr, Bl(6), Bclr}, w6 \in {Frame, Bl(4), Bctrl},
        p \in {<<{}, {}>>, <<{5}, {0, 4}>>}}

(* The same table, in a function that a data word points to, leading into  *)
(* the loop of the function before it, which has built that block first.   *)
TwoBodyImages ==
    {[code |-> <<B(5), Guard(t), Switch(T), w4, Bl(5), w6>>,
      dataPointers |-> {2}, textPointers |-> {}] :
        t \in {2, 4}, T \in SwitchTables, w4 \in {Op, Rfi, Bc(2)}, w6 \in {Op, Blr}}

SwitchImages == OneBodyImages \cup TwoBodyImages
SmallImages  == DirectImages \cup SwitchImages

(* The seam of two functions: the first ends in a call that may not come   *)
(* back, the second, from its prologue at word 3 on, is also entered past  *)
(* it by a local call.                                                     *)
SeamExec   == 1..5
SeamStarts == {1}
SeamImages ==
    {NoPointers(<<w1, Bl(t), Frame, w4, w5>>) :
        w1 \in {Op, Frame}, t \in 1..5,
        w4 \in {Op, B(3), Bc(3)}, w5 \in {Op, Blr, Bl(4)}}
=============================================================================
