---------------------------- MODULE MCGenerated ----------------------------
(***************************************************************************)
(* Small programs for running the emitted code.                            *)
(***************************************************************************)
EXTENDS GeneratedCode, MCWords

(* Two functions and a routine between them: word 1 starts the first,      *)
(* word 5 is a function of its own when it is a prologue and else code of  *)
(* the first that is called, jumped to, or fallen into.  Word 8 is data,   *)
(* its address stands for a routine of the host.                           *)
RunExec   == 1..7
RunStarts == {1}
TwoRoutines ==
    {[code |-> <<w1, w2, w3, w4, w5, w6, w7, Op>>,
      dataPointers |-> p, textPointers |-> {}] :
        w1 \in {Op, Frame},
        w2 \in {Bl(1), Bl(4), Bl(5), Bl(6), Bl(8), Bc(5), Bctrl},
        w3 \in {Op, Unframe, Bc(6), Bcl(5), Bclr},
        w4 \in {Blr, B(5), B(8), Bctr},
        w5 \in {Frame, Op, Bl(6)},
        w6 \in {Unframe, Op, Bc(5)},
        w7 \in {Blr, B(1)},
        p \in {{}, {5}}}

(* A recursive function from word 3 on, which the first function, or a     *)
(* switch in it, enters at any of its words.                               *)
Recursive ==
    {NoPointers(<<w1, w2, Frame, w4, Bl(t), Unframe, Blr, Op>>) :
        w1 \in {Frame, Op}, w2 \in {B(u) : u \in 3..7}, w4 \in {Bc(6), Bc(7)},
        t \in {1, 3, 4}}

(* A switch, whose cases return, leave for another function or the host,   *)
(* or call; the last word may call and never come back.                    *)
Switched ==
    {NoPointers(<<w1, Guard(t), Switch(T), w4, w5, w6, w7, Op>>) :
        w1 \in {Frame, Bl(5)}, t \in {4, 6}, T \in {{4, 6}, {5, 7}, {1, 4}},
        w4 \in {Blr, Unframe, B(7), Blrl}, w5 \in {Blr, B(8)},
        w6 \in {Frame, Op}, w7 \in {Blr, Bl(8), Bl(1)}}

(* A function that calls its own word 4 and, while that call is open, may  *)
(* leave for a routine of the host or for its caller.                      *)
LeavingImages ==
    {NoPointers(<<Bl(3), w2, w3, Op, w5, Bl(4), Blr, Op>>) :
        w2 \in {Blr, B(1)}, w3 \in {Frame, Op}, w5 \in {Bc(8), Bc(1)}}

RunImages == TwoRoutines \cup Recursive \cup Switched \cup LeavingImages
=============================================================================
