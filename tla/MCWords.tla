------------------------------ MODULE MCWords ------------------------------
(* The instructions the words of small images hold.                        *)
EXTENDS Integers

Word(ty, t, via) ==
    [type |-> ty, target |-> t, via |-> via, link |-> ty = "Call",
     role |-> "plain", table |-> {}]

Op        == Word("Unknown", 0, "none")
Frame     == [Op EXCEPT !.role = "frame"]
Unframe   == [Op EXCEPT !.role = "unframe"]
Mflr      == [Op EXCEPT !.role = "mflr"]
Blr       == Word("Return", 0, "lr")
Rfi       == Word("Return", 0, "none")
Bctr      == Word("Branch", 0, "ctr")
Blrl      == Word("Call", 0, "lr")
Bctrl     == Word("Call", 0, "ctr")
B(t)      == Word("Branch", t, "none")
Bl(t)     == Word("Call", t, "none")
Bc(t)     == Word("ConditionalBranch", t, "none")
Bcl(t)    == [Bc(t) EXCEPT !.link = TRUE]
Bclr      == Word("ConditionalBranch", 0, "lr")
Guard(t)  == [Bc(t) EXCEPT !.role = "guard"]
Switch(T) == [Bctr EXCEPT !.table = T]

NoPointers(c) == [code |-> c, dataPointers |-> {}, textPointers |-> {}]
=============================================================================
