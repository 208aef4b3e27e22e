---------------------------- MODULE Exploration ----------------------------
(***************************************************************************)
(* What function discovery promises, whatever order it works in: entries   *)
(* become known, each known entry is explored once, exploring may make     *)
(* further entries known, and it is over only when every known entry has   *)
(* been explored.  Analyzer implements this with its worklist.             *)
(***************************************************************************)
CONSTANT Entries

VARIABLES
    known,     \* entries found so far
    explored,  \* entries taken up for analysis
    over       \* has discovery ended?

vars == <<known, explored, over>>

Init == known = {} /\ explored = {} /\ over = FALSE

Find ==
    /\ ~over
    /\ \E S \in SUBSET Entries : known' = known \cup S
    /\ UNCHANGED <<explored, over>>

Explore(a) ==
    /\ ~over
    /\ a \in known \ explored
    /\ explored' = explored \cup {a}
    /\ UNCHANGED <<known, over>>

End ==
    /\ explored = known
    /\ over' = TRUE
    /\ UNCHANGED <<known, explored>>

Next == Find \/ (\E a \in Entries : Explore(a)) \/ End

Spec == Init /\ [][Next]_vars

FairSpec == Spec /\ WF_vars(\E a \in Entries : Explore(a)) /\ WF_vars(End)
=============================================================================
