---------------------------- MODULE GuestMachine ----------------------------
(***************************************************************************)
(* The guest program itself: which word a PowerPC executes after which.    *)
(* What the emitted code promises is to take the same path; GeneratedCode  *)
(* is shown to implement this machine.                                     *)
(*                                                                         *)
(* Registers and memory are left out but for the link register and the     *)
(* link registers that prologues have saved.  Conditions, jump-table       *)
(* indices and the count register are arbitrary.  The guest keeps the      *)
(* calling convention: it returns to the latest call that has not          *)
(* returned, and never runs into words that are not code.  Code outside    *)
(* the image is a routine of the host, which returns at once.              *)
(***************************************************************************)
EXTENDS Image, SequencesExt

CONSTANT EntryPoint

VARIABLES
    image,  \* the program
    pc,     \* the word to execute next; Host when the program has ended
    lr,     \* the link register
    saved,  \* the link registers that active prologues saved
    calls   \* the words the calls that have not returned come back to

guestVars == <<image, pc, lr, saved, calls>>

(* The return address of the host, which runs the entry point.             *)
Host == 0

GuestInit ==
    /\ image \in ImageType
    /\ pc = EntryPoint
    /\ lr = Host
    /\ saved = << >>
    /\ calls = << >>

(* What a branch through ctr may hold: an address the program has a        *)
(* pointer to; and where the branch word w goes.                           *)
HeldPointers(img) == (img.dataPointers \cup img.textPointers) \cap Exec

BranchTargets(img, w, link) ==
    CASE w.via = "none"                -> {w.target}
      [] w.via = "lr"                  -> {link}
      [] w.via = "ctr" /\ w.table # {} -> w.table \cap Exec
      [] w.via = "ctr" /\ w.table = {} -> HeldPointers(img)

(* A branch with link is a call if it is taken; it sets lr even if not.    *)
IsJump(w)           == w.type \in {"Branch", "ConditionalBranch"} /\ w.via # "lr" /\ ~w.link
ReturnsThroughLr(w) == w.via = "lr" /\ ~w.link

(* The calling convention: lr is where the latest open call comes back to. *)
MayReturn(link, open) ==
    /\ link \in Exec \cup {Host}
    /\ link = IF open = << >> THEN Host ELSE Last(open)

AfterReturn(open) == IF open = << >> THEN << >> ELSE Front(open)

(* A prologue saves lr, an epilogue restores it.                           *)
SavesAfter(w, link, stack) ==
    CASE w.role = "frame"   -> Append(stack, link)
      [] w.role = "unframe" -> Front(stack)
      [] OTHER              -> stack

LinkAfter(w, link, stack) == IF w.role = "unframe" THEN Last(stack) ELSE link

MayExecute(w, stack) == w.role = "unframe" => stack # << >>

-----------------------------------------------------------------------------
word == image.code[pc]

Ordinary ==
    /\ word.type = "Unknown"
    /\ MayExecute(word, saved)
    /\ pc + 1 \in Exec
    /\ pc' = pc + 1
    /\ lr' = LinkAfter(word, lr, saved)
    /\ saved' = SavesAfter(word, lr, saved)
    /\ UNCHANGED <<image, calls>>

NotTaken ==
    /\ word.type = "ConditionalBranch"
    /\ pc + 1 \in Exec
    /\ pc' = pc + 1
    /\ lr' = IF word.link THEN pc + 1 ELSE lr
    /\ UNCHANGED <<image, saved, calls>>

Jump ==
    /\ IsJump(word)
    /\ pc' \in BranchTargets(image, word, lr) \cap Exec
    /\ UNCHANGED <<image, lr, saved, calls>>

Return ==
    /\ ReturnsThroughLr(word)
    /\ MayReturn(lr, calls)
    /\ pc' = lr
    /\ calls' = AfterReturn(calls)
    /\ UNCHANGED <<image, lr, saved>>

(* A jump to the host returns for the routine that jumps.                  *)
JumpToHost ==
    /\ IsJump(word)
    /\ BranchTargets(image, word, lr) \ Exec # {}
    /\ MayReturn(lr, calls)
    /\ pc' = lr
    /\ calls' = AfterReturn(calls)
    /\ UNCHANGED <<image, lr, saved>>

Call ==
    /\ word.link
    /\ pc' \in BranchTargets(image, word, lr) \cap Exec
    /\ lr' = pc + 1
    /\ calls' = Append(calls, pc + 1)
    /\ UNCHANGED <<image, saved>>

CallHost ==
    /\ word.link
    /\ BranchTargets(image, word, lr) \ Exec # {}
    /\ pc + 1 \in Exec
    /\ pc' = pc + 1
    /\ lr' = pc + 1
    /\ UNCHANGED <<image, saved, calls>>

GuestNext ==
    /\ pc \in Exec
    /\ Ordinary \/ NotTaken \/ Jump \/ Return \/ JumpToHost \/ Call \/ CallHost

GuestSpec == GuestInit /\ [][GuestNext]_guestVars
=============================================================================
