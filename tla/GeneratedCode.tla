---------------------------- MODULE GeneratedCode ----------------------------
(***************************************************************************)
(* The whole tool at work: the image is analyzed, emitted, and the emitted *)
(* C is run.  A guest call is either a goto inside the C body (a local     *)
(* call) or a nested call_by_addr; a guest return is either a goto to a    *)
(* resume label or a C return, which unwinds the host stack.  The path of  *)
(* guest words must be the guest's own, see GuestMachine.                  *)
(*                                                                         *)
(* The guest is taken to keep its calling convention (see GuestMachine).   *)
(***************************************************************************)
EXTENDS EmittedCode

Seqs == INSTANCE SequencesExt

CONSTANT MaxDepth   \* bounds the guest's open calls and the host's frames

ASSUME MaxDepthAssumption == MaxDepth \in Nat

VARIABLES
    labels, \* the labels of each emitted C body
    mode,   \* what the host does: "emit", "run", "return", "over"
    fn,     \* the function whose C body is running
    blk,    \* the label it went to last
    at,     \* the guest word it stands for
    lr,     \* ctx->lr
    saved,  \* the link registers saved in guest memory
    calls,  \* where the open guest calls come back to (not in the code)
    frames, \* the host's stack of call_by_addr activations, innermost last
    covered \* has all the guest did so far a translation? (not in the code)

position    == <<fn, blk, at>>
machineVars == <<labels, mode, position, lr, saved, calls, frames, covered>>
allVars     == <<vars, machineVars>>

(* The word the guest executes next.                                       *)
guestPc ==
    CASE mode = "emit"   -> EntryPoint
      [] mode = "run"    -> at
      [] mode = "return" -> lr
      [] mode = "over"   -> 0

(* The guest's instructions and calling convention.                        *)
Guest == INSTANCE GuestMachine WITH pc <- guestPc

(* One frame per call_by_addr in progress: where to go on when it returns, *)
(* if the call is not followed by a return, and how many guest calls were  *)
(* open when the function it entered began.                                *)
Activation(tail, depth) == [fn |-> fn, blk |-> blk, tail |-> tail, depth |-> depth]

OpenBefore == IF frames = << >> THEN 0 ELSE Seqs!Last(frames).depth

MachineInit ==
    /\ labels = [f \in {} |-> {}]
    /\ mode = "emit"
    /\ fn = 0 /\ blk = 0 /\ at = EntryPoint
    /\ lr = Guest!Host
    /\ saved = << >>
    /\ calls = << >>
    /\ frames = << >>
    /\ covered = FALSE

-----------------------------------------------------------------------------
(* The images whose emitted code can be right: every block is listed where *)
(* it is reached and followed by the next word, resume labels exist, a     *)
(* call that two bodies share, in one block or in blocks that overlap, is  *)
(* local in both or in none, and what a branch through ctr may hold is     *)
(* known to the dispatcher.                                                *)
LocalInAllBodies(E) ==
    \A b \in E : IsLocalCall(E, b) =>
        \A g \in DOMAIN functions : \A c \in EmittedBlocks(g) :
            blocks[c].last = blocks[b].last => IsLocalCall(EmittedBlocks(g), c)

Translatable ==
    /\ \A f \in DOMAIN functions :
         LET E == EmittedBlocks(f) IN
         /\ FallThroughIsNext(f)
         /\ LocalResumeTargets(E) \subseteq E
         /\ \A b \in E : blocks[b].successors \cap Exec \subseteq E
         /\ \A b \in E : (End(b).table \cap Exec) \subseteq E \cup Dispatched
         /\ LocalInAllBodies(E)
    /\ Guest!HeldPointers(image) \subseteq Dispatched

(* A body in which a goto names no label does not compile.                 *)
Compiles == \A f \in DOMAIN functions : GotoTargets(f) \subseteq EmittedBlocks(f)

(* The host calls call_by_addr with the entry point.                       *)
Emit ==
    /\ phase = "done"
    /\ mode = "emit"
    /\ EntryPoint \in Exec
    /\ Compiles
    /\ covered' = Translatable
    /\ labels' = [f \in DOMAIN functions |-> EmittedBlocks(f)]
    /\ mode' = "run"
    /\ fn' = DispatchTargets[EntryPoint]
    /\ blk' = EntryPoint
    /\ UNCHANGED <<vars, at, lr, saved, calls, frames>>

-----------------------------------------------------------------------------
Body == labels[fn]
Here == code[at]
AtEnd == at = blocks[blk].last

(* What the emitter has no translation for is noted; it stops no step.     *)
CoveredIf(P) == covered' = (covered /\ P)

Goto(l) == mode' = "run" /\ blk' = l /\ at' = l

(* Control runs off the statements of block b of function f: into the next *)
(* label, or at the end of the body back to the caller.                    *)
RunOff(f, b) ==
    /\ fn' = f
    /\ IF \E l \in labels[f] : l > b
       THEN \E l \in labels[f] : IsNextLabel(labels[f], b, l) /\ Goto(l)
       ELSE mode' = "return" /\ UNCHANGED <<blk, at>>

ReturnFromBody == mode' = "return" /\ UNCHANGED position

(* call_by_addr returns at once from a routine of the host and from an     *)
(* address the dispatch table does not hold; else it enters the function   *)
(* the table names, at the label of the address.                           *)
ReturnsImmediately(t) == t \notin Exec \cap Dispatched

CallByAddr(t, tail, depth) ==
    /\ Len(frames) < MaxDepth
    /\ frames' = Append(frames, Activation(tail, depth))
    /\ fn' = DispatchTargets[t]
    /\ Goto(IF t \in labels[DispatchTargets[t]] THEN t ELSE DispatchTargets[t])

-----------------------------------------------------------------------------
RunOrdinary ==
    /\ Here.type = "Unknown"
    /\ Guest!MayExecute(Here, saved)
    /\ at + 1 \in Exec
    /\ Len(saved) < MaxDepth
    /\ lr' = Guest!LinkAfter(Here, lr, saved)
    /\ saved' = Guest!SavesAfter(Here, lr, saved)
    /\ \/ ~AtEnd /\ at' = at + 1 /\ UNCHANGED <<mode, fn, blk>>
       \/ AtEnd /\ RunOff(fn, blk)
    /\ UNCHANGED <<calls, frames, covered>>

RunNotTaken ==
    /\ Here.type = "ConditionalBranch"
    /\ at + 1 \in Exec
    /\ RunOff(fn, blk)
    /\ CoveredIf(~Here.link)
    /\ UNCHANGED <<lr, saved, calls, frames>>

(* A jump, or a conditional branch with link, which no body gives its lr.  *)
Leaps == Here.type \in {"Branch", "ConditionalBranch"} /\ Here.via # "lr"

(* To a label of the body.                                                 *)
RunGoto(t) ==
    /\ Leaps
    /\ t \in Body
    /\ Goto(t)
    /\ CoveredIf(~Here.link)
    /\ UNCHANGED <<fn, lr, saved, calls, frames>>

(* Out of the body: call_by_addr, then return, whatever local calls of the *)
(* body are open.  No C statement is left behind that awaits those.        *)
LeavesNoCallOpen == Len(calls) = OpenBefore

RunTransfer(t) ==
    /\ Leaps
    /\ t \notin Body
    /\ ~ReturnsImmediately(t)
    /\ CallByAddr(t, TRUE, OpenBefore)
    /\ CoveredIf(~Here.link /\ LeavesNoCallOpen)
    /\ UNCHANGED <<lr, saved, calls>>

(* The same where call_by_addr returns at once.                            *)
RunTransferToHost(t) ==
    /\ Leaps
    /\ t \notin Body
    /\ ReturnsImmediately(t)
    /\ Here.link \/ Guest!MayReturn(lr, calls)
    /\ calls' = Guest!AfterReturn(calls)
    /\ ReturnFromBody
    /\ CoveredIf(~Here.link /\ LeavesNoCallOpen)
    /\ UNCHANGED <<lr, saved, frames>>

BadReturnOnly(E) == {}
ResumeTargets(E) == LocalResumeTargets(E)

(* A return: to a resume label of the body, or from the body.              *)
RunReturn ==
    /\ Here.via = "lr" /\ Here.type # "Call"
    /\ Here.link \/ Guest!MayReturn(lr, calls)
    /\ calls' = Guest!AfterReturn(calls)
    /\ CoveredIf(~Here.link)
    /\ \/ lr \in ResumeTargets(Body) /\ Goto(lr) /\ UNCHANGED fn
       \/ lr \notin ResumeTargets(Body) /\ ReturnFromBody
    /\ UNCHANGED <<lr, saved, frames>>

OpenCall ==
    /\ Len(calls) < MaxDepth
    /\ lr' = at + 1
    /\ calls' = Append(calls, at + 1)
    /\ UNCHANGED covered

RunLocalCall ==
    /\ Here.type = "Call"
    /\ IsLocalCall(Body, blk)
    /\ OpenCall
    /\ Goto(Here.target)
    /\ UNCHANGED <<fn, saved, frames>>

RunCall(t) ==
    /\ Here.type = "Call"
    /\ ~IsLocalCall(Body, blk)
    /\ ~ReturnsImmediately(t)
    /\ OpenCall
    /\ CallByAddr(t, FALSE, Len(calls) + 1)
    /\ UNCHANGED saved

RunCallHost(t) ==
    /\ Here.type = "Call"
    /\ ~IsLocalCall(Body, blk)
    /\ ReturnsImmediately(t)
    /\ at + 1 \in Exec
    /\ lr' = at + 1
    /\ RunOff(fn, blk)
    /\ UNCHANGED <<saved, calls, frames, covered>>

(* A C return: to the C caller's next statement, which is a return after a *)
(* transfer and otherwise the end of the calling block.                    *)
BadUnwindTransfers(f) == FALSE
ReturnsAtOnce(f)      == f.tail

Unwind ==
    /\ mode = "return"
    /\ IF frames = << >>
       THEN mode' = "over" /\ UNCHANGED <<position, frames>>
       ELSE /\ frames' = Seqs!Front(frames)
            /\ IF ReturnsAtOnce(Seqs!Last(frames))
               THEN ReturnFromBody
               ELSE RunOff(Seqs!Last(frames).fn, Seqs!Last(frames).blk)
    /\ UNCHANGED <<labels, lr, saved, calls, covered>>

RunWord ==
    /\ mode = "run"
    /\ \/ RunOrdinary
       \/ RunNotTaken
       \/ RunReturn
       \/ RunLocalCall
       \/ \E t \in Guest!BranchTargets(image, Here, lr) :
            \/ RunGoto(t)
            \/ RunTransfer(t)
            \/ RunTransferToHost(t)
            \/ RunCall(t)
            \/ RunCallHost(t)
    /\ UNCHANGED labels

-----------------------------------------------------------------------------
GeneratedInit == Init /\ MachineInit

(* The run ends with the host, where the guest breaks its convention, and  *)
(* at MaxDepth.                                                            *)
GeneratedNext ==
    \/ (Seeding \/ MainLoop) /\ UNCHANGED machineVars
    \/ Emit
    \/ RunWord /\ UNCHANGED vars
    \/ Unwind /\ UNCHANGED vars

GeneratedSpec == GeneratedInit /\ [][GeneratedNext]_allVars

-----------------------------------------------------------------------------
(* Of translatable output, the emitted code takes the guest's path: each   *)
(* word it stands for is the one a PowerPC would execute, with the same    *)
(* link register, and the host returns only when the guest has ended.      *)
(* That is so until the guest does what the emitter has no translation     *)
(* for: it jumps out of a body while a local call of that body is open, or *)
(* executes a conditional branch with link.                                *)
FollowsGuest == Guest!GuestInit /\ [][covered' => Guest!GuestNext]_(Guest!guestVars)

(* Every open guest call is awaited where it was made: by the activation   *)
(* that called call_by_addr for it, which goes on behind its block, or, if *)
(* it is local, by a resume label of the body that made it.                *)
ActiveBody(i)  == IF i <= Len(frames) THEN frames[i].fn ELSE fn
OpenAtStart(i) == IF i = 1 THEN 0 ELSE frames[i - 1].depth

AwaitedByFrame(k) ==
    \E i \in DOMAIN frames :
        /\ ~frames[i].tail
        /\ frames[i].depth = k
        /\ calls[k] = Continuation(frames[i].blk)

AwaitedByLabel(k) ==
    \E i \in 1..(Len(frames) + 1) :
        /\ OpenAtStart(i) < k
        /\ i <= Len(frames) => k < frames[i].depth
        /\ calls[k] \in LocalResumeTargets(labels[ActiveBody(i)])

OpenCallsAreAwaited ==
    mode = "run" /\ covered => \A k \in DOMAIN calls : AwaitedByFrame(k) \/ AwaitedByLabel(k)

(* A C return goes on, in whatever body awaits it, at the word the guest   *)
(* returned to.  The tests ask for it of local calls, whose return goes to *)
(* the word behind them: "case 0x80000018: goto label_0x80000018;"         *)
(* (test_main.cpp:1185).  The code does not when a jump has left the body: *)
(* its C return goes past the resume label.                                *)
ReturnsGoWhereLrSays == [][mode = "return" /\ mode' = "run" => at' = lr]_allVars
=============================================================================
