------------------------------ MODULE OutputDir ------------------------------
(***************************************************************************)
(* Runs of the tool over one output directory: emitAllFunctions replaces   *)
(* the generated files and patches, in place, the files it did not write:  *)
(* hle_stubs.c, which the user extends by hand, and the host library's     *)
(* sources under gx_ems.  Between runs the program changes and the user    *)
(* edits; a run may be cut short at every step, and a file that cannot be  *)
(* opened is passed over in silence.                                       *)
(*                                                                         *)
(* A generated file is known by the program it was made from and whether   *)
(* it is whole: what has been opened is empty until it is closed.  A       *)
(* patched text is known by the anchors the patches look for, how often    *)
(* each hunk was applied, and the user's hooks in it.                      *)
(***************************************************************************)
EXTENDS Integers, Sequences, FiniteSets

CONSTANTS
    Programs,      \* programs the tool is run on
    FunctionCount, \* functions of each
    BatchSize,     \* functions in one file, 100 in the code
    Hooks,         \* what the user adds to hle_stubs.c
    InitialTexts,  \* what may lie in the directory before the first run
    MaxRuns, MaxCrashes, MaxFailures, MaxEdits   \* bounds

ASSUME OutputAssumption ==
    /\ FunctionCount \in [Programs -> Nat \ {0}]
    /\ BatchSize \in Nat \ {0}

-----------------------------------------------------------------------------
(* The patches.  A group of hunks is passed over when its marker is in the *)
(* text ("none": never); a hunk replaces its anchor once.  "stays": the    *)
(* replacement contains the anchor again.  "marks": the markers it brings. *)
(* "needs": the hunks that define what it uses.  The hunks of a text lie in *)
(* it in the order of their numbers.                                       *)

Hunk(stays, marks, needs) == [stays |-> stays, marks |-> marks, needs |-> needs]
Group(guard, hunks) == [guard |-> guard, hunks |-> hunks]

(* The hook's definition goes before the placeholder comment, its call to  *)
(* the head of try_hle_stub; the call contains the name of the hook.       *)
HleHunks ==
    <<Hunk(TRUE,  {"hook"}, {}),
      Hunk(TRUE,  {"call", "hook"}, {1}),
      Hunk(FALSE, {}, {}),
      Hunk(TRUE,  {"track"}, {3})>>

BadHleGroups == <<Group("call", {2}), Group("hook", {1}), Group("track", {3, 4})>>

HleGroups == <<Group("hook", {1}), Group("call", {2}), Group("track", {3, 4})>>

(* uniforms; second channel's uniforms; helper functions; the two raster   *)
(* colours; their use                                                      *)
ShaderHunks ==
    <<Hunk(TRUE, {"chan"}, {}), Hunk(FALSE, {}, {}), Hunk(FALSE, {}, {}),
      Hunk(FALSE, {}, {2, 3}), Hunk(FALSE, {"chan"}, {1, 3, 4})>>

InternalHunks == <<Hunk(FALSE, {}, {}), Hunk(TRUE, {"chan"}, {})>>

(* Six hunks and no marker: every replacement breaks its anchor up.        *)
GxHunks == [i \in 1..6 |-> Hunk(FALSE, {}, {})]

TextureHunks == <<Hunk(FALSE, {"cmpr"}, {}), Hunk(FALSE, {}, {})>>

MtxHunks == <<Hunk(FALSE, {"alias"}, {})>>

(* statics; the functions that use them; two callers of those              *)
PadHunks ==
    <<Hunk(FALSE, {}, {}), Hunk(TRUE, {"pad"}, {1}), Hunk(FALSE, {}, {2}), Hunk(FALSE, {}, {2})>>

HunksOf ==
    [hle_stubs |-> HleHunks, shader |-> ShaderHunks, internal |-> InternalHunks,
     gx |-> GxHunks, texture |-> TextureHunks, mtx |-> MtxHunks, pad |-> PadHunks]

All(f) == 1..Len(HunksOf[f])

GroupsOf ==
    [hle_stubs |-> HleGroups,
     shader    |-> <<Group("chan", All("shader"))>>,
     internal  |-> <<Group("chan", All("internal"))>>,
     gx        |-> <<Group("none", All("gx"))>>,
     texture   |-> <<Group("cmpr", All("texture"))>>,
     mtx       |-> <<Group("alias", All("mtx"))>>,
     pad       |-> <<Group("pad", All("pad"))>>]

(* The order in which the tool goes over them.                             *)
PatchOrder == <<"hle_stubs", "shader", "internal", "gx", "texture", "mtx", "pad">>

PatchedNames == DOMAIN HunksOf

(* A text; origin is the set of anchors it offered to the patches.         *)
NewText(f, anchors) ==
    [anchors |-> anchors, origin |-> anchors, applied |-> [i \in All(f) |-> 0],
     hooks |-> {}, whole |-> TRUE]

NoText == [anchors |-> {}, origin |-> {}, applied |-> <<>>, hooks |-> {}, whole |-> FALSE]

(* Before the first run no text has been patched yet.                      *)
ASSUME InitialTextsAssumption ==
    \A t \in InitialTexts :
        /\ t = [f \in PatchedNames |-> t[f]]
        /\ \A f \in PatchedNames :
              \/ t[f] = NoText
              \/ \E anchors \in SUBSET All(f), h \in SUBSET Hooks :
                    t[f] = [NewText(f, anchors) EXCEPT !.hooks = h]

Markers(f, t) == UNION {HunksOf[f][i].marks : i \in {j \in All(f) : t.applied[j] > 0}}

BadApplyGroup(f, t, g) ==
    LET hit == g.hunks \cap t.anchors
    IN  [t EXCEPT !.applied = [i \in All(f) |-> IF i \in hit THEN @[i] + 1 ELSE @[i]],
                  !.anchors = {i \in @ : i \in hit => HunksOf[f][i].stays}]

ApplyGroup(f, t, g) ==
    LET hit == g.hunks \cap t.anchors
    IN  IF g.guard \in Markers(f, t) THEN t
        ELSE [t EXCEPT !.applied = [i \in All(f) |-> IF i \in hit THEN @[i] + 1 ELSE @[i]],
                       !.anchors = {i \in @ : i \in hit => HunksOf[f][i].stays}]

(* The text in memory after a patch function has gone over it.             *)
Patched(f, t) ==
    LET groups == GroupsOf[f]
        after[n \in 0..Len(groups)] ==
            IF n = 0 THEN t ELSE ApplyGroup(f, after[n - 1], groups[n])
    IN  after[Len(groups)]

-----------------------------------------------------------------------------
BatchCount(p) == (FunctionCount[p] + BatchSize - 1) \div BatchSize

Batch(i)  == <<"batch", i>>
Runtime   == <<"recomp_runtime.h", 0>>
Functions == <<"functions.h", 0>>
JumpTable == <<"jump_table.c", 0>>

Batches(p) == {Batch(i) : i \in 0..(BatchCount(p) - 1)}
AllBatches == UNION {Batches(p) : p \in Programs}
FilesOf(p) == {Runtime, Functions, JumpTable} \cup Batches(p)
Names      == {Runtime, Functions, JumpTable} \cup AllBatches

Absent == [program |-> 0, whole |-> FALSE]

VARIABLES
    file,      \* the generated files: Absent, or the program and whether whole
    text,      \* the patched texts, NoText when there is none
    phase,     \* "idle", "clear", "functions", "batches",
               \* "stubs", "create", "patch", "write"
    step,      \* batch, or place in PatchOrder
    program,   \* the program of this run
    open,      \* generated files opened and not closed yet
    buffer,    \* what a patch function writes back
    outcome,   \* of the last run: "none", "finished", "crashed"
    clean,     \* did every open of this run succeed?
    hooks,     \* history: all the user has added to hle_stubs.c
    runs, crashes, failures, edits

counters == <<runs, crashes, failures, edits>>
vars == <<file, text, phase, step, program, open, buffer, outcome, clean, hooks, counters>>

Init ==
    /\ file = [n \in Names |-> Absent]
    /\ text \in InitialTexts
    /\ phase = "idle" /\ step = 0 /\ open = {} /\ buffer = NoText
    /\ program \in Programs
    /\ outcome = "none" /\ clean = TRUE /\ hooks = text["hle_stubs"].hooks
    /\ runs = 0 /\ crashes = 0 /\ failures = 0 /\ edits = 0

Begin ==
    /\ phase = "idle" /\ runs < MaxRuns
    /\ program' \in Programs
    /\ phase' = "clear" /\ clean' = TRUE /\ runs' = runs + 1
    /\ UNCHANGED <<file, text, step, open, buffer, outcome, hooks, crashes, failures, edits>>

(* std::ofstream: a new file is empty until closed; where it cannot be     *)
(* opened, what was there stays.                                           *)
OpenFile(n) ==
    \/ /\ file' = [file EXCEPT ![n] = [program |-> program, whole |-> FALSE]]
       /\ open' = open \cup {n}
       /\ UNCHANGED <<clean, failures>>
    \/ /\ failures < MaxFailures
       /\ failures' = failures + 1 /\ clean' = FALSE
       /\ UNCHANGED <<file, open>>

BadCloseFiles(N) ==
    /\ file' = [n \in Names |-> IF n \in N \cap open THEN [file[n] EXCEPT !.whole = TRUE]
                                ELSE file[n]]
    /\ UNCHANGED open

CloseFiles(N) ==
    /\ file' = [n \in Names |-> IF n \in N \cap open THEN [file[n] EXCEPT !.whole = TRUE]
                                ELSE file[n]]
    /\ open' = open \ N

BadStale == {}

(* Batch files of earlier runs, whatever their number.                     *)
Stale == {b \in AllBatches : file[b] # Absent}

ClearBatch ==
    /\ phase = "clear"
    /\ \E b \in Stale : file' = [file EXCEPT ![b] = Absent]
    /\ UNCHANGED <<text, phase, step, program, open, buffer, outcome, clean, hooks, counters>>

(* recomp_runtime.h is closed when emitAllFunctions returns.               *)
EmitRuntime ==
    /\ phase = "clear" /\ Stale = {}
    /\ OpenFile(Runtime)
    /\ phase' = "functions"
    /\ UNCHANGED <<text, step, program, buffer, outcome, hooks, runs, crashes, edits>>

EmitFunctions ==
    /\ phase = "functions" /\ Functions \notin open
    /\ OpenFile(Functions)
    /\ phase' = IF Functions \in open' THEN phase ELSE "batches"
    /\ step' = 0
    /\ UNCHANGED <<text, program, buffer, outcome, hooks, runs, crashes, edits>>

CloseFunctions ==
    /\ phase = "functions" /\ Functions \in open
    /\ CloseFiles({Functions})
    /\ phase' = "batches"
    /\ UNCHANGED <<text, step, program, buffer, outcome, clean, hooks, counters>>

(* The batch before is closed first; the last one after the loop.          *)
EmitBatch ==
    /\ phase = "batches" /\ step < BatchCount(program) /\ open \cap AllBatches = {}
    /\ OpenFile(Batch(step))
    /\ step' = step + 1
    /\ UNCHANGED <<text, phase, program, buffer, outcome, hooks, runs, crashes, edits>>

CloseBatch ==
    /\ phase = "batches" /\ open \cap AllBatches # {}
    /\ CloseFiles(AllBatches)
    /\ UNCHANGED <<text, phase, step, program, buffer, outcome, clean, hooks, counters>>

(* jump_table.c stays open to the end as well.                             *)
EmitJumpTable ==
    /\ phase = "batches" /\ step = BatchCount(program) /\ open \cap AllBatches = {}
    /\ OpenFile(JumpTable)
    /\ phase' = "stubs"
    /\ UNCHANGED <<text, step, program, buffer, outcome, hooks, runs, crashes, edits>>

(* What lies in a file that was cut short while t was written: a prefix    *)
(* that ends before hunk n and holds the hooks h.                          *)
Cut(f, t, n, h) ==
    [t EXCEPT !.anchors = @ \cap (1..n), !.applied = [i \in All(f) |-> IF i <= n THEN @[i] ELSE 0],
              !.hooks = h, !.whole = FALSE]

BadKeepsStubs == FALSE

KeepsStubs == text["hle_stubs"] # NoText

FreshStubs == NewText("hle_stubs", {1, 2})

(* Stubs that exist are kept as they are; else they are written, by way of *)
(* the same step as a patched text.                                        *)
EmitStubs ==
    /\ phase = "stubs"
    /\ step' = 1
    /\ \/ /\ KeepsStubs
          /\ phase' = "patch"
          /\ UNCHANGED <<text, buffer, clean, failures>>
       \/ /\ ~KeepsStubs
          /\ buffer' = FreshStubs
          /\ text' = [text EXCEPT !["hle_stubs"] = Cut("hle_stubs", FreshStubs, 0, {})]
          /\ phase' = "create"
          /\ UNCHANGED <<clean, failures>>
       \/ /\ ~KeepsStubs /\ failures < MaxFailures
          /\ failures' = failures + 1 /\ clean' = FALSE
          /\ phase' = "patch"
          /\ UNCHANGED <<text, buffer>>
    /\ UNCHANGED <<file, program, open, outcome, hooks, runs, crashes, edits>>

Current == PatchOrder[step]

(* A text that is there, and that its patch function changes.              *)
NeedsPatch(f) == IF text[f] = NoText THEN FALSE ELSE Patched(f, text[f]) # text[f]

WriteStubs ==
    /\ phase = "create"
    /\ text' = [text EXCEPT !["hle_stubs"] = buffer]
    /\ buffer' = NoText /\ phase' = "patch"
    /\ UNCHANGED <<file, step, program, open, outcome, clean, hooks, counters>>

(* A text that is not there, or that the patches leave as it is, is not    *)
(* written.                                                                *)
SkipPatch ==
    /\ phase = "patch" /\ step <= Len(PatchOrder)
    /\ ~NeedsPatch(Current)
    /\ step' = step + 1
    /\ UNCHANGED <<file, text, phase, program, open, buffer, outcome, clean, hooks, counters>>

Patch ==
    /\ phase = "patch" /\ step <= Len(PatchOrder)
    /\ NeedsPatch(Current)
    /\ \/ /\ buffer' = Patched(Current, text[Current])
          /\ text' = [text EXCEPT ![Current] = Cut(Current, @, 0, {})]
          /\ phase' = "write"
          /\ UNCHANGED <<step, clean, failures>>
       \/ /\ failures < MaxFailures
          /\ failures' = failures + 1 /\ clean' = FALSE
          /\ step' = step + 1
          /\ UNCHANGED <<text, buffer, phase>>
    /\ UNCHANGED <<file, program, open, outcome, hooks, runs, crashes, edits>>

WritePatched ==
    /\ phase = "write"
    /\ text' = [text EXCEPT ![Current] = buffer]
    /\ buffer' = NoText
    /\ phase' = "patch" /\ step' = step + 1
    /\ UNCHANGED <<file, program, open, outcome, clean, hooks, counters>>

Return ==
    /\ phase = "patch" /\ step > Len(PatchOrder)
    /\ CloseFiles(open)
    /\ phase' = "idle" /\ step' = 0 /\ outcome' = "finished"
    /\ UNCHANGED <<text, program, buffer, clean, hooks, counters>>

-----------------------------------------------------------------------------
(* The run is killed: what is open stays cut, a text that was being        *)
(* written keeps a prefix.                                                 *)
Crash ==
    /\ phase # "idle" /\ crashes < MaxCrashes
    /\ \/ phase \notin {"write", "create"} /\ UNCHANGED text
       \/ /\ phase \in {"write", "create"}
          /\ \E n \in 0..Len(HunksOf[Current]), h \in SUBSET buffer.hooks :
                text' = [text EXCEPT ![Current] = Cut(Current, buffer, n, h)]
    /\ phase' = "idle" /\ step' = 0 /\ open' = {} /\ buffer' = NoText
    /\ outcome' = "crashed" /\ crashes' = crashes + 1
    /\ UNCHANGED <<file, program, clean, hooks, runs, failures, edits>>

Edit == phase = "idle" /\ edits < MaxEdits /\ edits' = edits + 1

AddHook ==
    /\ Edit /\ text["hle_stubs"] # NoText
    /\ \E h \in Hooks \ hooks :
          /\ hooks' = hooks \cup {h}
          /\ text' = [text EXCEPT !["hle_stubs"].hooks = @ \cup {h}]
    /\ UNCHANGED <<file, phase, step, program, open, buffer, outcome, clean, runs, crashes, failures>>

(* The user deletes an anchor, the placeholder comment for one.            *)
RemoveAnchor ==
    /\ Edit
    /\ \E f \in PatchedNames :
          /\ text[f] # NoText
          /\ \E i \in text[f].anchors :
                text' = [text EXCEPT ![f].anchors = @ \ {i},
                                     ![f].origin = {j \in @ : j # i \/ text[f].applied[i] > 0}]
    /\ UNCHANGED <<file, phase, step, program, open, buffer, outcome, clean, hooks,
                   runs, crashes, failures>>

Run ==
    \/ ClearBatch \/ EmitRuntime \/ EmitFunctions \/ CloseFunctions \/ EmitBatch \/ CloseBatch
    \/ EmitJumpTable \/ EmitStubs \/ WriteStubs \/ SkipPatch \/ Patch \/ WritePatched \/ Return

Next == Begin \/ Run \/ Crash \/ AddHook \/ RemoveAnchor

Spec == Init /\ [][Next]_vars

-----------------------------------------------------------------------------
Text(f) ==
    [anchors : SUBSET All(f), origin : SUBSET All(f), applied : [All(f) -> Nat],
     hooks : SUBSET Hooks, whole : BOOLEAN]

TypeOK ==
    /\ file \in [Names -> {Absent} \cup [program : Programs, whole : BOOLEAN]]
    /\ \A f \in PatchedNames : text[f] = NoText \/ text[f] \in Text(f)
    /\ phase \in {"idle", "clear", "functions", "batches", "stubs", "create", "patch", "write"}
    /\ phase = "idle" => open = {}
    /\ \A n \in open : file[n] = [program |-> program, whole |-> FALSE]
    /\ phase \in {"create", "write"} <=> buffer # NoText
    /\ program \in Programs /\ hooks \subseteq Hooks

(* After a run that could open its files, the directory holds one program: *)
(* every generated file is whole and of this run, and no file of a larger  *)
(* program or of a run that was killed is left (emitAllFunctions).         *)
OutputIsOneProgram ==
    phase = "idle" /\ outcome = "finished" /\ clean =>
        \A n \in Names :
            file[n] = IF n \in FilesOf(program) THEN [program |-> program, whole |-> TRUE]
                      ELSE Absent

(* However often the tool runs over a text, cut short or not, no hunk is   *)
(* in it twice (the markers of the patchGenerated functions, and, for      *)
(* pc_gx.c, that its replacements break their anchors up).                 *)
NoHunkTwice ==
    \A f \in PatchedNames : text[f] # NoText => \A i \in All(f) : text[f].applied[i] <= 1

(* A text that offers a hunk's anchor together with those of all it needs  *)
(* never comes out with a hunk that uses what is not defined.              *)
Coherent(f, anchors) == \A i \in anchors : HunksOf[f][i].needs \subseteq anchors

HunksHaveTheirNeeds ==
    \A f \in PatchedNames :
        text[f].whole /\ Coherent(f, text[f].origin) =>
            \A i \in All(f) : text[f].applied[i] > 0 =>
                \A j \in HunksOf[f][i].needs : text[f].applied[j] > 0

(* What the user added to hle_stubs.c is there after any number of runs,   *)
(* of whatever programs, unless the file was cut short while it was being  *)
(* patched (emitAllFunctions' test for existing stubs).                    *)
UserHooksKept == text["hle_stubs"].whole => text["hle_stubs"].hooks = hooks

(* Once the tool has finished, no patch function has anything left to do,  *)
(* so that a later run never opens a text the user may have worked on and  *)
(* a crash cannot cost it.                                                 *)
PatchedTextsSettle ==
    phase = "idle" /\ outcome = "finished" /\ clean => \A f \in PatchedNames : ~NeedsPatch(f)
=============================================================================
