--------------------------- MODULE AnalyzerProofs ---------------------------
(***************************************************************************)
(* Theorems about the analyzer, for every image, address layout and entry  *)
(* point that satisfies ImageAssumption and AnalyzerAssumption: what is    *)
(* found and scanned, then the blocks, where they are cut and that the     *)
(* ones functions list get built.                                          *)
(***************************************************************************)
EXTENDS Analyzer, TLAPS

-----------------------------------------------------------------------------
(* Facts about the helpers.                                                *)

IsFunctionMap(funcs) ==
    DOMAIN funcs \subseteq Exec /\ funcs \in [DOMAIN funcs -> Function]

(* Registering adds the executable addresses and leaves block lists alone. *)
LEMMA RegisteredFacts ==
    ASSUME NEW funcs, IsFunctionMap(funcs), NEW S, NEW name \in Name
    PROVE  /\ IsFunctionMap(Registered(funcs, S, name))
           /\ DOMAIN Registered(funcs, S, name) = DOMAIN funcs \cup (S \cap Exec)
           /\ \A a \in DOMAIN funcs :
                 Registered(funcs, S, name)[a].blocks = funcs[a].blocks
           /\ \A a \in DOMAIN Registered(funcs, S, name) \ DOMAIN funcs :
                 Registered(funcs, S, name)[a].blocks = {}
<1> DEFINE R == Registered(funcs, S, name)
<1>1. DOMAIN R = DOMAIN funcs \cup (S \cap Exec)
  BY DEF Registered
<1>2. ASSUME NEW a \in DOMAIN R
      PROVE  /\ R[a] \in Function
             /\ a \in DOMAIN funcs => R[a].blocks = funcs[a].blocks
             /\ a \notin DOMAIN funcs => R[a].blocks = {}
  <2>1. CASE a \notin DOMAIN funcs
    <3>1. R[a] = [name |-> name, blocks |-> {}]
      BY <1>1, <2>1 DEF Registered
    <3>2. QED BY <2>1, <3>1 DEF Function
  <2>2. CASE a \in DOMAIN funcs
    <3>1. funcs[a] \in Function
      BY <2>2 DEF IsFunctionMap
    <3>2. R[a] \in {funcs[a], [funcs[a] EXCEPT !.name = name]}
      BY <1>1, <2>2 DEF Registered
    <3>3. QED BY <2>2, <3>1, <3>2 DEF Function
  <2>3. QED BY <2>1, <2>2
<1>3. R \in [DOMAIN R -> Function]
  BY <1>2 DEF Registered
<1>4. QED
  BY <1>1, <1>2, <1>3 DEF IsFunctionMap

(* So does extending the block list of one function.                       *)
LEMMA WithBlocksFacts ==
    ASSUME NEW funcs, IsFunctionMap(funcs), NEW f \in DOMAIN funcs,
           NEW S \in SUBSET Target
    PROVE  /\ IsFunctionMap(WithBlocks(funcs, f, S))
           /\ DOMAIN WithBlocks(funcs, f, S) = DOMAIN funcs
           /\ WithBlocks(funcs, f, S)[f].blocks = funcs[f].blocks \cup S
           /\ \A a \in DOMAIN funcs \ {f} : WithBlocks(funcs, f, S)[a] = funcs[a]
<1> DEFINE W == WithBlocks(funcs, f, S)
           F == [funcs[f] EXCEPT !.blocks = funcs[f].blocks \cup S]
<1>1. funcs \in [DOMAIN funcs -> Function] /\ funcs[f] \in Function
  BY DEF IsFunctionMap
<1>2. F \in Function /\ F.blocks = funcs[f].blocks \cup S
  BY <1>1 DEF Function
<1>3. W = [funcs EXCEPT ![f] = F]
  BY DEF WithBlocks
<1> HIDE DEF F
<1>4. W \in [DOMAIN funcs -> Function]
  BY <1>1, <1>2, <1>3
<1>5. W[f] = F /\ \A a \in DOMAIN funcs \ {f} : W[a] = funcs[a]
  BY <1>1, <1>3
<1>6. DOMAIN W = DOMAIN funcs
  BY <1>3
<1>7. QED
  BY <1>2, <1>4, <1>5, <1>6 DEF IsFunctionMap

(* The addresses a worklist holds.                                         *)
Queued(queue) == UNION {queue[i] : i \in DOMAIN queue}

(* The worklist's operations keep it a sequence of non-empty batches, and  *)
(* add or take just the addresses they are given.                          *)
LEMMA PushFacts ==
    ASSUME NEW queue \in Seq(Batch), NEW S \in SUBSET Exec
    PROVE  /\ Push(queue, S) \in Seq(Batch)
           /\ Queued(Push(queue, S)) = Queued(queue) \cup S
<1>1. CASE S = {}
  BY <1>1 DEF Push
<1>2. CASE S # {}
  <2> DEFINE pushed == Append(queue, S)
  <2>1. Push(queue, S) = pushed /\ S \in Batch
    BY <1>2 DEF Push, Batch
  <2>2. pushed \in Seq(Batch) /\ Len(pushed) = Len(queue) + 1
    BY <2>1
  <2>3. /\ DOMAIN queue = 1..Len(queue) /\ DOMAIN pushed = 1..(Len(queue) + 1)
        /\ \A i \in DOMAIN queue : pushed[i] = queue[i]
        /\ pushed[Len(queue) + 1] = S
        /\ Len(queue) \in Nat
    BY <2>2
  <2> HIDE DEF pushed
  <2>4. ASSUME NEW x
        PROVE  x \in Queued(pushed) <=> x \in Queued(queue) \/ x \in S
    <3>1. ASSUME x \in Queued(pushed) PROVE x \in Queued(queue) \/ x \in S
      <4>1. PICK i \in DOMAIN pushed : x \in pushed[i]
        BY <3>1 DEF Queued
      <4>2. i \in DOMAIN queue \/ i = Len(queue) + 1
        BY <2>3
      <4>3. QED BY <4>1, <4>2, <2>3 DEF Queued
    <3>2. ASSUME x \in Queued(queue) PROVE x \in Queued(pushed)
      <4>1. PICK i \in DOMAIN queue : x \in queue[i]
        BY <3>2 DEF Queued
      <4>2. i \in DOMAIN pushed /\ x \in pushed[i]
        BY <4>1, <2>3
      <4>3. QED BY <4>2 DEF Queued
    <3>3. ASSUME x \in S PROVE x \in Queued(pushed)
      <4>1. Len(queue) + 1 \in DOMAIN pushed /\ x \in pushed[Len(queue) + 1]
        BY <3>3, <2>3
      <4>2. QED BY <4>1 DEF Queued
    <3>4. QED BY <3>1, <3>2, <3>3
  <2>5. Queued(pushed) = Queued(queue) \cup S
    BY <2>4
  <2>6. QED BY <2>1, <2>2, <2>5
<1>3. QED BY <1>1, <1>2

LEMMA WithoutFrontFacts ==
    ASSUME NEW queue \in Seq(Batch), queue # << >>, NEW a
    PROVE  /\ WithoutFront(queue, a) \in Seq(Batch)
           /\ Queued(WithoutFront(queue, a)) \subseteq Queued(queue)
           /\ Queued(queue) \subseteq Queued(WithoutFront(queue, a)) \cup {a}
<1>1. /\ Tail(queue) \in Seq(Batch) /\ Head(queue) \in Batch
      /\ Head(queue) = queue[1] /\ Len(queue) \in Nat \ {0}
      /\ DOMAIN queue = 1..Len(queue) /\ Len(Tail(queue)) = Len(queue) - 1
      /\ \A i \in 1..(Len(queue) - 1) : Tail(queue)[i] = queue[i + 1]
  OBVIOUS
<1>2. CASE Head(queue) = {a}
  <2> DEFINE rest == Tail(queue)
  <2>1. WithoutFront(queue, a) = rest
    BY <1>2 DEF WithoutFront
  <2>2. DOMAIN rest = 1..(Len(queue) - 1)
    BY <1>1
  <2>3. \A i \in DOMAIN rest : i + 1 \in DOMAIN queue /\ rest[i] = queue[i + 1]
    BY <1>1, <2>2
  <2>4. \A i \in DOMAIN queue \ {1} : i - 1 \in DOMAIN rest /\ rest[i - 1] = queue[i]
    BY <1>1, <2>2
  <2> HIDE DEF rest
  <2>5. Queued(rest) \subseteq Queued(queue)
    BY <2>3 DEF Queued
  <2>6. Queued(queue) \subseteq Queued(rest) \cup {a}
    BY <1>1, <1>2, <2>4 DEF Queued
  <2>7. QED BY <1>1, <2>1, <2>5, <2>6 DEF rest
<1>3. CASE Head(queue) # {a}
  <2> DEFINE front == Head(queue) \ {a}
             rest  == <<front>> \o Tail(queue)
  <2>1. WithoutFront(queue, a) = rest
    BY <1>3 DEF WithoutFront
  <2>2. front \in Batch
    BY <1>1, <1>3 DEF Batch
  <2>3. rest \in Seq(Batch)
    <3>1. <<front>> \in Seq(Batch)
      BY <2>2
    <3>2. QED BY <1>1, <3>1
  <2>4. /\ DOMAIN rest = 1..Len(queue)
        /\ rest[1] = front
        /\ \A i \in 2..Len(queue) : rest[i] = queue[i]
    BY <1>1
  <2> HIDE DEF rest
  <2>5. \A i \in DOMAIN queue : i \in DOMAIN rest
                                 /\ rest[i] \subseteq queue[i]
                                 /\ queue[i] \subseteq rest[i] \cup {a}
    <3> TAKE i \in DOMAIN queue
    <3>1. CASE i = 1
      BY <1>1, <2>4, <3>1
    <3>2. CASE i # 1
      BY <1>1, <2>4, <3>2
    <3>3. QED BY <3>1, <3>2
  <2>6. Queued(rest) \subseteq Queued(queue)
    BY <1>1, <2>4, <2>5 DEF Queued
  <2>7. Queued(queue) \subseteq Queued(rest) \cup {a}
    BY <2>5 DEF Queued
  <2>8. QED BY <2>1, <2>3, <2>6, <2>7
<1>4. QED BY <1>2, <1>3

(* What the branch that ends a run leads to.                               *)
LEMMA BranchFacts ==
    ASSUME NEW instr \in Instruction, image \in ImageType
    PROVE  /\ LocalTargets(instr) \subseteq Exec
           /\ CalledFunctions(instr) \subseteq Exec
           /\ \A c \in Addr : ResumePoints(c) \subseteq Target
<1>1. LocalTargets(instr) \subseteq Exec
  BY DEF LocalTargets
<1>2. CalledFunctions(instr) \subseteq Exec
  BY DEF CalledFunctions, LooksLikeIndependentFunctionEntry
<1>3. \A c \in Addr : ResumePoints(c) \subseteq Target
  BY ImageAssumption DEF ResumePoints, Addr, Target
<1>4. QED BY <1>1, <1>2, <1>3

LEMMA SequencedFacts ==
    ASSUME NEW T, NEW S \in SUBSET T
    PROVE  Sequenced(S) \in Seq(T)
<1>1. CASE S = {}
  BY <1>1 DEF Sequenced
<1>2. CASE S # {}
  <2>1. (CHOOSE x \in S : TRUE) \in T
    BY <1>2
  <2>2. QED BY <1>2, <2>1 DEF Sequenced
<1>3. QED BY <1>1, <1>2

-----------------------------------------------------------------------------
(* Type correctness: every variable keeps its type whatever the image.     *)

LEMMA InitTypeOK == Init => TypeOK
<1> SUFFICES ASSUME Init PROVE TypeOK
  OBVIOUS
<1>1. image \in ImageType
  BY AnalyzerAssumption DEF Init
<1>2. /\ DOMAIN functions = {} /\ functions \in [DOMAIN functions -> Function]
      /\ DOMAIN blocks = {} /\ blocks \in [DOMAIN blocks -> BasicBlock]
  BY DEF Init
<1>3. QED
  BY <1>1, <1>2 DEF Init, TypeOK, Phase

LEMMA SeedingTypeOK == TypeOK /\ Seeding => TypeOK'
<1> SUFFICES ASSUME TypeOK, Seeding PROVE TypeOK'
  OBVIOUS
<1>0. IsFunctionMap(functions)
  BY DEF TypeOK, IsFunctionMap
<1>1. CASE ScanPrologues
  <2>1. IsFunctionMap(Registered(functions, Prologues, "fn"))
    BY <1>0, RegisteredFacts DEF Name
  <2>2. IsFunctionMap(functions')
    BY <1>1, <2>1, RegisteredFacts DEF ScanPrologues, Name
  <2>3. QED
    BY <1>1, <2>2 DEF TypeOK, ScanPrologues, Discover, passVars, Phase, IsFunctionMap
<1>2. ASSUME NEW here, NEW next \in Phase \ {"scan", "build"}, NEW S, NEW name \in Name,
             SeedFrom(here, next, S, name)
      PROVE  TypeOK'
  <2>1. IsFunctionMap(functions')
    BY <1>0, <1>2, RegisteredFacts DEF SeedFrom
  <2>2. QED
    BY <1>2, <2>1 DEF TypeOK, SeedFrom, Discover, passVars, Phase, IsFunctionMap
<1>3. CASE DiscoverEntryPoint
  BY <1>2, <1>3 DEF DiscoverEntryPoint, Phase, Name
<1>4. CASE ScanDataPointers
  BY <1>2, <1>4 DEF ScanDataPointers, Phase, Name
<1>5. CASE ScanTextPointers
  BY <1>2, <1>5 DEF ScanTextPointers, Phase, Name
<1>6. CASE PopulateWorklist
  <2>1. worklist' \in Seq(Batch)
    BY <1>6, PushFacts DEF TypeOK, PopulateWorklist
  <2>2. QED
    BY <1>6, <2>1 DEF TypeOK, PopulateWorklist, cfgVars, passVars, Phase
<1>7. QED
  BY <1>1, <1>3, <1>4, <1>5, <1>6 DEF Seeding

(* What one scanned run adds.                                              *)
LEMMA ScanTypeOK == TypeOK /\ ScanRun => TypeOK'
<1> SUFFICES ASSUME TypeOK, ScanRun PROVE TypeOK'
  OBVIOUS
<1> DEFINE a == Head(scanQueue)
           branches(c) == EndsAtBranch(a, c, ScanCuts)
           targets(c)  == IF branches(c) THEN LocalTargets(code[c]) ELSE {c} \cap ScanCuts
           resumes(c)  == IF branches(c) THEN ResumePoints(c) ELSE {}
           called(c)   == IF branches(c) THEN CalledFunctions(code[c]) ELSE {}
<1>1. scanQueue \in Seq(Target) /\ scanQueue # << >> /\ phase = "scan"
  BY DEF TypeOK, ScanRun
<1>2. a \in Target /\ Tail(scanQueue) \in Seq(Target)
  BY <1>1
<1>3. PICK c \in a..(MaxAddr + 1) :
        /\ seeds' = seeds \cup targets(c) \cup resumes(c)
        /\ scanQueue' = Tail(scanQueue) \o Sequenced(targets(c) \ seeds)
                          \o Sequenced(resumes(c) \ (seeds \cup targets(c)))
        /\ functions' = Registered(functions, called(c), "sub")
        /\ Discover(called(c))
  BY DEF ScanRun
<1>4. branches(c) => c \in Addr /\ code[c] \in Instruction
  BY DEF EndsAtBranch, TypeOK, ImageType, Code, code
<1>5. Exec \subseteq Target /\ c \in Target
  BY <1>2, ImageAssumption DEF Target
<1>6. /\ targets(c) \subseteq Target /\ resumes(c) \subseteq Target
      /\ called(c) \subseteq Exec
  BY <1>4, <1>5, BranchFacts DEF TypeOK
<1> HIDE DEF targets, resumes, called
<1>7. seeds' \subseteq Target
  BY <1>3, <1>6 DEF TypeOK
<1>8. /\ Sequenced(targets(c) \ seeds) \in Seq(Target)
      /\ Sequenced(resumes(c) \ (seeds \cup targets(c))) \in Seq(Target)
  BY <1>6, SequencedFacts
<1>9. scanQueue' \in Seq(Target)
  <2>1. Tail(scanQueue) \o Sequenced(targets(c) \ seeds) \in Seq(Target)
    BY <1>2, <1>8
  <2>2. scanQueue' = (Tail(scanQueue) \o Sequenced(targets(c) \ seeds))
                       \o Sequenced(resumes(c) \ (seeds \cup targets(c)))
    BY <1>3
  <2>3. QED
    BY <1>8, <2>1, <2>2
<1>10. IsFunctionMap(functions') /\ DOMAIN functions \subseteq DOMAIN functions'
  <2>1. IsFunctionMap(functions)
    BY DEF TypeOK, IsFunctionMap
  <2>2. functions' = Registered(functions, called(c), "sub")
    BY <1>3
  <2>3. /\ IsFunctionMap(Registered(functions, called(c), "sub"))
        /\ DOMAIN Registered(functions, called(c), "sub")
             = DOMAIN functions \cup (called(c) \cap Exec)
    BY <2>1, RegisteredFacts DEF Name
  <2>4. QED
    BY <2>2, <2>3
<1>11. discovered' \subseteq Exec
  BY <1>3 DEF Discover, TypeOK
<1>12. scanned' \subseteq Target
  BY <1>2 DEF ScanRun, TypeOK
<1>13. QED
  BY <1>1, <1>7, <1>9, <1>10, <1>11, <1>12 DEF TypeOK, ScanRun, IsFunctionMap

-----------------------------------------------------------------------------
(* TypeOK alone is not inductive: an address taken off the worklist has to *)
(* be a registered function for the passes to extend its block list, and   *)
(* that is what discovery maintains about the worklist.                    *)
WorklistInv ==
    /\ DOMAIN functions = discovered
    /\ analyzed \subseteq discovered
    /\ Queued(worklist) \subseteq discovered
    /\ phase = "pop" => discovered \subseteq analyzed \cup Queued(worklist)
    /\ phase = "done" => discovered \subseteq analyzed

LEMMA PopTypeOK ==
    ASSUME TypeOK, WorklistInv, NEW a \in Exec, SkipAnalyzed(a) \/ BeginFunction(a)
    PROVE  TypeOK'
<1>1. worklist \in Seq(Batch) /\ worklist # << >>
  BY DEF TypeOK, SkipAnalyzed, BeginFunction, Front
<1>2. worklist' \in Seq(Batch)
  BY <1>1, WithoutFrontFacts DEF SkipAnalyzed, BeginFunction
<1>3. CASE SkipAnalyzed(a)
  BY <1>2, <1>3 DEF TypeOK, SkipAnalyzed, cfgVars, passVars
<1>4. CASE BeginFunction(a)
  <2>1. a \in Queued(worklist)
    <3>1. 1 \in DOMAIN worklist /\ Head(worklist) = worklist[1]
      BY <1>1
    <3>2. a \in worklist[1]
      BY <1>4, <3>1 DEF BeginFunction, Front, IsLeast
    <3>3. QED BY <3>1, <3>2 DEF Queued
  <2>2. a \in DOMAIN functions /\ a \in Target
    BY <2>1, ImageAssumption DEF WorklistInv, Target
  <2>3. scanQueue' \in Seq(Target)
    BY <1>4, <2>2 DEF BeginFunction
  <2>4. analyzed' \subseteq Exec
    BY <1>4 DEF BeginFunction, MarkAnalyzed, TypeOK
  <2>5. QED
    BY <1>2, <1>4, <2>2, <2>3, <2>4 DEF TypeOK, BeginFunction, cfgVars, Phase
<1>5. QED BY <1>3, <1>4

LEMMA BeginPass2TypeOK == TypeOK /\ BeginPass2 => TypeOK'
<1> SUFFICES ASSUME TypeOK, BeginPass2 PROVE TypeOK'
  OBVIOUS
<1>1. IsFunctionMap(functions) /\ cur \in DOMAIN functions /\ seeds \in SUBSET Target
  BY DEF TypeOK, IsFunctionMap, BeginPass2
<1>2. /\ IsFunctionMap(WithBlocks(functions, cur, seeds))
      /\ DOMAIN WithBlocks(functions, cur, seeds) = DOMAIN functions
  BY <1>1, WithBlocksFacts
<1>3. IsFunctionMap(functions') /\ DOMAIN functions' = DOMAIN functions
  BY <1>2 DEF BeginPass2
<1>4. QED
  BY <1>1, <1>3 DEF TypeOK, BeginPass2, workVars, IsFunctionMap, Phase

(* Where the guest goes on in the same function after the branch at c.     *)
LeadsTo(c) == LocalTargets(code[c]) \cup ResumePoints(c)

(* What building block a does when its run ends at c.                      *)
DirectSuccessors(a, c, queued) == queued \cup ({c} \cap BlockCuts \cap (a + 1)..c)

BuildEffect(a, c, called, queued, jumps) ==
    LET branches == EndsAtBranch(a, c, BlockCuts)
        direct   == DirectSuccessors(a, c, queued)
        local    == LocalJumpTargets(a, jumps)
    IN /\ IsRunEnd(a, c, BlockCuts)
       /\ branches => c \in Addr /\ queued = LeadsTo(c) /\ called = CalledFunctions(code[c])
       /\ ~branches => c \in Target /\ a < c /\ c - 1 \in Addr /\ queued = {}
       /\ direct \subseteq Target
       /\ local \subseteq Exec
       /\ \A t \in called : branches /\ t \in CalledFunctions(code[c])
       /\ functions' = WithBlocks(Registered(functions, called, "sub"),
                                  cur, direct \cup local)
       /\ Discover(called)
       /\ pending' = (pending \ {a})
                       \cup NewlyListed(functions[cur].blocks, queued \cup local)
       /\ blocks' = [s \in DOMAIN blocks \cup {a} |->
             IF s # a THEN blocks[s]
             ELSE [last       |-> IF branches THEN c ELSE c - 1,
                   successors |-> direct \cup (jumps \ {0}),
                   jumpTable  |-> jumps]]

LEMMA BuildBlockEffect ==
    ASSUME TypeOK, NEW a, BuildBlock(a)
    PROVE  \E c \in a..(MaxAddr + 1), called \in SUBSET Exec,
              queued \in SUBSET Target, jumps \in SUBSET Target :
                 BuildEffect(a, c, called, queued, jumps)
<1> DEFINE branches(c) == EndsAtBranch(a, c, BlockCuts)
           called(c) == IF branches(c) THEN CalledFunctions(code[c]) ELSE {}
           queued(c) == IF branches(c) THEN LocalTargets(code[c]) \cup ResumePoints(c)
                        ELSE {}
           jumps(c)  == IF branches(c) /\ HasJumpTable(a, c) THEN JumpTargets(a, c)
                        ELSE {}
           direct(c) == queued(c) \cup ({c} \cap BlockCuts \cap (a + 1)..c)
           local(c)  == LocalJumpTargets(a, jumps(c))
<1>1. PICK c \in a..(MaxAddr + 1) :
         /\ IsRunEnd(a, c, BlockCuts)
         /\ functions' = WithBlocks(Registered(functions, called(c), "sub"),
                                    cur, direct(c) \cup local(c))
         /\ Discover(called(c))
         /\ pending' = (pending \ {a})
              \cup NewlyListed(functions[cur].blocks, queued(c) \cup local(c))
         /\ blocks' = [s \in DOMAIN blocks \cup {a} |->
              IF s # a THEN blocks[s]
              ELSE [last       |-> IF branches(c) THEN c ELSE c - 1,
                    successors |-> direct(c) \cup (jumps(c) \ {0}),
                    jumpTable  |-> jumps(c)]]
  BY DEF BuildBlock
<1>2. a \in Exec /\ a \in 1..MaxAddr /\ MaxAddr \in Nat /\ c \in Int
  BY ImageAssumption DEF BuildBlock, Buildable
<1>3. branches(c) => c \in Addr /\ code[c] \in Instruction
  BY DEF EndsAtBranch, TypeOK, ImageType, Code, code
<1>4. ~branches(c) => c \in Target /\ a < c /\ c - 1 \in Addr
  <2>1. SUFFICES ASSUME ~branches(c) PROVE c # a
    BY <1>2 DEF Target, Addr
  <2>2. StopsAt(a, c, BlockCuts)
    BY <1>1 DEF IsRunEnd
  <2>3. QED
    BY <1>2, <2>1, <2>2 DEF StopsAt, EndsAtBranch, IsCut, Addr
<1>5. c \in Target
  BY <1>2 DEF Target
<1>6. called(c) \subseteq Exec /\ queued(c) \subseteq Target /\ Exec \subseteq Target
  BY <1>3, BranchFacts, ImageAssumption DEF TypeOK, Target
<1>7. jumps(c) \subseteq Target
  <2>1. SUFFICES ASSUME branches(c), HasJumpTable(a, c) PROVE JumpTargets(a, c) \subseteq Target
    OBVIOUS
  <2>2. code[c] \in Instruction /\ code[a - 1] \in Instruction
    BY <1>3, <2>1 DEF HasJumpTable, TypeOK, ImageType, Code, code
  <2>3. QED BY <2>2 DEF JumpTargets, Instruction
<1>8. direct(c) \subseteq Target
  BY <1>5, <1>6
<1>9. local(c) \subseteq Exec
  BY DEF LocalJumpTargets
<1>10. \A t \in called(c) : branches(c) /\ t \in CalledFunctions(code[c])
  OBVIOUS
<1>11. /\ ~branches(c) => queued(c) = {}
       /\ branches(c) => queued(c) = LeadsTo(c) /\ called(c) = CalledFunctions(code[c])
  BY DEF LeadsTo
<1> HIDE DEF called, queued, jumps
<1>12. QED
  <2>1. /\ called(c) \in SUBSET Exec /\ queued(c) \in SUBSET Target
        /\ jumps(c) \in SUBSET Target
    BY <1>6, <1>7
  <2>2. BuildEffect(a, c, called(c), queued(c), jumps(c))
    BY <1>1, <1>3, <1>4, <1>8, <1>9, <1>10, <1>11 DEF BuildEffect, DirectSuccessors
  <2>3. QED
    BY <2>1, <2>2

LEMMA BuildTypeOK == ASSUME TypeOK, NEW a \in Target, BuildBlock(a) PROVE TypeOK'
<1>1. PICK c \in a..(MaxAddr + 1), called \in SUBSET Exec,
           queued \in SUBSET Target, jumps \in SUBSET Target :
              BuildEffect(a, c, called, queued, jumps)
  BY BuildBlockEffect
<1> DEFINE branches == EndsAtBranch(a, c, BlockCuts)
           direct == DirectSuccessors(a, c, queued)
           local  == LocalJumpTargets(a, jumps)
           block  == [last       |-> IF branches THEN c ELSE c - 1,
                      successors |-> direct \cup (jumps \ {0}),
                      jumpTable  |-> jumps]
<1>2. block \in BasicBlock
  BY <1>1 DEF BasicBlock, BuildEffect
<1>3. a \in Exec /\ Exec \subseteq Target /\ phase = "build" /\ cur \in DOMAIN functions
  BY ImageAssumption DEF BuildBlock, Buildable, Target, TypeOK
<1>4. direct \cup local \in SUBSET Target
  BY <1>1, <1>3 DEF BuildEffect
<1>5. functions' = WithBlocks(Registered(functions, called, "sub"), cur, direct \cup local)
  BY <1>1 DEF BuildEffect
<1>6. blocks' = [s \in DOMAIN blocks \cup {a} |-> IF s # a THEN blocks[s] ELSE block]
  BY <1>1 DEF BuildEffect
<1>7. pending' = (pending \ {a})
                    \cup NewlyListed(functions[cur].blocks, queued \cup local)
  BY <1>1 DEF BuildEffect
<1>8. local \subseteq Target /\ Discover(called)
  BY <1>1, <1>3 DEF BuildEffect
<1> HIDE DEF block, direct, local
<1>9. IsFunctionMap(functions') /\ DOMAIN functions \subseteq DOMAIN functions'
  <2>1. IsFunctionMap(functions)
    BY DEF TypeOK, IsFunctionMap
  <2>2. /\ IsFunctionMap(Registered(functions, called, "sub"))
        /\ DOMAIN Registered(functions, called, "sub")
             = DOMAIN functions \cup (called \cap Exec)
    BY <2>1, RegisteredFacts DEF Name
  <2>3. cur \in DOMAIN Registered(functions, called, "sub")
    BY <1>3, <2>2
  <2>4. QED BY <1>4, <1>5, <2>2, <2>3, WithBlocksFacts
<1>10. DOMAIN blocks' \subseteq Exec /\ blocks' \in [DOMAIN blocks' -> BasicBlock]
  BY <1>2, <1>3, <1>6 DEF TypeOK
<1>11. pending' \subseteq Target
  BY <1>7, <1>8 DEF TypeOK, NewlyListed
<1>12. discovered' \subseteq Exec
  BY <1>8 DEF TypeOK, Discover
<1>13. QED
  BY <1>3, <1>9, <1>10, <1>11, <1>12 DEF TypeOK, BuildBlock, IsFunctionMap

LEMMA NextTypeOK == TypeOK /\ WorklistInv /\ [Next]_vars => TypeOK'
<1> SUFFICES ASSUME TypeOK, WorklistInv, [Next]_vars PROVE TypeOK'
  OBVIOUS
<1>1. CASE Seeding
  BY <1>1, SeedingTypeOK
<1>2. CASE \E a \in Exec : SkipAnalyzed(a) \/ BeginFunction(a)
  BY <1>2, PopTypeOK
<1>3. CASE Finish
  BY <1>3 DEF TypeOK, Finish, cfgVars, workVars, passVars, Phase
<1>4. CASE ScanRun
  BY <1>4, ScanTypeOK
<1>5. CASE BeginPass2
  BY <1>5, BeginPass2TypeOK
<1>6. CASE \E a \in Target : SkipBlock(a)
  BY <1>6 DEF TypeOK, SkipBlock, cfgVars, workVars
<1>7. CASE \E a \in Target : BuildBlock(a)
  BY <1>7, BuildTypeOK
<1>8. CASE EndFunction
  <2>1. NotAnalyzed \in SUBSET Exec /\ worklist \in Seq(Batch)
    BY DEF NotAnalyzed, TypeOK
  <2>2. worklist' \in Seq(Batch)
    BY <1>8, <2>1, PushFacts DEF EndFunction
  <2>3. QED BY <1>8, <2>2 DEF TypeOK, EndFunction, cfgVars, passVars, Phase
<1>9. CASE UNCHANGED vars
  BY <1>9 DEF TypeOK, vars, cfgVars, workVars, passVars
<1>10. QED
  BY <1>1, <1>2, <1>3, <1>4, <1>5, <1>6, <1>7, <1>8, <1>9 DEF Next, MainLoop, Done

-----------------------------------------------------------------------------
(* The worklist invariant: what every step registers it also discovers.    *)
LEMMA InitWorklistInv == Init => WorklistInv
BY DEF Init, WorklistInv, Queued

LEMMA NextWorklistInv == TypeOK /\ WorklistInv /\ [Next]_vars => WorklistInv'
<1> SUFFICES ASSUME TypeOK, WorklistInv, [Next]_vars PROVE WorklistInv'
  OBVIOUS
<1>0. IsFunctionMap(functions) /\ worklist \in Seq(Batch)
  BY DEF TypeOK, IsFunctionMap
<1>1. CASE ScanPrologues
  <2>1. DOMAIN functions' = discovered'
    <3>1. /\ IsFunctionMap(Registered(functions, Prologues, "fn"))
          /\ DOMAIN Registered(functions, Prologues, "fn")
               = DOMAIN functions \cup (Prologues \cap Exec)
      BY <1>0, RegisteredFacts DEF Name
    <3>2. DOMAIN Registered(Registered(functions, Prologues, "fn"), SectionStarts, "entry")
            = DOMAIN Registered(functions, Prologues, "fn") \cup (SectionStarts \cap Exec)
      BY DEF Registered
    <3>3. QED BY <1>1, <3>1, <3>2 DEF ScanPrologues, Discover, WorklistInv
  <2>2. QED BY <1>1, <2>1 DEF ScanPrologues, Discover, WorklistInv
<1>2. ASSUME NEW here, NEW next \in Phase \ {"pop", "done"}, NEW S, NEW name \in Name,
             SeedFrom(here, next, S, name)
      PROVE  WorklistInv'
  <2>1. DOMAIN functions' = discovered'
    BY <1>0, <1>2, RegisteredFacts DEF SeedFrom, Discover, WorklistInv
  <2>2. QED BY <1>2, <2>1 DEF SeedFrom, Discover, WorklistInv
<1>3. CASE DiscoverEntryPoint
  BY <1>2, <1>3 DEF DiscoverEntryPoint, Phase, Name
<1>4. CASE ScanDataPointers
  BY <1>2, <1>4 DEF ScanDataPointers, Phase, Name
<1>5. CASE ScanTextPointers
  BY <1>2, <1>5 DEF ScanTextPointers, Phase, Name
<1>6. CASE PopulateWorklist
  <2>1. Queued(worklist') = Queued(worklist) \cup discovered
    BY <1>0, <1>6, PushFacts DEF PopulateWorklist, TypeOK
  <2>2. QED BY <1>6, <2>1 DEF PopulateWorklist, WorklistInv, cfgVars
<1>7. ASSUME NEW a \in Exec, SkipAnalyzed(a) PROVE WorklistInv'
  <2>1. /\ Queued(worklist') \subseteq Queued(worklist)
        /\ Queued(worklist) \subseteq Queued(worklist') \cup {a}
    BY <1>0, <1>7, WithoutFrontFacts DEF SkipAnalyzed, Front
  <2>2. QED BY <1>7, <2>1 DEF SkipAnalyzed, WorklistInv, cfgVars
<1>8. ASSUME NEW a \in Exec, BeginFunction(a) PROVE WorklistInv'
  <2>1. Queued(worklist') \subseteq Queued(worklist)
    BY <1>0, <1>8, WithoutFrontFacts DEF BeginFunction, Front
  <2>2. a \in Queued(worklist)
    <3>1. 1 \in DOMAIN worklist /\ Head(worklist) = worklist[1]
      BY <1>0, <1>8 DEF BeginFunction, Front
    <3>2. QED BY <1>8, <3>1 DEF Queued, BeginFunction, Front, IsLeast
  <2>3. QED BY <1>8, <2>1, <2>2 DEF BeginFunction, MarkAnalyzed, WorklistInv, cfgVars
<1>9. CASE Finish
  BY <1>9 DEF Finish, WorklistInv, Queued, cfgVars, workVars
<1>10. CASE ScanRun
  <2>1. \E called : functions' = Registered(functions, called, "sub") /\ Discover(called)
    BY <1>10 DEF ScanRun
  <2>2. PICK called :
          functions' = Registered(functions, called, "sub") /\ Discover(called)
    BY <2>1
  <2>3. DOMAIN Registered(functions, called, "sub") = DOMAIN functions \cup (called \cap Exec)
    BY <1>0, RegisteredFacts DEF Name
  <2>4. QED BY <1>10, <2>2, <2>3 DEF ScanRun, Discover, WorklistInv
<1>11. CASE BeginPass2
  <2>1. cur \in DOMAIN functions /\ seeds \in SUBSET Target
    BY <1>11 DEF BeginPass2, TypeOK
  <2>2. DOMAIN functions' = DOMAIN functions
    BY <1>0, <1>11, <2>1, WithBlocksFacts DEF BeginPass2
  <2>3. QED BY <1>11, <2>2 DEF BeginPass2, WorklistInv, workVars
<1>12. CASE \E a \in Target : SkipBlock(a)
  BY <1>12 DEF SkipBlock, WorklistInv, cfgVars, workVars
<1>13. CASE \E a \in Target : BuildBlock(a)
  <2>1. PICK a \in Target : BuildBlock(a)
    BY <1>13
  <2>2. \E called, S : functions' = WithBlocks(Registered(functions, called, "sub"), cur, S)
                       /\ Discover(called)
    BY <2>1 DEF BuildBlock
  <2>3. PICK called, S :
          functions' = WithBlocks(Registered(functions, called, "sub"), cur, S)
          /\ Discover(called)
    BY <2>2
  <2>4. DOMAIN Registered(functions, called, "sub") = DOMAIN functions \cup (called \cap Exec)
    BY <1>0, RegisteredFacts DEF Name
  <2>5. DOMAIN functions' = DOMAIN Registered(functions, called, "sub")
    BY <2>3 DEF WithBlocks
  <2>6. QED BY <2>1, <2>3, <2>4, <2>5 DEF BuildBlock, Discover, WorklistInv
<1>14. CASE EndFunction
  <2>1. NotAnalyzed \in SUBSET Exec
    BY DEF NotAnalyzed, TypeOK
  <2>2. Queued(worklist') = Queued(worklist) \cup NotAnalyzed
    BY <1>0, <1>14, <2>1, PushFacts DEF EndFunction
  <2>3. QED BY <1>14, <2>2 DEF EndFunction, NotAnalyzed, WorklistInv, cfgVars
<1>15. CASE UNCHANGED vars
  BY <1>15 DEF WorklistInv, vars, cfgVars, workVars
<1>16. QED
  BY <1>1, <1>3, <1>4, <1>5, <1>6, <1>7, <1>8, <1>9, <1>10, <1>11, <1>12, <1>13, <1>14, <1>15
  DEF Next, Seeding, MainLoop, Done

-----------------------------------------------------------------------------
(* Every variable keeps its type, whatever the image.                      *)
LEMMA Inductive == Spec => [](TypeOK /\ WorklistInv)
<1>1. Init => TypeOK /\ WorklistInv
  BY InitTypeOK, InitWorklistInv
<1>2. TypeOK /\ WorklistInv /\ [Next]_vars => (TypeOK /\ WorklistInv)'
  BY NextTypeOK, NextWorklistInv
<1>3. QED BY <1>1, <1>2, PTL DEF Spec

THEOREM TypeCorrect == Spec => []TypeOK
BY Inductive, PTL

(* Discovery forgets nothing: when analyze() returns, every function that  *)
(* was registered at any time, the ones found while another one was being  *)
(* analyzed included, has been analyzed.                                   *)
THEOREM AllFunctionsAnalyzed == Spec => []EveryFunctionAnalyzed
<1>1. TypeOK /\ WorklistInv => EveryFunctionAnalyzed
  BY DEF WorklistInv, EveryFunctionAnalyzed
<1>2. QED BY <1>1, Inductive, PTL

-----------------------------------------------------------------------------
(* Pass 1 ends with every seed scanned: a seed was scanned or waits.       *)
Elements(seq) == {seq[i] : i \in DOMAIN seq}

SeedInv ==
    /\ phase \in {"scan", "build"} => seeds = scanned \cup Elements(scanQueue)
    /\ phase = "build" => scanQueue = << >>

LEMMA ConcatElements ==
    ASSUME NEW T, NEW s \in Seq(T), NEW t \in Seq(T)
    PROVE  Elements(s \o t) = Elements(s) \cup Elements(t)
<1> DEFINE u == s \o t
<1>1. /\ Len(s) \in Nat /\ Len(t) \in Nat
      /\ DOMAIN s = 1..Len(s) /\ DOMAIN t = 1..Len(t) /\ DOMAIN u = 1..(Len(s) + Len(t))
      /\ \A i \in 1..(Len(s) + Len(t)) : u[i] = IF i <= Len(s) THEN s[i] ELSE t[i - Len(s)]
  OBVIOUS
<1> HIDE DEF u
<1>2. \A i \in DOMAIN s : i \in DOMAIN u /\ u[i] = s[i]
  BY <1>1
<1>3. \A i \in DOMAIN t : i + Len(s) \in DOMAIN u /\ u[i + Len(s)] = t[i]
  BY <1>1
<1>4. \A i \in DOMAIN u : \/ i \in DOMAIN s /\ u[i] = s[i]
                          \/ i - Len(s) \in DOMAIN t /\ u[i] = t[i - Len(s)]
  BY <1>1
<1>5. Elements(u) = Elements(s) \cup Elements(t)
  BY <1>2, <1>3, <1>4 DEF Elements
<1>6. QED BY <1>5 DEF u

LEMMA HeadAndTailElements ==
    ASSUME NEW T, NEW s \in Seq(T), s # << >>
    PROVE  Elements(s) = {Head(s)} \cup Elements(Tail(s))
<1> DEFINE t == Tail(s)
<1>1. /\ Len(s) \in Nat \ {0} /\ Head(s) = s[1]
      /\ DOMAIN s = 1..Len(s) /\ DOMAIN t = 1..(Len(s) - 1)
      /\ \A i \in 1..(Len(s) - 1) : t[i] = s[i + 1]
  OBVIOUS
<1> HIDE DEF t
<1>2. \A i \in DOMAIN t : i + 1 \in DOMAIN s /\ t[i] = s[i + 1]
  BY <1>1
<1>3. \A i \in DOMAIN s : i = 1 \/ (i - 1 \in DOMAIN t /\ s[i] = t[i - 1])
  BY <1>1
<1>4. 1 \in DOMAIN s
  BY <1>1
<1>5. Elements(s) = {s[1]} \cup Elements(t)
  BY <1>2, <1>3, <1>4 DEF Elements
<1>6. QED BY <1>1, <1>5 DEF t

LEMMA SequencedElements ==
    ASSUME NEW x, NEW S \in SUBSET {x}
    PROVE  Elements(Sequenced(S)) = S
<1>1. CASE S = {}
  BY <1>1 DEF Sequenced, Elements
<1>2. CASE S = {x}
  <2>1. Sequenced(S) = <<x>>
    BY <1>2 DEF Sequenced
  <2>2. DOMAIN <<x>> = {1} /\ <<x>>[1] = x
    OBVIOUS
  <2>3. QED BY <1>2, <2>1, <2>2 DEF Elements
<1>3. QED BY <1>1, <1>2

(* A run puts each address it seeds at the end of the queue or in front of *)
(* it.                                                                     *)
LEMMA ScanKeepsSeeds == TypeOK /\ SeedInv /\ ScanRun => SeedInv'
<1> SUFFICES ASSUME TypeOK, SeedInv, ScanRun PROVE SeedInv'
  OBVIOUS
<1> DEFINE a == Head(scanQueue)
           branches(c) == EndsAtBranch(a, c, ScanCuts)
           targets(c)  == IF branches(c) THEN LocalTargets(code[c]) ELSE {c} \cap ScanCuts
           resumes(c)  == IF branches(c) THEN ResumePoints(c) ELSE {}
<1>1. /\ scanQueue \in Seq(Target) /\ scanQueue # << >> /\ phase = "scan" /\ phase' = "scan"
      /\ a \in Target /\ Tail(scanQueue) \in Seq(Target)
  BY DEF TypeOK, ScanRun
<1>2. PICK c \in a..(MaxAddr + 1) :
        /\ seeds' = seeds \cup targets(c) \cup resumes(c)
        /\ scanQueue' = Tail(scanQueue) \o Sequenced(targets(c) \ seeds)
                          \o Sequenced(resumes(c) \ (seeds \cup targets(c)))
        /\ scanned' = scanned \cup {a}
  BY DEF ScanRun
<1>3. /\ \E x \in Target : targets(c) \subseteq {x}
      /\ \E x \in Target : resumes(c) \subseteq {x}
  <2>1. branches(c) => c \in Addr /\ code[c] \in Instruction
    BY DEF EndsAtBranch, TypeOK, ImageType, Code, code
  <2>2. c \in Target
    BY <1>1, ImageAssumption DEF Target
  <2>3. branches(c) => code[c].target \in Target /\ c + 1 \in Target
    BY <2>1, ImageAssumption DEF Instruction, Addr, Target
  <2>4. targets(c) \subseteq {IF branches(c) THEN code[c].target ELSE c}
    BY DEF LocalTargets
  <2>5. resumes(c) \subseteq {IF branches(c) THEN c + 1 ELSE c}
    BY DEF ResumePoints
  <2>6. QED BY <2>2, <2>3, <2>4, <2>5
<1> HIDE DEF targets, resumes
<1> DEFINE first  == Sequenced(targets(c) \ seeds)
           second == Sequenced(resumes(c) \ (seeds \cup targets(c)))
<1>4. first \in Seq(Target) /\ second \in Seq(Target)
  BY <1>3, SequencedFacts
<1>5. /\ Elements(first) = targets(c) \ seeds
      /\ Elements(second) = resumes(c) \ (seeds \cup targets(c))
  <2>1. \E x \in Target : targets(c) \ seeds \in SUBSET {x}
    BY <1>3
  <2>2. \E x \in Target : resumes(c) \ (seeds \cup targets(c)) \in SUBSET {x}
    BY <1>3
  <2>3. Elements(first) = targets(c) \ seeds
    BY <2>1, SequencedElements
  <2>4. Elements(second) = resumes(c) \ (seeds \cup targets(c))
    BY <2>2, SequencedElements
  <2>5. QED BY <2>3, <2>4
<1> HIDE DEF first, second, a
<1>6. scanQueue' = (Tail(scanQueue) \o first) \o second
  BY <1>2 DEF first, second
<1>7. Elements(scanQueue') = Elements(Tail(scanQueue)) \cup Elements(first) \cup Elements(second)
  <2>1. Tail(scanQueue) \o first \in Seq(Target)
    BY <1>1, <1>4
  <2>2. Elements(Tail(scanQueue) \o first) = Elements(Tail(scanQueue)) \cup Elements(first)
    BY <1>1, <1>4, ConcatElements
  <2> DEFINE front == Tail(scanQueue) \o first
  <2> HIDE DEF front
  <2>3. front \in Seq(Target) /\ scanQueue' = front \o second
    BY <1>6, <2>1 DEF front
  <2>4. Elements(scanQueue') = Elements(front) \cup Elements(second)
    BY <1>4, <2>3, ConcatElements
  <2>5. QED BY <2>2, <2>4 DEF front
<1>8. Elements(scanQueue) = {a} \cup Elements(Tail(scanQueue))
  BY <1>1, HeadAndTailElements DEF a
<1>9. seeds' = scanned' \cup Elements(scanQueue')
  BY <1>1, <1>2, <1>5, <1>7, <1>8 DEF SeedInv
<1>10. QED BY <1>1, <1>9 DEF SeedInv

(* Every step keeps it.                                                    *)
LEMMA NextSeedInv == TypeOK /\ SeedInv /\ [Next]_vars => SeedInv'
<1> SUFFICES ASSUME TypeOK, SeedInv, [Next]_vars PROVE SeedInv'
  OBVIOUS
<1>1. CASE Seeding \/ (\E a \in Exec : SkipAnalyzed(a)) \/ Finish \/ EndFunction
  <2>1. phase' \in {"entry", "data", "text", "populate", "pop", "done"}
    BY <1>1 DEF Seeding, ScanPrologues, DiscoverEntryPoint, ScanDataPointers, ScanTextPointers,
                SeedFrom, PopulateWorklist, SkipAnalyzed, Finish, EndFunction
  <2>2. QED BY <2>1 DEF SeedInv
<1>2. ASSUME NEW a \in Exec, BeginFunction(a) PROVE SeedInv'
  <2>1. phase' = "scan" /\ seeds' = {a} /\ scanQueue' = <<a>> /\ scanned' = {}
    BY <1>2 DEF BeginFunction
  <2>2. DOMAIN <<a>> = {1} /\ <<a>>[1] = a
    OBVIOUS
  <2>3. Elements(<<a>>) = {a}
    BY <2>2 DEF Elements
  <2>4. QED BY <2>1, <2>3 DEF SeedInv
<1>3. CASE BeginPass2 \/ (\E a \in Target : SkipBlock(a) \/ BuildBlock(a)) \/ UNCHANGED vars
  BY <1>3 DEF BeginPass2, SkipBlock, BuildBlock, vars, passVars, SeedInv
<1>4. QED
  BY <1>1, <1>2, <1>3, ScanKeepsSeeds DEF Next, MainLoop, Done

(* Pass 2 builds only from seeds pass 1 has followed: none is dropped from *)
(* analyzeFunction's scan queue and none enters it twice unseen.           *)
THEOREM SeedsAreScanned == Spec => []EverySeedScanned
<1>1. Init => SeedInv
  BY DEF Init, SeedInv
<1>2. SeedInv => EverySeedScanned
  BY DEF SeedInv, EverySeedScanned, Elements
<1>3. QED BY <1>1, <1>2, NextSeedInv, TypeCorrect, PTL DEF Spec

-----------------------------------------------------------------------------
(* The safety half of Explores: every step of the analyzer finds entries,  *)
(* takes one up for the first time, ends with none left, or does nothing   *)
(* discovery can see.                                                      *)
LEMMA DiscoverySteps ==
    ASSUME TypeOK, WorklistInv, [Next]_vars
    PROVE  [Discovery!Next]_(Discovery!vars)
<1> USE DEF Discovery!vars
<1>1. ASSUME NEW S, Discover(S), analyzed' = analyzed, phase # "done", phase' # "done"
      PROVE  Discovery!Next
  <2>1. S \cap Exec \in SUBSET Exec /\ discovered' = discovered \cup (S \cap Exec)
    BY <1>1 DEF Discover
  <2>2. Discovery!Find
    BY <1>1, <2>1 DEF Discovery!Find
  <2>3. QED BY <2>2 DEF Discovery!Next
<1>2. ASSUME discovered' = discovered, analyzed' = analyzed, phase # "done", phase' # "done"
      PROVE  UNCHANGED Discovery!vars
  BY <1>2
<1>3. CASE ScanPrologues
  BY <1>1, <1>3 DEF ScanPrologues
<1>4. CASE DiscoverEntryPoint \/ ScanDataPointers \/ ScanTextPointers
  BY <1>1, <1>4 DEF DiscoverEntryPoint, ScanDataPointers, ScanTextPointers, SeedFrom
<1>5. CASE \/ PopulateWorklist
           \/ \E a \in Exec : SkipAnalyzed(a)
           \/ BeginPass2
           \/ \E a \in Target : SkipBlock(a)
           \/ EndFunction
  BY <1>2, <1>5 DEF PopulateWorklist, SkipAnalyzed, BeginPass2, SkipBlock, EndFunction, workVars
<1>6. ASSUME NEW a \in Exec, BeginFunction(a) PROVE Discovery!Next
  <2>1. a \in discovered
    <3>1. worklist \in Seq(Batch) /\ worklist # << >> /\ a \in Head(worklist)
      BY <1>6 DEF BeginFunction, Front, IsLeast, TypeOK
    <3>2. 1 \in DOMAIN worklist /\ a \in worklist[1]
      BY <3>1
    <3>3. QED BY <3>2 DEF Queued, WorklistInv
  <2>2. Discovery!Explore(a)
    BY <1>6, <2>1 DEF BeginFunction, MarkAnalyzed, Discovery!Explore
  <2>3. QED BY <2>2 DEF Discovery!Next
<1>7. CASE Finish
  <2>1. Queued(worklist) = {}
    BY <1>7 DEF Finish, Queued
  <2>2. analyzed = discovered
    BY <1>7, <2>1 DEF Finish, WorklistInv
  <2>3. Discovery!End
    BY <1>7, <2>2 DEF Finish, workVars, Discovery!End
  <2>4. QED BY <2>3 DEF Discovery!Next
<1>8. CASE ScanRun
  <2>1. PICK called : Discover(called)
    BY <1>8 DEF ScanRun
  <2>2. QED BY <1>1, <1>8, <2>1 DEF ScanRun
<1>9. CASE \E a \in Target : BuildBlock(a)
  <2>1. PICK a \in Target : BuildBlock(a)
    BY <1>9
  <2>2. PICK called : Discover(called)
    BY <2>1 DEF BuildBlock
  <2>3. QED BY <1>1, <2>1, <2>2 DEF BuildBlock
<1>10. CASE UNCHANGED vars
  BY <1>10 DEF vars, workVars
<1>11. QED
  BY <1>3, <1>4, <1>5, <1>6, <1>7, <1>8, <1>9, <1>10 DEF Next, Seeding, MainLoop, Done

(* The analyzer implements Exploration: every function is taken up once,   *)
(* whatever duplicates the worklist holds, and the end comes only when     *)
(* every discovered function has been.                                     *)
THEOREM AnalyzerExplores == Spec => Discovery!Spec
<1>1. Init => Discovery!Init
  BY DEF Init, Discovery!Init
<1>2. TypeOK /\ WorklistInv /\ [Next]_vars => [Discovery!Next]_(Discovery!vars)
  BY DiscoverySteps
<1>3. QED BY <1>1, <1>2, Inductive, PTL DEF Spec, Discovery!Spec

-----------------------------------------------------------------------------
(* Why a block cannot run into a function found after the block was built: *)
(* the frames and section starts are registered before any block exists,   *)
(* so a late function follows a branch, and no block runs over a branch.   *)
FollowsBranch(f) == f - 1 \in Addr /\ IsBranch(code[f - 1])

BoundaryInv ==
    /\ phase # "prologues" => Prologues \cup SectionStarts \subseteq DOMAIN functions
    /\ phase \in {"prologues", "entry", "data", "text", "populate"} => DOMAIN blocks = {}
    /\ \A s \in DOMAIN blocks : \A d \in s..(blocks[s].last - 1) :
          d \in Addr /\ ~IsBranch(code[d])
    /\ NoBlockRunsIntoAFunction

LEMMA CalledFunctionsAreKnownOrFollowABranch ==
    ASSUME TypeOK, BoundaryInv, phase # "prologues",
           NEW instr, NEW t \in CalledFunctions(instr)
    PROVE  t \in DOMAIN functions \/ FollowsBranch(t)
<1>1. t \in Exec /\ LooksLikeIndependentFunctionEntry(code, t)
  BY DEF CalledFunctions, LooksLikeIndependentFunctionEntry
<1>2. Prologues \cup SectionStarts \subseteq DOMAIN functions
  BY DEF BoundaryInv
<1>3. CASE code[t].role = "frame" \/ t \in SectionStarts
  BY <1>1, <1>2, <1>3 DEF Prologues
<1>4. CASE FollowsBoundary(code, t)
  <2>1. CASE t - 1 \notin Exec
    BY <1>1, <1>2, <2>1, ImageAssumption
  <2>2. CASE t - 1 \in Exec /\ IsBranch(code[t - 1])
    BY <2>2, ImageAssumption DEF FollowsBranch, Addr
  <2>3. QED BY <1>4, <2>1, <2>2 DEF FollowsBoundary
<1>5. QED BY <1>1, <1>3, <1>4 DEF LooksLikeIndependentFunctionEntry

(* Steps that build nothing keep the invariant when what they register is  *)
(* known or follows a branch.                                              *)
LEMMA RegisteringKeepsBoundaries ==
    ASSUME TypeOK, BoundaryInv, blocks' = blocks, image' = image,
           phase # "prologues", phase' # "prologues",
           phase' \in {"entry", "data", "text", "populate"} =>
               phase \in {"entry", "data", "text", "populate"},
           DOMAIN functions \subseteq DOMAIN functions',
           DOMAIN functions' \subseteq Exec,
           \A t \in DOMAIN functions' : \/ t \in DOMAIN functions
                                        \/ FollowsBranch(t)
                                        \/ DOMAIN blocks = {}
    PROVE  BoundaryInv'
<1>1. code' = code
  BY DEF code
<1>2. ASSUME NEW s \in DOMAIN blocks, NEW f \in DOMAIN functions',
             s < f, f <= blocks[s].last
      PROVE  FALSE
  <2>1. s \in Int /\ f \in Int /\ blocks[s].last \in Int
    BY ImageAssumption DEF TypeOK, BasicBlock, Addr
  <2>2. f - 1 \in s..(blocks[s].last - 1)
    BY <1>2, <2>1
  <2>3. ~FollowsBranch(f)
    BY <2>2 DEF BoundaryInv, FollowsBranch
  <2>4. f \in DOMAIN functions
    BY <2>3
  <2>5. QED BY <1>2, <2>4 DEF BoundaryInv, NoBlockRunsIntoAFunction
<1>3. NoBlockRunsIntoAFunction'
  BY <1>2 DEF NoBlockRunsIntoAFunction
<1>4. \A s \in DOMAIN blocks' : \A d \in s..(blocks'[s].last - 1) :
         d \in Addr /\ ~IsBranch(code'[d])
  BY <1>1 DEF BoundaryInv
<1>5. QED BY <1>3, <1>4 DEF BoundaryInv, Prologues, IsLinkSavePrelude, code

(* A new block ends at the first branch or before the first cut, so it     *)
(* runs over neither.                                                      *)
LEMMA BuildingKeepsBoundaries ==
    ASSUME TypeOK, BoundaryInv, NEW a \in Target, BuildBlock(a)
    PROVE  BoundaryInv'
<1>1. PICK c \in a..(MaxAddr + 1), called \in SUBSET Exec,
           queued \in SUBSET Target, jumps \in SUBSET Target :
              BuildEffect(a, c, called, queued, jumps)
  BY BuildBlockEffect
<1> DEFINE branches == EndsAtBranch(a, c, BlockCuts)
           last     == IF branches THEN c ELSE c - 1
<1>2. /\ phase = "build" /\ phase' = "build" /\ image' = image /\ code' = code
      /\ cur \in DOMAIN functions /\ a \in Exec
  BY DEF BuildBlock, Buildable, TypeOK, code
<1>3. a \in Nat /\ c \in Int /\ a <= c /\ c <= MaxAddr + 1 /\ MaxAddr \in Nat
  BY <1>1, ImageAssumption DEF Target
<1>4. DOMAIN functions' = DOMAIN functions \cup called
  <2>1. IsFunctionMap(functions)
    BY DEF TypeOK, IsFunctionMap
  <2>2. /\ IsFunctionMap(Registered(functions, called, "sub"))
        /\ DOMAIN Registered(functions, called, "sub")
             = DOMAIN functions \cup (called \cap Exec)
    BY <2>1, RegisteredFacts DEF Name
  <2>3. functions' = WithBlocks(Registered(functions, called, "sub"), cur,
                        DirectSuccessors(a, c, queued) \cup LocalJumpTargets(a, jumps))
    BY <1>1 DEF BuildEffect
  <2>4. DOMAIN functions' = DOMAIN Registered(functions, called, "sub")
    BY <2>3 DEF WithBlocks
  <2>5. QED BY <2>2, <2>4
<1>5. \A t \in called : t \in DOMAIN functions \/ FollowsBranch(t)
  <2> TAKE t \in called
  <2>1. t \in CalledFunctions(code[c])
    BY <1>1 DEF BuildEffect
  <2>2. QED BY <1>2, <2>1, CalledFunctionsAreKnownOrFollowABranch
<1>6. /\ DOMAIN blocks' = DOMAIN blocks \cup {a}
      /\ \A s \in DOMAIN blocks \ {a} : blocks'[s] = blocks[s]
      /\ blocks'[a].last = last
      /\ a \notin DOMAIN blocks
  BY <1>1 DEF BuildEffect, BuildBlock, Buildable
<1> HIDE DEF last
(* No word before c stops the walk, and c does.                            *)
<1>7. /\ StopsAt(a, c, BlockCuts)
      /\ \A d \in a..(c - 1) : d \in Addr /\ ~IsBranch(code[d])
      /\ \A d \in (a + 1)..(c - 1) : d \notin BlockCuts
  BY <1>1, <1>3 DEF BuildEffect, IsRunEnd, StopsAt, IsCut
<1>8. last \in Int /\ last <= c
  BY <1>3 DEF last
<1>9. \A d \in a..(last - 1) : d \in Addr /\ ~IsBranch(code[d])
  BY <1>3, <1>7, <1>8
<1>10. \A f \in DOMAIN functions : ~(a < f /\ f <= last)
  <2> SUFFICES ASSUME NEW f \in DOMAIN functions, a < f, f <= last PROVE FALSE
    OBVIOUS
  <2>1. f \in BlockCuts /\ f \in Int
    BY ImageAssumption DEF BlockCuts, TypeOK
  <2>2. CASE f \in (a + 1)..(c - 1)
    BY <1>7, <2>1, <2>2
  <2>3. CASE f = c
    <3>1. branches
      BY <1>3, <1>8, <2>3 DEF last
    <3>2. QED BY <1>3, <2>1, <2>3, <3>1 DEF EndsAtBranch, IsCut
  <2>4. QED BY <1>3, <1>8, <2>1, <2>2, <2>3
<1>11. ASSUME NEW s \in DOMAIN blocks', NEW d \in s..(blocks'[s].last - 1)
       PROVE  d \in Addr /\ ~IsBranch(code[d])
  BY <1>6, <1>9, <1>11 DEF BoundaryInv
<1>12. ASSUME NEW s \in DOMAIN blocks', NEW f \in DOMAIN functions',
              s < f, f <= blocks'[s].last
       PROVE  FALSE
  <2>1. s \in Int /\ f \in Int /\ blocks'[s].last \in Int
    BY <1>2, <1>4, <1>6, <1>8, ImageAssumption DEF TypeOK, BasicBlock, Addr
  <2>2. CASE f \in DOMAIN functions
    BY <1>6, <1>10, <1>12, <2>2 DEF BoundaryInv, NoBlockRunsIntoAFunction
  <2>3. CASE FollowsBranch(f)
    <3>1. f - 1 \in s..(blocks'[s].last - 1)
      BY <1>12, <2>1
    <3>2. QED BY <1>11, <2>3, <3>1 DEF FollowsBranch
  <2>4. QED BY <1>4, <1>5, <2>2, <2>3
<1>13. NoBlockRunsIntoAFunction'
  BY <1>12 DEF NoBlockRunsIntoAFunction
<1>14. Prologues' = Prologues
  BY <1>2 DEF Prologues, IsLinkSavePrelude
<1>15. QED
  BY <1>2, <1>4, <1>11, <1>13, <1>14 DEF BoundaryInv

LEMMA NextBoundaryInv == TypeOK /\ TypeOK' /\ BoundaryInv /\ [Next]_vars => BoundaryInv'
<1> SUFFICES ASSUME TypeOK, TypeOK', BoundaryInv, [Next]_vars PROVE BoundaryInv'
  OBVIOUS
<1>0. IsFunctionMap(functions) /\ DOMAIN functions' \subseteq Exec
  BY DEF TypeOK, IsFunctionMap
<1>1. CASE ScanPrologues
  <2>1. IsFunctionMap(Registered(functions, Prologues, "fn"))
    BY <1>0, RegisteredFacts DEF Name
  <2>2. DOMAIN functions' =
          DOMAIN functions \cup (Prologues \cap Exec) \cup (SectionStarts \cap Exec)
    BY <1>1 DEF ScanPrologues, Registered
  <2>3. Prologues' = Prologues
    BY <1>1 DEF ScanPrologues, Prologues, IsLinkSavePrelude, code
  <2>4. Prologues \cup SectionStarts \subseteq Exec
    BY ImageAssumption DEF Prologues
  <2>5. QED
    BY <1>1, <2>2, <2>3, <2>4
    DEF ScanPrologues, BoundaryInv, NoBlockRunsIntoAFunction
<1>2. ASSUME NEW here \in {"entry", "data", "text"}, NEW next \in {"data", "text", "populate"},
             NEW S, NEW name, SeedFrom(here, next, S, name)
      PROVE  BoundaryInv'
  <2>1. DOMAIN functions \subseteq DOMAIN functions' /\ DOMAIN blocks = {}
    BY <1>2 DEF SeedFrom, Registered, BoundaryInv
  <2>2. QED BY <1>0, <1>2, <2>1, RegisteringKeepsBoundaries DEF SeedFrom
<1>3. CASE DiscoverEntryPoint
  BY <1>2, <1>3 DEF DiscoverEntryPoint
<1>4. CASE ScanDataPointers
  BY <1>2, <1>4 DEF ScanDataPointers
<1>5. CASE ScanTextPointers
  BY <1>2, <1>5 DEF ScanTextPointers
<1>6. CASE \/ PopulateWorklist
           \/ \E a \in Exec : SkipAnalyzed(a) \/ BeginFunction(a)
           \/ Finish
           \/ \E a \in Target : SkipBlock(a)
           \/ EndFunction
           \/ UNCHANGED vars
  <2>1. /\ functions' = functions /\ blocks' = blocks /\ image' = image
        /\ phase' # phase => /\ phase # "prologues"
                             /\ phase' \in {"pop", "done", "scan"}
    BY <1>6 DEF PopulateWorklist, SkipAnalyzed, BeginFunction, Finish, SkipBlock,
                EndFunction, vars, cfgVars
  <2>2. CASE phase = "prologues"
    BY <2>1, <2>2 DEF BoundaryInv, NoBlockRunsIntoAFunction, code
  <2>3. CASE phase # "prologues"
    <3>1. phase' # "prologues"
      BY <2>1, <2>3
    <3>2. phase' \in {"entry", "data", "text", "populate"} =>
               phase \in {"entry", "data", "text", "populate"}
      BY <2>1
    <3>3. QED BY <1>0, <2>1, <2>3, <3>1, <3>2, RegisteringKeepsBoundaries
  <2>4. QED BY <2>2, <2>3
<1>7. CASE ScanRun
  <2>1. phase = "scan" /\ phase' = "scan" /\ blocks' = blocks /\ image' = image
    BY <1>7 DEF ScanRun
  <2>2. PICK c, called : /\ functions' = Registered(functions, called, "sub")
                         /\ called \subseteq CalledFunctions(code[c])
    <3> DEFINE a == Head(scanQueue)
               called(c) == IF EndsAtBranch(a, c, ScanCuts)
                            THEN CalledFunctions(code[c]) ELSE {}
    <3>1. PICK c : functions' = Registered(functions, called(c), "sub")
      BY <1>7 DEF ScanRun
    <3>2. called(c) \subseteq CalledFunctions(code[c])
      OBVIOUS
    <3>3. QED BY <3>1, <3>2
  <2>3. DOMAIN functions' = DOMAIN functions \cup (called \cap Exec)
    BY <2>2 DEF Registered
  <2>4. \A t \in DOMAIN functions' : t \in DOMAIN functions \/ FollowsBranch(t)
    BY <2>1, <2>2, <2>3, CalledFunctionsAreKnownOrFollowABranch
  <2>5. QED BY <1>0, <2>1, <2>3, <2>4, RegisteringKeepsBoundaries
<1>8. CASE BeginPass2
  <2>1. phase = "scan" /\ phase' = "build" /\ blocks' = blocks /\ image' = image
    BY <1>8 DEF BeginPass2
  <2>2. DOMAIN functions' = DOMAIN functions
    BY <1>8 DEF BeginPass2, WithBlocks
  <2>3. QED BY <1>0, <2>1, <2>2, RegisteringKeepsBoundaries
<1>9. CASE \E a \in Target : BuildBlock(a)
  BY <1>9, BuildingKeepsBoundaries
<1>10. QED
  BY <1>1, <1>3, <1>4, <1>5, <1>6, <1>7, <1>8, <1>9 DEF Next, Seeding, MainLoop, Done

(* No block runs into the start of a function, in any image: whichever     *)
(* order the functions are analyzed in, and wherever a call reveals        *)
(* another one, a reused block never contains the start of a function.     *)
THEOREM BlocksStopAtFunctions == Spec => []NoBlockRunsIntoAFunction
<1>1. Init => BoundaryInv
  BY DEF Init, BoundaryInv, NoBlockRunsIntoAFunction
<1>2. TypeOK /\ TypeOK' /\ BoundaryInv /\ [Next]_vars => BoundaryInv'
  BY NextBoundaryInv
<1>3. BoundaryInv => NoBlockRunsIntoAFunction
  BY DEF BoundaryInv
<1>4. QED BY <1>1, <1>2, <1>3, TypeCorrect, PTL DEF Spec

-----------------------------------------------------------------------------
(* What functions list gets built: an address in a block list is built, or *)
(* still pending, or the start of a function, and an analyzed function has *)
(* its own start among its blocks, built.  The last two together do the    *)
(* fall-through successors, which are listed but not queued: only a cut    *)
(* ends a run that way, and a cut is listed already or starts a function.  *)
Outstanding(f) == IF f = cur /\ phase = "build" THEN pending ELSE {}

EntryReady(f) == f \in functions[f].blocks /\ f \in DOMAIN blocks \cup Outstanding(f)

ListInv ==
    /\ \A f \in DOMAIN functions :
          functions[f].blocks \cap Exec
             \subseteq DOMAIN blocks \cup DOMAIN functions \cup Outstanding(f)
    /\ \A f \in analyzed : EntryReady(f) \/ (f = cur /\ phase = "scan" /\ f \in seeds)

(* Registering adds functions without blocks and leaves the others' lists. *)
SameLists(old, new) ==
    /\ DOMAIN old \subseteq DOMAIN new
    /\ \A f \in DOMAIN old : new[f].blocks = old[f].blocks
    /\ \A f \in DOMAIN new \ DOMAIN old : new[f].blocks = {}

LEMMA RegisteringKeepsLists ==
    ASSUME NEW funcs, IsFunctionMap(funcs), NEW S, NEW name \in Name
    PROVE  /\ SameLists(funcs, Registered(funcs, S, name))
           /\ IsFunctionMap(Registered(funcs, S, name))
<1> DEFINE R == Registered(funcs, S, name)
<1>1. /\ IsFunctionMap(R)
      /\ DOMAIN R = DOMAIN funcs \cup (S \cap Exec)
      /\ \A f \in DOMAIN funcs : R[f].blocks = funcs[f].blocks
      /\ \A f \in DOMAIN R \ DOMAIN funcs : R[f].blocks = {}
  BY RegisteredFacts
<1> HIDE DEF R
<1>2. SameLists(funcs, R)
  BY <1>1 DEF SameLists
<1>3. QED BY <1>1, <1>2 DEF R

(* Steps that leave every block list as it is, and build nothing.          *)
LEMMA SameListsKeepListInv ==
    ASSUME TypeOK, WorklistInv, ListInv,
           blocks' = blocks, analyzed' = analyzed,
           SameLists(functions, functions'),
           \A f \in DOMAIN functions : (Outstanding(f) \cap Exec) \ DOMAIN blocks
                                          \subseteq Outstanding(f)',
           phase = "scan" => phase' = "scan" /\ cur' = cur /\ seeds \subseteq seeds'
    PROVE  ListInv'
<1>1. analyzed \subseteq DOMAIN functions
  BY DEF WorklistInv
<1> USE DEF SameLists
<1>2. ASSUME NEW f \in DOMAIN functions'
      PROVE  functions'[f].blocks \cap Exec
                \subseteq DOMAIN blocks' \cup DOMAIN functions' \cup Outstanding(f)'
  BY DEF ListInv
<1>3. ASSUME NEW f \in analyzed'
      PROVE  EntryReady(f)' \/ (f = cur' /\ phase' = "scan" /\ f \in seeds')
  <2>1. f \in DOMAIN functions /\ f \in Exec
    BY <1>1, <1>3 DEF TypeOK
  <2>2. CASE EntryReady(f)
    BY <2>1, <2>2 DEF EntryReady
  <2>3. CASE f = cur /\ phase = "scan" /\ f \in seeds
    BY <2>3
  <2>4. QED BY <1>3, <2>2, <2>3 DEF ListInv
<1>4. QED BY <1>2, <1>3 DEF ListInv

LEMMA BuildingKeepsListInv ==
    ASSUME TypeOK, WorklistInv, ListInv, NEW a \in Target, BuildBlock(a)
    PROVE  ListInv'
<1>1. PICK c \in a..(MaxAddr + 1), called \in SUBSET Exec,
           queued \in SUBSET Target, jumps \in SUBSET Target :
              BuildEffect(a, c, called, queued, jumps)
  BY BuildBlockEffect
<1> DEFINE direct == DirectSuccessors(a, c, queued)
           local  == LocalJumpTargets(a, jumps)
           R      == Registered(functions, called, "sub")
<1>2. /\ phase = "build" /\ phase' = "build" /\ analyzed' = analyzed /\ cur' = cur
      /\ cur \in DOMAIN functions
  BY DEF BuildBlock, TypeOK
<1>3. DOMAIN blocks' = DOMAIN blocks \cup {a}
  BY <1>1 DEF BuildEffect
<1>4. pending' = (pending \ {a}) \cup ((queued \cup local) \ functions[cur].blocks)
  BY <1>1 DEF BuildEffect, NewlyListed
<1>5. /\ functions' = WithBlocks(R, cur, direct \cup local)
      /\ direct \subseteq Target /\ local \subseteq Exec
  BY <1>1 DEF BuildEffect
<1>6. direct \subseteq queued \cup functions[cur].blocks \cup DOMAIN functions
  BY DEF DirectSuccessors, BlockCuts
<1>7. analyzed \subseteq DOMAIN functions
  BY DEF WorklistInv
<1> HIDE DEF direct, local, R
<1>8. /\ DOMAIN functions \subseteq DOMAIN functions'
      /\ functions'[cur].blocks = functions[cur].blocks \cup direct \cup local
      /\ \A f \in DOMAIN functions' \ {cur} :
            functions'[f].blocks = IF f \in DOMAIN functions THEN functions[f].blocks ELSE {}
  <2>1. IsFunctionMap(functions)
    BY DEF TypeOK, IsFunctionMap
  <2>2. /\ IsFunctionMap(R)
        /\ DOMAIN R = DOMAIN functions \cup (called \cap Exec)
        /\ \A f \in DOMAIN functions : R[f].blocks = functions[f].blocks
        /\ \A f \in DOMAIN R \ DOMAIN functions : R[f].blocks = {}
    BY <2>1, RegisteredFacts DEF Name, R
  <2>3. direct \cup local \in SUBSET Target
    BY <1>5, ImageAssumption DEF Target
  <2>4. /\ DOMAIN functions' = DOMAIN R
        /\ functions'[cur].blocks = R[cur].blocks \cup (direct \cup local)
        /\ \A f \in DOMAIN R \ {cur} : functions'[f] = R[f]
    BY <1>2, <1>5, <2>2, <2>3, WithBlocksFacts
  <2>5. QED BY <1>2, <2>2, <2>4
<1>9. ASSUME NEW f \in DOMAIN functions'
      PROVE  functions'[f].blocks \cap Exec
                \subseteq DOMAIN blocks' \cup DOMAIN functions' \cup Outstanding(f)'
  <2>1. CASE f = cur
    <3>1. Outstanding(f)' = pending' /\ Outstanding(f) = pending
      BY <1>2, <2>1 DEF Outstanding
    <3>2. functions[cur].blocks \cap Exec
             \subseteq DOMAIN blocks \cup DOMAIN functions \cup pending
      BY <1>2, <2>1, <3>1 DEF ListInv
    <3>3. functions[cur].blocks \cap Exec
             \subseteq DOMAIN blocks' \cup DOMAIN functions' \cup pending'
      BY <1>3, <1>4, <1>8, <3>2
    <3>4. queued \cup local \subseteq functions[cur].blocks \cup pending'
      BY <1>4
    <3>5. QED BY <1>6, <1>8, <2>1, <3>1, <3>3, <3>4
  <2>2. CASE f # cur
    <3>1. Outstanding(f) = {}
      BY <2>2 DEF Outstanding
    <3>2. QED BY <1>3, <1>8, <2>2, <3>1 DEF ListInv
  <2>3. QED BY <2>1, <2>2
<1>10. ASSUME NEW f \in analyzed' PROVE EntryReady(f)'
  <2>1. EntryReady(f) /\ f \in DOMAIN functions
    BY <1>2, <1>7, <1>10 DEF ListInv
  <2>2. f \in functions'[f].blocks
    BY <1>8, <2>1 DEF EntryReady
  <2>3. f \in DOMAIN blocks' \cup Outstanding(f)'
    BY <1>2, <1>3, <1>4, <2>1 DEF EntryReady, Outstanding
  <2>4. QED BY <2>2, <2>3 DEF EntryReady
<1>11. QED BY <1>9, <1>10 DEF ListInv

LEMMA NextListInv == TypeOK /\ WorklistInv /\ ListInv /\ [Next]_vars => ListInv'
<1> SUFFICES ASSUME TypeOK, WorklistInv, ListInv, [Next]_vars PROVE ListInv'
  OBVIOUS
<1>0. IsFunctionMap(functions) /\ analyzed \subseteq DOMAIN functions
  BY DEF TypeOK, IsFunctionMap, WorklistInv
<1>1. CASE ScanPrologues
  <2> DEFINE R == Registered(functions, Prologues, "fn")
  <2>1. SameLists(functions, R) /\ IsFunctionMap(R)
    BY <1>0, RegisteringKeepsLists DEF Name
  <2>2. /\ functions' = Registered(R, SectionStarts, "entry")
        /\ phase = "prologues" /\ blocks' = blocks /\ analyzed' = analyzed
    BY <1>1 DEF ScanPrologues
  <2> HIDE DEF R
  <2>3. SameLists(functions, functions')
    <3>1. SameLists(R, Registered(R, SectionStarts, "entry"))
      BY <2>1, RegisteringKeepsLists DEF Name
    <3>2. QED BY <2>1, <2>2, <3>1 DEF SameLists
  <2>4. \A f \in DOMAIN functions : Outstanding(f) = {}
    BY <2>2 DEF Outstanding
  <2>5. QED BY <2>2, <2>3, <2>4, SameListsKeepListInv
<1>2. ASSUME NEW here \in Phase \ {"scan", "build"}, NEW next, NEW S, NEW name \in Name,
             SeedFrom(here, next, S, name)
      PROVE  ListInv'
  <2>1. /\ functions' = Registered(functions, S, name)
        /\ phase = here /\ blocks' = blocks /\ analyzed' = analyzed
    BY <1>2 DEF SeedFrom
  <2>2. SameLists(functions, Registered(functions, S, name))
    BY <1>0, <1>2, RegisteringKeepsLists
  <2>3. \A f \in DOMAIN functions : Outstanding(f) = {}
    BY <1>2, <2>1 DEF Outstanding
  <2>4. phase # "scan"
    BY <1>2, <2>1
  <2>5. QED BY <2>1, <2>2, <2>3, <2>4, SameListsKeepListInv
<1>3. CASE DiscoverEntryPoint
  BY <1>2, <1>3 DEF DiscoverEntryPoint, Phase, Name
<1>4. CASE ScanDataPointers
  BY <1>2, <1>4 DEF ScanDataPointers, Phase, Name
<1>5. CASE ScanTextPointers
  BY <1>2, <1>5 DEF ScanTextPointers, Phase, Name
<1>6. CASE \/ PopulateWorklist
           \/ \E a \in Exec : SkipAnalyzed(a)
           \/ Finish
  <2>1. /\ functions' = functions /\ blocks' = blocks /\ analyzed' = analyzed
        /\ phase \notin {"scan", "build"}
    BY <1>6 DEF PopulateWorklist, SkipAnalyzed, Finish, cfgVars, workVars
  <2>2. \A f \in DOMAIN functions : Outstanding(f) = {}
    BY <2>1 DEF Outstanding
  <2>3. QED BY <2>1, <2>2, SameListsKeepListInv DEF SameLists
<1>7. ASSUME NEW a \in Exec, BeginFunction(a) PROVE ListInv'
  <2>1. /\ functions' = functions /\ blocks' = blocks /\ analyzed' = analyzed \cup {a}
        /\ phase = "pop" /\ phase' = "scan" /\ cur' = a /\ a \in seeds'
    BY <1>7 DEF BeginFunction, MarkAnalyzed, cfgVars
  <2>2. \A f : Outstanding(f) = {} /\ Outstanding(f)' = {}
    BY <2>1 DEF Outstanding
  <2>3. \A f \in analyzed : EntryReady(f) /\ EntryReady(f)'
    BY <2>1, <2>2 DEF ListInv, EntryReady
  <2>4. QED BY <2>1, <2>2, <2>3 DEF ListInv
<1>8. CASE ScanRun
  <2>1. /\ blocks' = blocks /\ analyzed' = analyzed /\ cur' = cur
        /\ phase = "scan" /\ phase' = "scan" /\ seeds \subseteq seeds'
    BY <1>8 DEF ScanRun
  <2>2. PICK called : functions' = Registered(functions, called, "sub")
    BY <1>8 DEF ScanRun
  <2>3. SameLists(functions, Registered(functions, called, "sub"))
    BY <1>0, RegisteringKeepsLists DEF Name
  <2>4. \A f \in DOMAIN functions : Outstanding(f) = {}
    BY <2>1 DEF Outstanding
  <2>5. QED BY <2>1, <2>2, <2>3, <2>4, SameListsKeepListInv
<1>9. CASE BeginPass2
  <2>1. /\ blocks' = blocks /\ analyzed' = analyzed /\ cur' = cur /\ pending' = seeds
        /\ phase = "scan" /\ phase' = "build" /\ cur \in DOMAIN functions
        /\ functions' = WithBlocks(functions, cur, seeds)
        /\ seeds \in SUBSET Target
    BY <1>9 DEF BeginPass2, TypeOK, workVars
  <2>2. /\ DOMAIN functions' = DOMAIN functions
        /\ functions'[cur].blocks = functions[cur].blocks \cup seeds
        /\ \A f \in DOMAIN functions \ {cur} : functions'[f] = functions[f]
    BY <1>0, <2>1, WithBlocksFacts
  <2>3. \A f \in DOMAIN functions : /\ Outstanding(f) = {}
                                    /\ Outstanding(f)' = IF f = cur THEN seeds ELSE {}
    BY <2>1 DEF Outstanding
  <2>4. \A f \in DOMAIN functions' :
           functions'[f].blocks \cap Exec
              \subseteq DOMAIN blocks' \cup DOMAIN functions' \cup Outstanding(f)'
    BY <2>1, <2>2, <2>3 DEF ListInv
  <2>5. \A f \in analyzed' : EntryReady(f)'
    BY <1>0, <2>1, <2>2, <2>3 DEF ListInv, EntryReady
  <2>6. QED BY <2>4, <2>5 DEF ListInv
<1>10. ASSUME NEW a \in Target, SkipBlock(a) PROVE ListInv'
  <2>1. /\ functions' = functions /\ blocks' = blocks /\ analyzed' = analyzed
        /\ phase = "build" /\ phase' = "build" /\ cur' = cur
        /\ pending' = pending \ {a} /\ (a \in Exec => a \in DOMAIN blocks)
    BY <1>10 DEF SkipBlock, Buildable, cfgVars, workVars
  <2>2. \A f \in DOMAIN functions :
           (Outstanding(f) \cap Exec) \ DOMAIN blocks \subseteq Outstanding(f)'
    BY <2>1 DEF Outstanding
  <2>3. QED BY <2>1, <2>2, SameListsKeepListInv DEF SameLists
<1>11. CASE \E a \in Target : BuildBlock(a)
  BY <1>11, BuildingKeepsListInv
<1>12. CASE EndFunction
  <2>1. /\ functions' = functions /\ blocks' = blocks /\ analyzed' = analyzed
        /\ phase = "build" /\ pending = {}
    BY <1>12 DEF EndFunction, cfgVars
  <2>2. \A f \in DOMAIN functions : Outstanding(f) = {}
    BY <2>1 DEF Outstanding
  <2>3. QED BY <2>1, <2>2, SameListsKeepListInv DEF SameLists
<1>13. CASE UNCHANGED vars
  BY <1>13 DEF ListInv, EntryReady, Outstanding, vars, cfgVars, workVars, passVars
<1>14. QED
  BY <1>1, <1>3, <1>4, <1>5, <1>6, <1>7, <1>8, <1>9, <1>10, <1>11, <1>12, <1>13
  DEF Next, Seeding, MainLoop, Done

LEMMA ListInvHolds == Spec => [](TypeOK /\ WorklistInv /\ ListInv)
<1>1. Init => ListInv
  BY DEF Init, ListInv
<1>2. TypeOK /\ WorklistInv /\ ListInv /\ [Next]_vars => ListInv'
  BY NextListInv
<1>3. QED BY <1>1, <1>2, Inductive, PTL DEF Spec

(* Every executable address a function lists has a block when analyze()    *)
(* returns, for every image: the emitted gotos to it have their label.     *)
THEOREM ListedBlocksAreBuilt == Spec => []EveryListedBlockBuilt
<1>1. TypeOK /\ WorklistInv /\ ListInv => EveryListedBlockBuilt
  <2> SUFFICES ASSUME TypeOK, WorklistInv, ListInv, phase = "done",
                      NEW f \in DOMAIN functions
               PROVE  functions[f].blocks \cap Exec \subseteq DOMAIN blocks
    BY DEF EveryListedBlockBuilt
  <2>1. \A g \in DOMAIN functions : Outstanding(g) = {}
    BY DEF Outstanding
  <2>2. DOMAIN functions \subseteq DOMAIN blocks
    BY <2>1 DEF WorklistInv, ListInv, EntryReady
  <2>3. QED BY <2>1, <2>2 DEF ListInv
<1>2. QED BY <1>1, ListInvHolds, PTL

(* The start of every function is one of its blocks and is built, so the   *)
(* default label of its switch exists, for every image.                    *)
THEOREM EntryLabelsExist == Spec => []EntryLabelExists
<1>1. TypeOK /\ WorklistInv /\ ListInv => EntryLabelExists
  BY DEF WorklistInv, ListInv, EntryReady, Outstanding, EntryLabelExists
<1>2. QED BY <1>1, ListInvHolds, PTL
=============================================================================
