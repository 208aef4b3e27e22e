--------------------------- MODULE EmittedProofs ---------------------------
(***************************************************************************)
(* Every label that the emitted C needs is there, on every image and for   *)
(* every seeding.  The argument goes from the scan to the emitter: what    *)
(* the scan reads it never reads otherwise later (ScanInv); what a pass    *)
(* has read its jump tables and branch targets stay seeded (PassInv); a    *)
(* body lists with a block every block the block leads to, or has it in    *)
(* the queue (BuilderInv); and the last pass of a function ended with      *)
(* nothing queued, so its list is closed under the edges the emitter       *)
(* follows (ReachInv).                                                     *)
(***************************************************************************)
EXTENDS AnalyzerProofs, EmittedCode, WellFoundedInduction

(* Least and greatest elements.                                            *)
LEMMA NumbersAreWellFounded == IsWellFoundedOn({p \in Nat \X Nat : p[1] < p[2]}, Nat)
  BY NatLessThanWellFounded DEF OpToRel

LEMMA LeastExists ==
    ASSUME NEW S \in SUBSET Nat, S # {}
    PROVE  \E x \in S : \A y \in S : x <= y
<1> DEFINE Less == {p \in Nat \X Nat : p[1] < p[2]}
<1>1. PICK x \in S : \A y \in S : ~(<<y, x>> \in Less)
  BY NumbersAreWellFounded, WFMin, Zenon
<1>2. ASSUME NEW y \in S PROVE x <= y
  <2>1. ~(y < x)
    BY <1>1
  <2>2. QED BY <2>1
<1>3. QED BY <1>2

LEMMA GreatestExists ==
    ASSUME NEW S \in SUBSET Nat, S # {}, NEW n \in Nat, \A s \in S : s <= n
    PROVE  \E x \in S : \A y \in S : y <= x
<1> DEFINE T == {i \in Nat : n - i \in S}
<1>1. \A y \in S : n - y \in Nat /\ n - (n - y) = y
  OBVIOUS
<1>2. \A y \in S : n - y \in T
  BY <1>1
<1>3. T \in SUBSET Nat /\ T # {}
  BY <1>2
<1>4. PICK i \in T : \A j \in T : i <= j
  <2> HIDE DEF T
  <2>1. QED BY <1>3, LeastExists
<1>5. n - i \in S /\ i \in Nat
  OBVIOUS
<1>6. \A y \in S : y <= n - i
  BY <1>1, <1>2, <1>4, <1>5
<1>7. QED BY <1>5, <1>6

(* The walk stops once; with more cuts it stops no later, and a branch it  *)
(* still reaches it reached before.                                        *)
LEMMA OneRunEnd ==
    ASSUME NEW s \in Int, NEW cuts, NEW c \in s..(MaxAddr + 1), NEW d \in s..(MaxAddr + 1),
           IsRunEnd(s, c, cuts), IsRunEnd(s, d, cuts)
    PROVE  c = d
<1>1. c \in Int /\ d \in Int
  BY ImageAssumption
<1>2. CASE c < d
  BY <1>1, <1>2 DEF IsRunEnd
<1>3. CASE d < c
  BY <1>1, <1>3 DEF IsRunEnd
<1>4. QED BY <1>1, <1>2, <1>3

(* A run that stops at c under more cuts, at a branch or at a cut that was *)
(* there before, stopped at c before.                                      *)
LEMMA RunEndsAreStable ==
    ASSUME NEW s \in Int, NEW cuts, NEW more, cuts \subseteq more,
           NEW c \in s..(MaxAddr + 1), IsRunEnd(s, c, more),
           EndsAtBranch(s, c, more) \/ c \in cuts
    PROVE  /\ IsRunEnd(s, c, cuts)
           /\ EndsAtBranch(s, c, cuts) <=> EndsAtBranch(s, c, more)
BY DEF IsRunEnd, StopsAt, EndsAtBranch, IsCut

(* The words a run goes over are plain.                                    *)
LEMMA RunsArePlain ==
    ASSUME NEW s \in Int, NEW cuts, NEW c \in s..(MaxAddr + 1), IsRunEnd(s, c, cuts)
    PROVE  \A d \in s..(c - 1) : /\ d \in Addr /\ ~IsBranch(code[d])
                                 /\ d # s => d \notin cuts
BY DEF IsRunEnd, StopsAt, IsCut

(* What building block a leaves in the function map, the block map and the *)
(* set of pending blocks.                                                  *)
NewListed(a, c, queued, jumps) ==
    DirectSuccessors(a, c, queued) \cup LocalJumpTargets(a, jumps)

BuildMaps(a, c, called, queued, jumps) ==
    /\ BuildEffect(a, c, called, queued, jumps)
    /\ DOMAIN functions' = DOMAIN functions \cup called
    /\ functions'[cur].blocks = functions[cur].blocks \cup NewListed(a, c, queued, jumps)
    /\ \A f \in DOMAIN functions' \ {cur} :
          functions'[f].blocks = IF f \in DOMAIN functions THEN functions[f].blocks ELSE {}
    /\ DOMAIN blocks' = DOMAIN blocks \cup {a}
    /\ \A s \in DOMAIN blocks : s # a /\ blocks'[s] = blocks[s]
    /\ blocks'[a].last = IF EndsAtBranch(a, c, BlockCuts) THEN c ELSE c - 1
    /\ blocks'[a].successors = DirectSuccessors(a, c, queued) \cup (jumps \ {0})
    /\ blocks'[a].jumpTable = jumps
    /\ pending' \subseteq (pending \ {a}) \cup NewListed(a, c, queued, jumps)

(* BuildBlock does just that.                                              *)
LEMMA BuildBlockMaps ==
    ASSUME TypeOK, NEW a \in Target, BuildBlock(a)
    PROVE  \E c \in a..(MaxAddr + 1), called \in SUBSET Exec,
              queued \in SUBSET Target, jumps \in SUBSET Target :
                 BuildMaps(a, c, called, queued, jumps)
<1>0. PICK c \in a..(MaxAddr + 1), called \in SUBSET Exec,
           queued \in SUBSET Target, jumps \in SUBSET Target :
              BuildEffect(a, c, called, queued, jumps)
  BY BuildBlockEffect
<1> DEFINE new == NewListed(a, c, queued, jumps)
           R   == Registered(functions, called, "sub")
<1>1. functions' = WithBlocks(R, cur, new) /\ new \in SUBSET Target
  <2>1. DirectSuccessors(a, c, queued) \subseteq Target /\ LocalJumpTargets(a, jumps) \subseteq Exec
    BY <1>0 DEF BuildEffect
  <2>2. Exec \subseteq Target
    BY ImageAssumption DEF Target
  <2>3. functions' = WithBlocks(R, cur, new)
    BY <1>0 DEF BuildEffect, NewListed
  <2>4. QED BY <2>1, <2>2, <2>3 DEF NewListed
<1>2. cur \in DOMAIN functions /\ a \notin DOMAIN blocks
  BY DEF BuildBlock, TypeOK, Buildable
<1>3. /\ DOMAIN blocks' = DOMAIN blocks \cup {a}
      /\ \A s \in DOMAIN blocks : s # a /\ blocks'[s] = blocks[s]
      /\ blocks'[a].last = IF EndsAtBranch(a, c, BlockCuts) THEN c ELSE c - 1
      /\ blocks'[a].successors = DirectSuccessors(a, c, queued) \cup (jumps \ {0})
      /\ blocks'[a].jumpTable = jumps
  BY <1>0, <1>2 DEF BuildEffect
<1>4. pending' \subseteq (pending \ {a}) \cup new
  BY <1>0 DEF BuildEffect, NewlyListed, NewListed, DirectSuccessors
<1> HIDE DEF new, R
<1>5. IsFunctionMap(functions)
  BY DEF TypeOK, IsFunctionMap
<1>6. /\ IsFunctionMap(R)
      /\ DOMAIN R = DOMAIN functions \cup (called \cap Exec)
      /\ \A f \in DOMAIN functions : R[f].blocks = functions[f].blocks
      /\ \A f \in DOMAIN R \ DOMAIN functions : R[f].blocks = {}
  BY <1>5, RegisteredFacts DEF Name, R
<1>7. /\ DOMAIN functions' = DOMAIN R
      /\ functions'[cur].blocks = R[cur].blocks \cup new
      /\ \A f \in DOMAIN R \ {cur} : functions'[f] = R[f]
  BY <1>1, <1>2, <1>6, WithBlocksFacts
<1>8. BuildMaps(a, c, called, queued, jumps)
  BY <1>0, <1>2, <1>3, <1>4, <1>6, <1>7 DEF new, BuildMaps
<1>9. QED BY <1>8

-----------------------------------------------------------------------------
(* Pass 1 misses nothing: what ends the run from a scanned seed, cut as it *)
(* is now, is a seed, or leads to seeds.  Later seeds only shorten runs,   *)
(* and a function found later follows a branch, so no run ends there.      *)
EndIsSeeded(s, c) ==
    IF EndsAtBranch(s, c, ScanCuts) THEN LeadsTo(c) \subseteq seeds
    ELSE {c} \cap ScanCuts \subseteq seeds

ScanInv ==
    phase \in {"scan", "build"} =>
        /\ cur \in seeds
        /\ \A s \in scanned : \A c \in s..(MaxAddr + 1) :
              IsRunEnd(s, c, ScanCuts) => EndIsSeeded(s, c)

(* One seed's run, after a step that adds seeds and functions.             *)
LEMMA SeededEndsStaySeeded ==
    ASSUME TypeOK, image' = image, cur' = cur, seeds \subseteq seeds', NEW s \in Int, s \in seeds',
           DOMAIN functions \subseteq DOMAIN functions',
           \A t \in DOMAIN functions' : t \in DOMAIN functions \/ FollowsBranch(t),
           \A d \in s..(MaxAddr + 1) : IsRunEnd(s, d, ScanCuts) =>
               IF EndsAtBranch(s, d, ScanCuts) THEN LeadsTo(d) \subseteq seeds'
               ELSE {d} \cap ScanCuts \subseteq seeds',
           NEW c \in s..(MaxAddr + 1), IsRunEnd(s, c, ScanCuts)'
    PROVE  EndIsSeeded(s, c)'
<1>1. PICK more : more = ScanCuts'
  OBVIOUS
<1>2. /\ code' = code /\ (LeadsTo(c))' = LeadsTo(c)
      /\ IsRunEnd(s, c, ScanCuts)' <=> IsRunEnd(s, c, more)
      /\ EndsAtBranch(s, c, ScanCuts)' <=> EndsAtBranch(s, c, more)
  BY <1>1 DEF code, LeadsTo, LocalTargets, CalledFunctions, ResumePoints,
              LooksLikeIndependentFunctionEntry, FollowsBoundary,
              IsRunEnd, StopsAt, EndsAtBranch, IsCut
<1>3. ScanCuts \subseteq more
  BY <1>1 DEF ScanCuts
<1>4. CASE EndsAtBranch(s, c, more)
  <2>1. IsRunEnd(s, c, ScanCuts) /\ EndsAtBranch(s, c, ScanCuts)
    BY <1>2, <1>3, <1>4, RunEndsAreStable
  <2>2. QED BY <1>2, <1>4, <2>1 DEF EndIsSeeded
<1>5. CASE ~EndsAtBranch(s, c, more)
  <2>1. SUFFICES ASSUME c \in more PROVE c \in seeds'
    BY <1>1, <1>2, <1>5 DEF EndIsSeeded
  <2>2. CASE c \in ScanCuts
    <3>1. IsRunEnd(s, c, ScanCuts) /\ ~EndsAtBranch(s, c, ScanCuts)
      BY <1>2, <1>3, <1>5, <2>2, RunEndsAreStable
    <3>2. QED BY <2>2, <3>1
  <2>3. CASE c \notin ScanCuts /\ c # s
    <3>1. c - 1 \in s..(c - 1)
      BY <2>3
    <3>2. ~FollowsBranch(c)
      <4>1. ~IsBranch(code[c - 1])
        BY <1>2, <3>1, RunsArePlain
      <4>2. QED BY <4>1 DEF FollowsBranch
    <3>3. QED BY <1>1, <2>1, <2>3, <3>2 DEF ScanCuts
  <2>4. QED BY <2>2, <2>3
<1>6. QED BY <1>4, <1>5

(* Every step keeps what pass 1 found; a scan makes it true of one seed    *)
(* more.                                                                   *)
LEMMA NextScanInv ==
    ASSUME TypeOK, TypeOK', SeedInv, SeedInv', BoundaryInv, ScanInv, [Next]_vars
    PROVE  ScanInv'
<1>0. ASSUME phase \in {"scan", "build"}, phase' \in {"scan", "build"},
             image' = image, cur' = cur, seeds \subseteq seeds', scanned' = scanned,
             DOMAIN functions \subseteq DOMAIN functions',
             \A t \in DOMAIN functions' : t \in DOMAIN functions \/ FollowsBranch(t)
      PROVE  ScanInv'
  <2>1. \A s \in scanned : s \in Int /\ s \in seeds'
    BY <1>0, ImageAssumption DEF TypeOK, SeedInv, Target
  <2>2. ASSUME NEW s \in scanned, NEW c \in s..(MaxAddr + 1), IsRunEnd(s, c, ScanCuts)'
        PROVE  EndIsSeeded(s, c)'
    <3>1. \A d \in s..(MaxAddr + 1) : IsRunEnd(s, d, ScanCuts) =>
               IF EndsAtBranch(s, d, ScanCuts) THEN LeadsTo(d) \subseteq seeds'
               ELSE {d} \cap ScanCuts \subseteq seeds'
      BY <1>0 DEF ScanInv, EndIsSeeded
    <3>2. QED BY <1>0, <2>1, <2>2, <3>1, SeededEndsStaySeeded
  <2>3. QED BY <1>0, <2>2 DEF ScanInv
<1>1. CASE Seeding \/ (\E a \in Exec : SkipAnalyzed(a)) \/ Finish \/ EndFunction
  <2>1. phase' \in {"entry", "data", "text", "populate", "pop", "done"}
    BY <1>1 DEF Seeding, ScanPrologues, DiscoverEntryPoint, ScanDataPointers, ScanTextPointers,
                SeedFrom, PopulateWorklist, SkipAnalyzed, Finish, EndFunction
  <2>2. QED BY <2>1 DEF ScanInv
<1>2. CASE \E a \in Exec : BeginFunction(a)
  BY <1>2 DEF BeginFunction, ScanInv
<1>3. CASE BeginPass2
  <2>1. DOMAIN functions' = DOMAIN functions
    BY <1>3 DEF BeginPass2, WithBlocks
  <2>2. QED BY <1>0, <1>3, <2>1 DEF BeginPass2
<1>4. CASE \E a \in Target : SkipBlock(a)
  BY <1>0, <1>4 DEF SkipBlock, cfgVars
<1>5. ASSUME NEW a \in Target, BuildBlock(a) PROVE ScanInv'
  <2>1. PICK c \in a..(MaxAddr + 1), called \in SUBSET Exec,
             queued \in SUBSET Target, jumps \in SUBSET Target :
                BuildMaps(a, c, called, queued, jumps)
    BY <1>5, BuildBlockMaps
  <2>2. DOMAIN functions' = DOMAIN functions \cup called
    BY <2>1 DEF BuildMaps
  <2>3. phase = "build"
    BY <1>5 DEF BuildBlock
  <2>4. \A t \in called : t \in DOMAIN functions \/ FollowsBranch(t)
    <3> TAKE t \in called
    <3>1. t \in CalledFunctions(code[c])
      BY <2>1 DEF BuildMaps, BuildEffect
    <3>2. QED BY <2>3, <3>1, CalledFunctionsAreKnownOrFollowABranch
  <2>5. QED BY <1>0, <1>5, <2>2, <2>3, <2>4 DEF BuildBlock
<1>6. CASE UNCHANGED vars
  <2>1. CASE phase \in {"scan", "build"}
    BY <1>0, <1>6, <2>1 DEF vars, cfgVars, passVars
  <2>2. CASE phase \notin {"scan", "build"}
    BY <1>6, <2>2 DEF vars, ScanInv
  <2>3. QED BY <2>1, <2>2
<1>7. CASE ScanRun
  <2> DEFINE a == Head(scanQueue)
             targets(c) == IF EndsAtBranch(a, c, ScanCuts) THEN LocalTargets(code[c])
                           ELSE {c} \cap ScanCuts
             resumes(c) == IF EndsAtBranch(a, c, ScanCuts) THEN ResumePoints(c) ELSE {}
             called(c)  == IF EndsAtBranch(a, c, ScanCuts) THEN CalledFunctions(code[c]) ELSE {}
  <2>1. PICK c \in a..(MaxAddr + 1) :
          /\ IsRunEnd(a, c, ScanCuts)
          /\ seeds' = seeds \cup targets(c) \cup resumes(c)
          /\ functions' = Registered(functions, called(c), "sub")
          /\ scanned' = scanned \cup {a}
    BY <1>7 DEF ScanRun
  <2>2. /\ phase = "scan" /\ phase' = "scan" /\ cur' = cur /\ image' = image
        /\ a \in seeds /\ scanned \subseteq seeds
    <3>1. scanQueue \in Seq(Target) /\ scanQueue # << >> /\ phase = "scan"
      BY <1>7 DEF ScanRun, TypeOK
    <3>2. 1 \in DOMAIN scanQueue /\ a = scanQueue[1]
      BY <3>1
    <3>3. QED BY <1>7, <3>1, <3>2 DEF ScanRun, SeedInv, Elements
  <2>3. \A s \in seeds : s \in Int
    BY ImageAssumption DEF TypeOK, Target
  <2>4. DOMAIN functions' = DOMAIN functions \cup (called(c) \cap Exec)
    BY <2>1 DEF Registered
  <2>5. \A t \in called(c) : t \in DOMAIN functions \/ FollowsBranch(t)
    <3> TAKE t \in called(c)
    <3>1. t \in CalledFunctions(code[c])
      OBVIOUS
    <3>2. QED BY <2>2, <3>1, CalledFunctionsAreKnownOrFollowABranch
  <2>6. EndsAtBranch(a, c, ScanCuts) => LeadsTo(c) \subseteq seeds'
    BY <2>1 DEF LeadsTo
  <2>7. ~EndsAtBranch(a, c, ScanCuts) => {c} \cap ScanCuts \subseteq seeds'
    BY <2>1
  <2> HIDE DEF targets, resumes, called, a
  <2>8. ASSUME NEW s \in scanned', NEW d \in s..(MaxAddr + 1), IsRunEnd(s, d, ScanCuts)
        PROVE  IF EndsAtBranch(s, d, ScanCuts) THEN LeadsTo(d) \subseteq seeds'
               ELSE {d} \cap ScanCuts \subseteq seeds'
    <3>1. CASE s \in scanned
      BY <2>1, <2>2, <2>8, <3>1 DEF ScanInv, EndIsSeeded
    <3>2. CASE s = a
      <4>1. d = c
        BY <2>1, <2>2, <2>3, <2>8, <3>2, OneRunEnd
      <4>2. QED BY <2>6, <2>7, <3>2, <4>1
    <3>3. QED BY <2>1, <3>1, <3>2
  <2>9. ASSUME NEW s \in scanned', NEW d \in s..(MaxAddr + 1), IsRunEnd(s, d, ScanCuts)'
        PROVE  EndIsSeeded(s, d)'
    <3>1. s \in Int /\ s \in seeds'
      BY <2>1, <2>2, <2>3
    <3>2. QED BY <2>1, <2>2, <2>4, <2>5, <2>8, <2>9, <3>1, SeededEndsStaySeeded
  <2>10. QED BY <2>1, <2>2, <2>9 DEF ScanInv
<1>8. QED
  BY <1>1, <1>2, <1>3, <1>4, <1>5, <1>6, <1>7 DEF Next, MainLoop, Done

-----------------------------------------------------------------------------
(* From the word at b control reaches the word at c over plain words, none *)
(* of which starts a function.                                             *)
Reaches(b, c) ==
    /\ \A d \in b..(c - 1) : d \in Addr /\ ~IsBranch(code[d])
    /\ \A h \in DOMAIN functions : ~(b < h /\ h < c)

(* The last seed on the way was scanned, and its run ends at c: nothing    *)
(* that a seed reaches is missing from the seeds.                          *)
LEMMA ReachedBranchIsSeeded ==
    ASSUME TypeOK, SeedInv, ScanInv, phase = "build", NEW b \in seeds, NEW c \in Addr, b <= c,
           Reaches(b, c), IsBranch(code[c]), c = b \/ c \notin DOMAIN functions
    PROVE  LeadsTo(c) \subseteq seeds
<1> DEFINE S == {x \in seeds : b <= x /\ x <= c}
<1>1. b \in Nat /\ c \in Nat /\ c <= MaxAddr /\ MaxAddr \in Nat /\ seeds \subseteq Nat
  BY ImageAssumption DEF TypeOK, Target, Addr
<1>2. PICK x \in S : \A y \in S : y <= x
  <2>1. b \in S
    BY <1>1
  <2>2. S \subseteq Nat /\ \A y \in S : y <= c
    BY <1>1
  <2> HIDE DEF S
  <2>3. QED BY <1>1, <2>1, <2>2, GreatestExists
<1>3. /\ x \in seeds /\ x \in Int /\ b <= x /\ x <= c /\ c \in x..(MaxAddr + 1)
      /\ \A y \in seeds : ~(x < y /\ y <= c)
  BY <1>1, <1>2
<1>4. x \in scanned
  BY <1>3 DEF SeedInv, Elements
<1>5. \A d \in x..c : d # x => d \notin ScanCuts
  <2> SUFFICES ASSUME NEW d \in x..c, d # x, d \in ScanCuts PROVE FALSE
    OBVIOUS
  <2>1. b < d /\ d <= c /\ d \in Int /\ x < d
    BY <1>1, <1>3
  <2>2. d \in DOMAIN functions
    BY <1>3, <2>1 DEF ScanCuts
  <2>3. QED BY <1>1, <2>1, <2>2 DEF Reaches
<1>6. \A d \in x..(c - 1) : d \in Addr /\ ~IsBranch(code[d])
  BY <1>1, <1>3 DEF Reaches
<1>7. IsRunEnd(x, c, ScanCuts) /\ EndsAtBranch(x, c, ScanCuts)
  BY <1>3, <1>5, <1>6 DEF IsRunEnd, StopsAt, EndsAtBranch, IsCut
<1>8. QED BY <1>3, <1>4, <1>7 DEF ScanInv, EndIsSeeded

(* The same of a function reached behind the seed: it is a seed.           *)
LEMMA ReachedFunctionIsSeeded ==
    ASSUME TypeOK, SeedInv, ScanInv, phase = "build", NEW b \in seeds,
           NEW c \in DOMAIN functions, b < c, Reaches(b, c)
    PROVE  c \in seeds
<1> SUFFICES ASSUME c \notin seeds PROVE FALSE
  OBVIOUS
<1> DEFINE S == {x \in seeds : b <= x /\ x <= c}
<1>1. b \in Nat /\ c \in Nat /\ c <= MaxAddr /\ MaxAddr \in Nat /\ seeds \subseteq Nat /\ c \in Addr
  BY ImageAssumption DEF TypeOK, Target, Addr
<1>2. PICK x \in S : \A y \in S : y <= x
  <2>1. b \in S
    BY <1>1
  <2>2. S \subseteq Nat /\ \A y \in S : y <= c
    BY <1>1
  <2> HIDE DEF S
  <2>3. QED BY <1>1, <2>1, <2>2, GreatestExists
<1>3. /\ x \in seeds /\ x \in Int /\ b <= x /\ x < c /\ c \in x..(MaxAddr + 1)
      /\ \A y \in seeds : ~(x < y /\ y <= c)
  <2>1. x # c
    BY <1>2
  <2>2. QED BY <1>1, <1>2, <2>1
<1>4. x \in scanned /\ cur \in seeds
  BY <1>3 DEF SeedInv, Elements, ScanInv
<1>5. \A d \in x..(c - 1) : d # x => d \notin ScanCuts
  <2> SUFFICES ASSUME NEW d \in x..(c - 1), d # x, d \in ScanCuts PROVE FALSE
    OBVIOUS
  <2>1. b < d /\ d < c /\ d \in Int /\ x < d
    BY <1>1, <1>3
  <2>2. d \in DOMAIN functions
    BY <1>1, <1>3, <2>1 DEF ScanCuts
  <2>3. QED BY <1>1, <2>1, <2>2 DEF Reaches
<1>6. \A d \in x..(c - 1) : d \in Addr /\ ~IsBranch(code[d])
  BY <1>1, <1>3 DEF Reaches
<1>7. c \in ScanCuts /\ c # x
  BY <1>1, <1>3, <1>4 DEF ScanCuts
<1>8. IsRunEnd(x, c, ScanCuts) /\ ~EndsAtBranch(x, c, ScanCuts)
  BY <1>3, <1>5, <1>6, <1>7 DEF IsRunEnd, StopsAt, EndsAtBranch, IsCut
<1>9. QED BY <1>3, <1>4, <1>7, <1>8 DEF ScanInv, EndIsSeeded

-----------------------------------------------------------------------------
(* The lists while a function is analyzed: those of functions still to be  *)
(* analyzed are empty, what is pending is listed, and without a jump table *)
(* pass 2 adds nothing to what pass 1 found.                               *)
PassInv ==
    /\ \A f \in DOMAIN functions \ analyzed : functions[f].blocks = {}
    /\ phase \in {"scan", "build"} => cur \in analyzed
    /\ phase = "scan" => functions[cur].blocks = {}
    /\ phase = "build" =>
          /\ pending \subseteq functions[cur].blocks
          /\ JumpTableTargets(cur) = {} => functions[cur].blocks = seeds

(* Blocks and lists only grow, so what jump tables name does too.          *)
LEMMA JumpTableTargetsGrow ==
    ASSUME NEW f, functions[f].blocks \subseteq functions'[f].blocks,
           DOMAIN blocks \subseteq DOMAIN blocks',
           \A s \in DOMAIN blocks : blocks'[s] = blocks[s],
           JumpTableTargets(f)' = {}
    PROVE  JumpTableTargets(f) = {}
<1>1. PICK later : later = JumpTableTargets(f)'
  OBVIOUS
<1> SUFFICES ASSUME NEW b \in Listed(f), NEW t \in blocks[b].jumpTable PROVE FALSE
  BY DEF JumpTableTargets
<1>2. b \in functions'[f].blocks /\ b \in DOMAIN blocks' /\ t \in blocks'[b].jumpTable
  BY DEF Listed
<1>3. t \in UNION {blocks'[s].jumpTable : s \in functions'[f].blocks \cap DOMAIN blocks'}
  BY <1>2
<1>4. QED BY <1>3 DEF JumpTableTargets, Listed

(* Without a jump table a new block adds nothing to the list: what it      *)
(* leads to is reached from a seed, so it is one.                          *)
LEMMA BuildingKeepsSeeds ==
    ASSUME TypeOK, SeedInv, ScanInv, BoundaryInv, PassInv, NEW a \in Target, BuildBlock(a),
           JumpTableTargets(cur)' = {}
    PROVE  JumpTableTargets(cur) = {} /\ functions'[cur].blocks = seeds
<1>1. PICK c \in a..(MaxAddr + 1), called \in SUBSET Exec,
           queued \in SUBSET Target, jumps \in SUBSET Target :
              BuildMaps(a, c, called, queued, jumps)
  BY BuildBlockMaps
<1>2. /\ functions'[cur].blocks = functions[cur].blocks \cup NewListed(a, c, queued, jumps)
      /\ DOMAIN blocks' = DOMAIN blocks \cup {a}
      /\ \A s \in DOMAIN blocks : s # a /\ blocks'[s] = blocks[s]
      /\ \A t : t \in blocks'[a].jumpTable <=> t \in jumps
  BY <1>1 DEF BuildMaps
<1>3. phase = "build" /\ cur' = cur /\ a \in pending /\ a \in Exec
  BY DEF BuildBlock, IsLeast, Buildable
<1>4. JumpTableTargets(cur) = {}
  <2>1. PICK f : f = cur
    OBVIOUS
  <2>2. functions[f].blocks \subseteq functions'[f].blocks /\ JumpTableTargets(f)' = {}
    BY <1>2, <1>3, <2>1 DEF JumpTableTargets, Listed
  <2>3. JumpTableTargets(f) = {}
    BY <1>2, <2>2, JumpTableTargetsGrow
  <2>4. QED BY <2>1, <2>3
<1>5. functions[cur].blocks = seeds /\ a \in seeds
  BY <1>3, <1>4 DEF PassInv
<1>6. jumps = {}
  <2>1. a \in functions'[cur].blocks /\ a \in DOMAIN blocks'
    BY <1>2, <1>5
  <2>2. jumps \subseteq UNION {blocks'[s].jumpTable : s \in functions'[cur].blocks \cap DOMAIN blocks'}
    BY <1>2, <2>1
  <2>3. QED BY <1>3, <2>2 DEF JumpTableTargets, Listed
<1>7. LocalJumpTargets(a, jumps) = {}
  BY <1>6 DEF LocalJumpTargets
<1>8. a \in Int /\ c \in Int /\ a <= c /\ MaxAddr \in Nat
  BY <1>3, ImageAssumption DEF Addr
<1>9. IsRunEnd(a, c, BlockCuts)
  BY <1>1 DEF BuildMaps, BuildEffect
<1>10. Reaches(a, c)
  <2>1. \A d \in a..(c - 1) : /\ d \in Addr /\ ~IsBranch(code[d])
                              /\ d # a => d \notin BlockCuts
    BY <1>8, <1>9, RunsArePlain
  <2>2. \A h \in DOMAIN functions : h \in Int
    BY ImageAssumption DEF TypeOK
  <2>3. QED BY <1>8, <2>1, <2>2 DEF Reaches, BlockCuts
<1>11. DirectSuccessors(a, c, queued) \subseteq seeds
  <2>1. CASE EndsAtBranch(a, c, BlockCuts)
    <3>1. c \in Addr /\ IsBranch(code[c]) /\ (c = a \/ c \notin BlockCuts)
      BY <2>1 DEF EndsAtBranch, IsCut
    <3>2. LeadsTo(c) \subseteq seeds
      BY <1>3, <1>5, <1>8, <1>10, <3>1, ReachedBranchIsSeeded DEF BlockCuts
    <3>3. queued = LeadsTo(c)
      BY <1>1, <2>1 DEF BuildMaps, BuildEffect
    <3>4. {c} \cap BlockCuts \cap (a + 1)..c = {}
      BY <1>8, <3>1
    <3>5. QED BY <3>2, <3>3, <3>4 DEF DirectSuccessors
  <2>2. CASE ~EndsAtBranch(a, c, BlockCuts)
    <3>1. queued = {} /\ a < c
      BY <1>1, <2>2 DEF BuildMaps, BuildEffect
    <3>2. c \in DOMAIN functions => c \in seeds
      BY <1>3, <1>5, <1>10, <3>1, ReachedFunctionIsSeeded
    <3>3. QED BY <1>5, <3>1, <3>2 DEF DirectSuccessors, BlockCuts
  <2>3. QED BY <2>1, <2>2
<1>12. QED BY <1>2, <1>4, <1>5, <1>7, <1>11 DEF NewListed

(* Every step keeps the lists of unfinished functions as PassInv says.     *)
LEMMA NextPassInv ==
    ASSUME TypeOK, TypeOK', WorklistInv, BoundaryInv, SeedInv, ScanInv, PassInv, [Next]_vars
    PROVE  PassInv'
<1>0. IsFunctionMap(functions)
  BY DEF TypeOK, IsFunctionMap
<1>1. ASSUME SameLists(functions, functions'), analyzed' = analyzed,
             phase' # "build", phase' = "scan" => phase = "scan" /\ cur' = cur
      PROVE  PassInv'
  <2>1. \A f \in DOMAIN functions' \ analyzed : functions'[f].blocks = {}
    BY <1>1 DEF SameLists, PassInv
  <2>2. phase' = "scan" => /\ cur' \in analyzed' /\ functions'[cur'].blocks = {}
    BY <1>1 DEF SameLists, PassInv, TypeOK
  <2>3. QED BY <1>1, <2>1, <2>2 DEF PassInv
<1>2. CASE ScanPrologues
  <2> DEFINE R == Registered(functions, Prologues, "fn")
  <2>1. SameLists(functions, R) /\ IsFunctionMap(R)
    BY <1>0, RegisteringKeepsLists DEF Name
  <2>2. /\ functions' = Registered(R, SectionStarts, "entry")
        /\ phase' = "entry" /\ analyzed' = analyzed
    BY <1>2 DEF ScanPrologues
  <2> HIDE DEF R
  <2>3. SameLists(R, Registered(R, SectionStarts, "entry"))
    BY <2>1, RegisteringKeepsLists DEF Name
  <2>4. SameLists(functions, functions')
    BY <2>1, <2>2, <2>3 DEF SameLists
  <2>5. QED BY <1>1, <2>2, <2>4
<1>3. ASSUME NEW here, NEW next \in Phase \ {"scan", "build"}, NEW S, NEW name \in Name,
             SeedFrom(here, next, S, name)
      PROVE  PassInv'
  <2>1. SameLists(functions, Registered(functions, S, name))
    BY <1>0, <1>3, RegisteringKeepsLists
  <2>2. QED BY <1>1, <1>3, <2>1 DEF SeedFrom
<1>4. CASE DiscoverEntryPoint
  BY <1>3, <1>4 DEF DiscoverEntryPoint, Phase, Name
<1>5. CASE ScanDataPointers
  BY <1>3, <1>5 DEF ScanDataPointers, Phase, Name
<1>6. CASE ScanTextPointers
  BY <1>3, <1>6 DEF ScanTextPointers, Phase, Name
<1>7. CASE PopulateWorklist \/ (\E a \in Exec : SkipAnalyzed(a)) \/ Finish \/ EndFunction
  <2>1. /\ functions' = functions /\ analyzed' = analyzed /\ phase' \in {"pop", "done"}
    BY <1>7 DEF PopulateWorklist, SkipAnalyzed, Finish, EndFunction, cfgVars, workVars
  <2>2. QED BY <1>1, <2>1 DEF SameLists
<1>8. ASSUME NEW a \in Exec, BeginFunction(a) PROVE PassInv'
  <2>1. /\ functions' = functions /\ analyzed' = analyzed \cup {a} /\ a \notin analyzed
        /\ phase' = "scan" /\ cur' = a
    BY <1>8 DEF BeginFunction, MarkAnalyzed, cfgVars
  <2>2. a \in DOMAIN functions
    BY <2>1 DEF TypeOK
  <2>3. QED BY <2>1, <2>2 DEF PassInv
<1>9. CASE ScanRun
  <2>1. PICK called : functions' = Registered(functions, called, "sub")
    BY <1>9 DEF ScanRun
  <2>2. SameLists(functions, Registered(functions, called, "sub"))
    BY <1>0, RegisteringKeepsLists DEF Name
  <2>3. phase = "scan" /\ phase' = "scan" /\ cur' = cur /\ analyzed' = analyzed
    BY <1>9 DEF ScanRun
  <2>4. QED BY <1>1, <2>1, <2>2, <2>3
<1>10. CASE BeginPass2
  <2>1. /\ phase = "scan" /\ phase' = "build" /\ cur' = cur /\ analyzed' = analyzed
        /\ pending' = seeds /\ seeds' = seeds /\ cur \in DOMAIN functions
        /\ functions' = WithBlocks(functions, cur, seeds) /\ seeds \in SUBSET Target
    BY <1>10 DEF BeginPass2, workVars, TypeOK
  <2>2. /\ DOMAIN functions' = DOMAIN functions
        /\ functions'[cur].blocks = functions[cur].blocks \cup seeds
        /\ \A f \in DOMAIN functions \ {cur} : functions'[f] = functions[f]
    BY <1>0, <2>1, WithBlocksFacts
  <2>3. QED BY <2>1, <2>2 DEF PassInv
<1>11. ASSUME NEW a \in Target, SkipBlock(a) PROVE PassInv'
  <2>1. /\ phase = "build" /\ phase' = "build" /\ cur' = cur /\ analyzed' = analyzed
        /\ pending' \subseteq pending /\ seeds' = seeds /\ functions' = functions /\ blocks' = blocks
    BY <1>11 DEF SkipBlock, cfgVars, workVars
  <2>2. JumpTableTargets(cur)' = JumpTableTargets(cur)
    BY <2>1 DEF JumpTableTargets, Listed
  <2>3. QED BY <2>1, <2>2 DEF PassInv
<1>12. ASSUME NEW a \in Target, BuildBlock(a) PROVE PassInv'
  <2>1. PICK c \in a..(MaxAddr + 1), called \in SUBSET Exec,
             queued \in SUBSET Target, jumps \in SUBSET Target :
                BuildMaps(a, c, called, queued, jumps)
    BY <1>12, BuildBlockMaps
  <2>2. /\ phase = "build" /\ phase' = "build" /\ cur' = cur /\ analyzed' = analyzed
        /\ seeds' = seeds
    BY <1>12 DEF BuildBlock
  <2>3. /\ functions'[cur].blocks = functions[cur].blocks \cup NewListed(a, c, queued, jumps)
        /\ \A f \in DOMAIN functions' \ {cur} :
              functions'[f].blocks = IF f \in DOMAIN functions THEN functions[f].blocks ELSE {}
        /\ pending' \subseteq (pending \ {a}) \cup NewListed(a, c, queued, jumps)
    BY <2>1 DEF BuildMaps
  <2>4. \A f \in DOMAIN functions' \ analyzed : functions'[f].blocks = {}
    BY <2>2, <2>3 DEF PassInv
  <2>5. pending' \subseteq functions'[cur].blocks
    BY <2>2, <2>3 DEF PassInv
  <2>6. JumpTableTargets(cur)' = {} => functions'[cur].blocks = seeds
    BY <1>12, BuildingKeepsSeeds
  <2>7. QED BY <2>2, <2>4, <2>5, <2>6 DEF PassInv
<1>13. CASE UNCHANGED vars
  BY <1>13 DEF PassInv, JumpTableTargets, Listed, vars, cfgVars, workVars, passVars
<1>14. QED
  BY <1>2, <1>4, <1>5, <1>6, <1>7, <1>8, <1>9, <1>10, <1>11, <1>12, <1>13
  DEF Next, Seeding, MainLoop, Done

-----------------------------------------------------------------------------
(* Every block still fits the list of the function that built it: what it  *)
(* leads to is listed and among its successors, the functions it calls are *)
(* registered, and, if no jump table revealed more, no listed address lies *)
(* inside it.                                                              *)
Onward(b) ==
    IF IsBranch(End(b)) THEN LeadsTo(blocks[b].last) ELSE {Continuation(b)} \cap Exec

FitsList(b, g) ==
    /\ b \in functions[g].blocks
    /\ Onward(b) \subseteq functions[g].blocks
    /\ JumpTableTargets(g) = {} =>
          \A x \in functions[g].blocks : ~(b < x /\ x <= blocks[b].last)

FitsBlock(b) ==
    /\ b <= blocks[b].last
    /\ Onward(b) \subseteq blocks[b].successors
    /\ IsBranch(End(b)) => CalledFunctions(End(b)) \subseteq DOMAIN functions

BuilderInv ==
    \A b \in DOMAIN blocks : FitsBlock(b) /\ \E g \in DOMAIN functions : FitsList(b, g)

(* A function reaches no place it does not list, unless jump tables        *)
(* revealed some of its code after pass 1.                                 *)
ListsReached(g) ==
    JumpTableTargets(g) = {} =>
        \A b \in functions[g].blocks, c \in Addr :
            b <= c /\ Reaches(b, c) /\ IsBranch(code[c]) /\ (c = b \/ c \notin DOMAIN functions)
              => LeadsTo(c) \subseteq functions[g].blocks

ReachInv ==
    \A g \in DOMAIN functions : (phase = "build" /\ g = cur) \/ ListsReached(g)

(* A block that fits a list still does after a step that leaves both       *)
(* alone.                                                                  *)
LEMMA FitsStay ==
    ASSUME image' = image, NEW b \in DOMAIN blocks, NEW g \in DOMAIN functions,
           DOMAIN blocks \subseteq DOMAIN blocks', \A s \in DOMAIN blocks : blocks'[s] = blocks[s],
           DOMAIN functions \subseteq DOMAIN functions',
           functions[g].blocks \subseteq functions'[g].blocks,
           JumpTableTargets(g)' = {} => functions'[g].blocks = functions[g].blocks,
           FitsBlock(b), FitsList(b, g)
    PROVE  FitsBlock(b)' /\ FitsList(b, g)'
<1>1. code' = code /\ blocks'[b] = blocks[b] /\ End(b)' = End(b)
  BY DEF code, End
<1>2. PICK last : last = blocks[b].last
  OBVIOUS
<1>3. LeadsTo(last)' = LeadsTo(last)
  BY <1>1 DEF LeadsTo, LocalTargets, CalledFunctions, ResumePoints,
              LooksLikeIndependentFunctionEntry, FollowsBoundary
<1>4. LeadsTo(blocks[b].last) = LeadsTo(last) /\ LeadsTo(blocks[b].last)' = LeadsTo(last)'
  BY <1>1, <1>2
<1>5. Onward(b)' = Onward(b)
  BY <1>1, <1>3, <1>4 DEF Onward, Continuation
<1>6. CalledFunctions(End(b))' = CalledFunctions(End(b))
  BY <1>1 DEF CalledFunctions, LooksLikeIndependentFunctionEntry, FollowsBoundary, End
<1>7. FitsBlock(b)'
  BY <1>1, <1>5, <1>6 DEF FitsBlock
<1>8. JumpTableTargets(g)' = {} => JumpTableTargets(g) = {}
  BY JumpTableTargetsGrow
<1>9. FitsList(b, g)'
  BY <1>1, <1>5, <1>8 DEF FitsList
<1>10. QED BY <1>7, <1>9

(* The new block fits the list of the function under analysis; the blocks  *)
(* built before fit theirs as they did.                                    *)
LEMMA BuildingKeepsBuilderInv ==
    ASSUME TypeOK, TypeOK', BoundaryInv, SeedInv, ScanInv, PassInv, BuilderInv,
           NEW a \in Target, BuildBlock(a)
    PROVE  BuilderInv'
<1>1. PICK c \in a..(MaxAddr + 1), called \in SUBSET Exec,
           queued \in SUBSET Target, jumps \in SUBSET Target :
              BuildMaps(a, c, called, queued, jumps)
  BY BuildBlockMaps
<1>2. /\ phase = "build" /\ cur' = cur /\ image' = image /\ code' = code /\ a \in pending
      /\ cur \in DOMAIN functions /\ a \in Exec
  BY DEF BuildBlock, IsLeast, Buildable, TypeOK, code
<1>3. /\ DOMAIN functions' = DOMAIN functions \cup called
      /\ functions'[cur].blocks = functions[cur].blocks \cup NewListed(a, c, queued, jumps)
      /\ \A f \in DOMAIN functions' \ {cur} :
            functions'[f].blocks = IF f \in DOMAIN functions THEN functions[f].blocks ELSE {}
      /\ DOMAIN blocks' = DOMAIN blocks \cup {a}
      /\ \A s \in DOMAIN blocks : s # a /\ blocks'[s] = blocks[s]
      /\ blocks'[a].last = IF EndsAtBranch(a, c, BlockCuts) THEN c ELSE c - 1
      /\ blocks'[a].successors = DirectSuccessors(a, c, queued) \cup (jumps \ {0})
  BY <1>1 DEF BuildMaps
<1>4. JumpTableTargets(cur)' = {} =>
        functions[cur].blocks = seeds /\ functions'[cur].blocks = seeds
  BY <1>2, BuildingKeepsSeeds DEF PassInv
<1>5. \A g \in DOMAIN functions : /\ functions[g].blocks \subseteq functions'[g].blocks
                                  /\ JumpTableTargets(g)' = {} =>
                                        functions'[g].blocks = functions[g].blocks
  <2> TAKE g \in DOMAIN functions
  <2>1. CASE g = cur
    <3>1. JumpTableTargets(g)' = JumpTableTargets(cur)'
      BY <1>2, <2>1 DEF JumpTableTargets, Listed
    <3>2. QED BY <1>3, <1>4, <2>1, <3>1
  <2>2. CASE g # cur
    BY <1>3, <2>2
  <2>3. QED BY <2>1, <2>2
<1>6. \A b \in DOMAIN blocks : FitsBlock(b)' /\ \E g \in DOMAIN functions' : FitsList(b, g)'
  <2> TAKE b \in DOMAIN blocks
  <2>1. PICK g \in DOMAIN functions : FitsBlock(b) /\ FitsList(b, g)
    BY DEF BuilderInv
  <2>2. FitsBlock(b)' /\ FitsList(b, g)'
    BY <1>2, <1>3, <1>5, <2>1, FitsStay
  <2>3. QED BY <1>3, <2>2
<1>7. a \in Int /\ c \in Int /\ a <= c /\ c <= MaxAddr + 1 /\ MaxAddr \in Nat
  BY <1>2, ImageAssumption DEF Addr
<1>8. /\ IsRunEnd(a, c, BlockCuts)
      /\ EndsAtBranch(a, c, BlockCuts) =>
            /\ c \in Addr /\ IsBranch(code[c]) /\ (c = a \/ c \notin BlockCuts)
            /\ queued = LeadsTo(c) /\ called = CalledFunctions(code[c])
      /\ ~EndsAtBranch(a, c, BlockCuts) => a < c
  BY <1>1 DEF BuildMaps, BuildEffect, EndsAtBranch, IsCut
<1>9. \A d \in a..(c - 1) : /\ d \in Addr /\ ~IsBranch(code[d])
                            /\ d # a => d \notin BlockCuts
  BY <1>7, <1>8, RunsArePlain
<1>10. Onward(a)' \subseteq DirectSuccessors(a, c, queued)
  <2>1. CASE EndsAtBranch(a, c, BlockCuts)
    <3>1. blocks'[a].last = c
      BY <1>3, <2>1
    <3>2. LeadsTo(c)' = LeadsTo(c)
      BY <1>2 DEF LeadsTo, LocalTargets, CalledFunctions, ResumePoints,
                  LooksLikeIndependentFunctionEntry, FollowsBoundary
    <3>3. Onward(a)' = LeadsTo(c)'
      BY <1>2, <1>8, <2>1, <3>1 DEF Onward, End
    <3>4. QED BY <1>8, <2>1, <3>2, <3>3 DEF DirectSuccessors
  <2>2. CASE ~EndsAtBranch(a, c, BlockCuts)
    <3>1. blocks'[a].last = c - 1 /\ c - 1 \in a..(c - 1)
      BY <1>3, <1>7, <1>8, <2>2
    <3>2. ~IsBranch(code[c - 1])
      BY <1>9, <3>1
    <3>3. Onward(a)' = {c} \cap Exec
      BY <1>2, <1>7, <3>1, <3>2 DEF Onward, End, Continuation
    <3>4. c \in Exec => c \in BlockCuts
      <4>1. c \in Exec => c \in Addr
        BY ImageAssumption DEF Addr
      <4>2. QED BY <1>8, <2>2, <4>1 DEF IsRunEnd, StopsAt, EndsAtBranch, IsCut
    <3>5. QED BY <1>7, <1>8, <2>2, <3>3, <3>4 DEF DirectSuccessors
  <2>3. QED BY <2>1, <2>2
<1>11. FitsBlock(a)'
  <2>1. Onward(a)' \subseteq blocks'[a].successors
    BY <1>3, <1>10
  <2>2. IsBranch(End(a))' => CalledFunctions(End(a))' \subseteq DOMAIN functions'
    <3>1. CASE EndsAtBranch(a, c, BlockCuts)
      <4>1. End(a)' = code[c]
        BY <1>2, <1>3, <3>1 DEF End
      <4>2. CalledFunctions(End(a))' = CalledFunctions(code[c])
        BY <1>2, <4>1 DEF CalledFunctions, LooksLikeIndependentFunctionEntry, FollowsBoundary
      <4>3. QED BY <1>3, <1>8, <3>1, <4>2
    <3>2. CASE ~EndsAtBranch(a, c, BlockCuts)
      <4>1. End(a)' = code[c - 1] /\ c - 1 \in a..(c - 1)
        BY <1>2, <1>3, <1>7, <1>8, <3>2 DEF End
      <4>2. QED BY <1>9, <4>1 DEF IsBranch
    <3>3. QED BY <3>1, <3>2
  <2>3. a <= blocks'[a].last
    BY <1>3, <1>7, <1>8
  <2>4. QED BY <2>1, <2>2, <2>3 DEF FitsBlock
<1>12. PICK g : g = cur
  OBVIOUS
<1>13. FitsList(a, g)'
  <2>1. a \in functions'[g].blocks
    BY <1>2, <1>3, <1>12 DEF PassInv
  <2>2. Onward(a)' \subseteq functions'[g].blocks
    BY <1>3, <1>10, <1>12 DEF NewListed
  <2>3. JumpTableTargets(g)' = {} =>
           \A x \in functions'[g].blocks : ~(a < x /\ x <= blocks'[a].last)
    <3> SUFFICES ASSUME JumpTableTargets(g)' = {}, NEW x \in functions'[g].blocks,
                        a < x, x <= blocks'[a].last
                 PROVE  FALSE
      OBVIOUS
    <3>1. JumpTableTargets(cur)' = {}
      BY <1>2, <1>12 DEF JumpTableTargets, Listed
    <3>2. x \in functions[cur].blocks /\ x \in BlockCuts
      BY <1>4, <1>12, <3>1 DEF BlockCuts
    <3>3. x \in Int
      BY <1>2, <3>2, ImageAssumption DEF TypeOK, Function, Target
    <3>4. CASE x = c
      BY <1>3, <1>7, <1>8, <3>2, <3>4
    <3>5. CASE x # c
      <4>1. x \in a..(c - 1)
        BY <1>3, <1>7, <3>3, <3>5
      <4>2. QED BY <1>9, <3>2, <4>1
    <3>6. QED BY <3>4, <3>5
  <2>4. QED BY <2>1, <2>2, <2>3 DEF FitsList
<1>14. QED
  BY <1>2, <1>3, <1>6, <1>11, <1>12, <1>13 DEF BuilderInv

(* The steps that build nothing leave every list as it is, but for pass 1's *)
(* end, which fills the empty list of the function under analysis.         *)
LEMMA OtherStepsKeepLists ==
    ASSUME TypeOK, PassInv, [Next]_vars, ~ \E a \in Target : BuildBlock(a)
    PROVE  /\ blocks' = blocks /\ image' = image
           /\ DOMAIN functions \subseteq DOMAIN functions'
           /\ \A f \in DOMAIN functions : functions[f].blocks # {} =>
                 functions'[f].blocks = functions[f].blocks
           /\ \A f \in DOMAIN functions' :
                 \/ f \in DOMAIN functions /\ functions'[f].blocks = functions[f].blocks
                 \/ functions'[f].blocks = {}
                 \/ BeginPass2 /\ f = cur
<1>0. IsFunctionMap(functions)
  BY DEF TypeOK, IsFunctionMap
<1>1. ASSUME SameLists(functions, functions')
      PROVE  /\ DOMAIN functions \subseteq DOMAIN functions'
             /\ \A f \in DOMAIN functions : functions[f].blocks # {} =>
                   functions'[f].blocks = functions[f].blocks
             /\ \A f \in DOMAIN functions' :
                   \/ f \in DOMAIN functions /\ functions'[f].blocks = functions[f].blocks
                   \/ functions'[f].blocks = {}
  BY <1>1 DEF SameLists
<1>2. CASE ScanPrologues
  <2> DEFINE R == Registered(functions, Prologues, "fn")
  <2>1. SameLists(functions, R) /\ IsFunctionMap(R)
    BY <1>0, RegisteringKeepsLists DEF Name
  <2>2. functions' = Registered(R, SectionStarts, "entry") /\ blocks' = blocks /\ image' = image
    BY <1>2 DEF ScanPrologues
  <2> HIDE DEF R
  <2>3. SameLists(R, Registered(R, SectionStarts, "entry"))
    BY <2>1, RegisteringKeepsLists DEF Name
  <2>4. SameLists(functions, functions')
    BY <2>1, <2>2, <2>3 DEF SameLists
  <2>5. QED BY <1>1, <2>2, <2>4
<1>3. ASSUME NEW S, NEW name \in Name, functions' = Registered(functions, S, name)
      PROVE  SameLists(functions, functions')
  BY <1>0, <1>3, RegisteringKeepsLists
<1>4. CASE DiscoverEntryPoint \/ ScanDataPointers \/ ScanTextPointers
  <2>1. ASSUME NEW here, NEW next, NEW S, NEW name \in Name, SeedFrom(here, next, S, name)
        PROVE  SameLists(functions, functions') /\ blocks' = blocks /\ image' = image
    BY <1>3, <2>1 DEF SeedFrom
  <2>2. SameLists(functions, functions') /\ blocks' = blocks /\ image' = image
    BY <1>4, <2>1 DEF DiscoverEntryPoint, ScanDataPointers, ScanTextPointers, Name
  <2>3. QED BY <1>1, <2>2
<1>5. CASE ScanRun
  <2>1. PICK called : functions' = Registered(functions, called, "sub")
    BY <1>5 DEF ScanRun
  <2>2. SameLists(functions, functions')
    BY <1>3, <2>1 DEF Name
  <2>3. blocks' = blocks /\ image' = image
    BY <1>5 DEF ScanRun
  <2>4. QED BY <1>1, <2>2, <2>3
<1>6. CASE \/ PopulateWorklist \/ Finish \/ EndFunction
           \/ \E a \in Exec : SkipAnalyzed(a) \/ BeginFunction(a)
           \/ \E a \in Target : SkipBlock(a)
           \/ UNCHANGED vars
  <2>1. functions' = functions /\ blocks' = blocks /\ image' = image
    BY <1>6 DEF PopulateWorklist, SkipAnalyzed, BeginFunction, Finish, EndFunction, SkipBlock,
                vars, cfgVars
  <2>2. QED BY <2>1
<1>7. CASE BeginPass2
  <2>1. /\ blocks' = blocks /\ image' = image /\ cur \in DOMAIN functions
        /\ functions' = WithBlocks(functions, cur, seeds) /\ seeds \in SUBSET Target
        /\ functions[cur].blocks = {}
    BY <1>7 DEF BeginPass2, TypeOK, PassInv
  <2>2. /\ DOMAIN functions' = DOMAIN functions
        /\ \A f \in DOMAIN functions \ {cur} : functions'[f] = functions[f]
    BY <1>0, <2>1, WithBlocksFacts
  <2>3. QED BY <1>7, <2>1, <2>2
<1>8. QED
  BY <1>2, <1>4, <1>5, <1>6, <1>7 DEF Next, Seeding, MainLoop, Done

(* Every step keeps each block fitting some list.                          *)
LEMMA NextBuilderInv ==
    ASSUME TypeOK, TypeOK', BoundaryInv, SeedInv, ScanInv, PassInv, BuilderInv, [Next]_vars
    PROVE  BuilderInv'
<1>1. CASE \E a \in Target : BuildBlock(a)
  BY <1>1, BuildingKeepsBuilderInv
<1>2. CASE ~ \E a \in Target : BuildBlock(a)
  <2>1. /\ blocks' = blocks /\ image' = image
        /\ DOMAIN functions \subseteq DOMAIN functions'
        /\ \A f \in DOMAIN functions : functions[f].blocks # {} =>
              functions'[f].blocks = functions[f].blocks
    BY <1>2, OtherStepsKeepLists
  <2>2. ASSUME NEW b \in DOMAIN blocks
        PROVE  FitsBlock(b)' /\ \E g \in DOMAIN functions' : FitsList(b, g)'
    <3>1. PICK g \in DOMAIN functions : FitsBlock(b) /\ FitsList(b, g)
      BY DEF BuilderInv
    <3>2. functions'[g].blocks = functions[g].blocks
      BY <2>1, <3>1 DEF FitsList
    <3>3. FitsBlock(b)' /\ FitsList(b, g)'
      BY <2>1, <3>1, <3>2, FitsStay
    <3>4. QED BY <2>1, <3>3
  <2>3. QED BY <2>1, <2>2 DEF BuilderInv
<1>3. QED BY <1>1, <1>2

(* A list that holds all it reaches still does when it is left alone.      *)
LEMMA ReachStays ==
    ASSUME image' = image, NEW g \in DOMAIN functions,
           functions'[g].blocks = functions[g].blocks,
           DOMAIN functions \subseteq DOMAIN functions',
           DOMAIN blocks \subseteq DOMAIN blocks', \A s \in DOMAIN blocks : blocks'[s] = blocks[s],
           ListsReached(g)
    PROVE  ListsReached(g)'
<1>1. JumpTableTargets(g)' = {} => JumpTableTargets(g) = {}
  BY JumpTableTargetsGrow
<1>2. code' = code
  BY DEF code
<1>3. ASSUME NEW b \in functions[g].blocks, NEW c \in Addr, Reaches(b, c)'
      PROVE  Reaches(b, c)
  BY <1>2, <1>3 DEF Reaches
<1>4. \A c \in Addr : LeadsTo(c)' = LeadsTo(c)
  BY <1>2 DEF LeadsTo, LocalTargets, CalledFunctions, ResumePoints,
              LooksLikeIndependentFunctionEntry, FollowsBoundary
<1>5. QED BY <1>1, <1>2, <1>3, <1>4 DEF ListsReached

(* A list is complete when its function is finished, and stays so.         *)
LEMMA NextReachInv ==
    ASSUME TypeOK, SeedInv, ScanInv, PassInv, ReachInv, [Next]_vars
    PROVE  ReachInv'
<1>1. phase = "build" => ListsReached(cur)
  <2> SUFFICES ASSUME phase = "build", JumpTableTargets(cur) = {},
                      NEW b \in functions[cur].blocks, NEW c \in Addr,
                      b <= c, Reaches(b, c), IsBranch(code[c]), c = b \/ c \notin DOMAIN functions
               PROVE  LeadsTo(c) \subseteq functions[cur].blocks
    BY DEF ListsReached
  <2>1. functions[cur].blocks = seeds
    BY DEF PassInv
  <2>2. QED BY <2>1, ReachedBranchIsSeeded
<1>2. \A g \in DOMAIN functions : ListsReached(g)
  <2> TAKE g \in DOMAIN functions
  <2>1. CASE phase = "build" /\ g = cur
    BY <1>1, <2>1
  <2>2. CASE ~(phase = "build" /\ g = cur)
    BY <2>2 DEF ReachInv
  <2>3. QED BY <2>1, <2>2
<1>3. /\ image' = image /\ DOMAIN functions \subseteq DOMAIN functions'
      /\ DOMAIN blocks \subseteq DOMAIN blocks' /\ \A s \in DOMAIN blocks : blocks'[s] = blocks[s]
      /\ \A f \in DOMAIN functions' :
            \/ f \in DOMAIN functions /\ functions'[f].blocks = functions[f].blocks
            \/ functions'[f].blocks = {}
            \/ phase' = "build" /\ f = cur'
  <2>1. CASE \E a \in Target : BuildBlock(a)
    <3>1. PICK a \in Target : BuildBlock(a)
      BY <2>1
    <3>2. PICK c \in a..(MaxAddr + 1), called \in SUBSET Exec,
               queued \in SUBSET Target, jumps \in SUBSET Target :
                  BuildMaps(a, c, called, queued, jumps)
      BY <3>1, BuildBlockMaps
    <3>3. image' = image /\ phase' = "build" /\ cur' = cur
      BY <3>1 DEF BuildBlock
    <3>4. QED BY <3>2, <3>3 DEF BuildMaps
  <2>2. CASE ~ \E a \in Target : BuildBlock(a)
    <3>1. BeginPass2 => phase' = "build" /\ cur' = cur
      BY DEF BeginPass2
    <3>2. QED BY <2>2, <3>1, OtherStepsKeepLists
  <2>3. QED BY <2>1, <2>2
<1>4. ASSUME NEW f \in DOMAIN functions', ~(phase' = "build" /\ f = cur')
      PROVE  ListsReached(f)'
  <2>1. CASE f \in DOMAIN functions /\ functions'[f].blocks = functions[f].blocks
    BY <1>2, <1>3, <2>1, ReachStays
  <2>2. CASE functions'[f].blocks = {}
    BY <2>2 DEF ListsReached
  <2>3. QED BY <1>3, <1>4, <2>1, <2>2
<1>5. QED BY <1>4 DEF ReachInv

(* The invariants together, from those of the analyzer.                    *)
LEMMA BuilderInvHolds == Spec => [](BoundaryInv /\ PassInv /\ BuilderInv /\ ReachInv)
<1>1. Init => BoundaryInv /\ SeedInv /\ ScanInv /\ PassInv /\ BuilderInv /\ ReachInv
  BY DEF Init, BoundaryInv, NoBlockRunsIntoAFunction, SeedInv, ScanInv, PassInv, BuilderInv,
         ReachInv
<1>2. TypeOK /\ TypeOK' /\ BoundaryInv /\ [Next]_vars => BoundaryInv'
  BY NextBoundaryInv
<1>3. TypeOK /\ SeedInv /\ [Next]_vars => SeedInv'
  BY NextSeedInv
<1>4. TypeOK /\ TypeOK' /\ SeedInv /\ SeedInv' /\ BoundaryInv /\ ScanInv /\ [Next]_vars => ScanInv'
  BY NextScanInv
<1>5. TypeOK /\ TypeOK' /\ WorklistInv /\ BoundaryInv /\ SeedInv /\ ScanInv /\ PassInv /\ [Next]_vars
        => PassInv'
  BY NextPassInv
<1>6. TypeOK /\ TypeOK' /\ BoundaryInv /\ SeedInv /\ ScanInv /\ PassInv /\ BuilderInv /\ [Next]_vars
        => BuilderInv'
  BY NextBuilderInv
<1>7. TypeOK /\ SeedInv /\ ScanInv /\ PassInv /\ ReachInv /\ [Next]_vars => ReachInv'
  BY NextReachInv
<1>8. QED BY <1>1, <1>2, <1>3, <1>4, <1>5, <1>6, <1>7, Inductive, PTL DEF Spec

-----------------------------------------------------------------------------
(* emitFunction's worklist over successors ends at the least closed set of *)
(* labels: that set exists, it is the intersection of all closed ones.     *)
LEMMA EmittedFacts ==
    ASSUME NEW f
    PROVE  /\ EmittedBlocks(f) \subseteq DOMAIN blocks
           /\ IsClosed(f, EmittedBlocks(f))
           /\ \A T \in SUBSET EmittedBlocks(f) : IsClosed(f, T) => T = EmittedBlocks(f)
<1> DEFINE P(S) == IsClosed(f, S) /\ \A T \in SUBSET S : IsClosed(f, T) => T = S
           M == {s \in DOMAIN blocks : \A S \in SUBSET DOMAIN blocks : IsClosed(f, S) => s \in S}
<1>1. IsClosed(f, M)
  <2>1. Listed(f) \cup (JumpTableTargets(f) \cap DOMAIN blocks) \subseteq M
    BY DEF IsClosed, Listed
  <2>2. ASSUME NEW b \in M \ Listed(f), NEW s \in blocks[b].successors \cap DOMAIN blocks
        PROVE  s \in M
    <3>1. ASSUME NEW S \in SUBSET DOMAIN blocks, IsClosed(f, S) PROVE s \in S
      BY <2>2, <3>1 DEF IsClosed
    <3>2. QED BY <2>2, <3>1
  <2>3. QED BY <2>1, <2>2 DEF IsClosed
<1>2. ASSUME NEW T \in SUBSET M, IsClosed(f, T) PROVE T = M
  BY <1>2
<1>3. M \in SUBSET DOMAIN blocks /\ P(M)
  BY <1>1, <1>2
<1>4. EmittedBlocks(f) = CHOOSE S \in SUBSET DOMAIN blocks : P(S)
  BY DEF EmittedBlocks
<1> HIDE DEF M, P
<1>5. EmittedBlocks(f) \in SUBSET DOMAIN blocks /\ P(EmittedBlocks(f))
  BY <1>3, <1>4
<1>6. QED BY <1>5 DEF P

(* Listed blocks have labels, and without a jump table no others have.     *)
LEMMA ListedAreEmitted ==
    ASSUME NEW f
    PROVE  /\ Listed(f) \subseteq EmittedBlocks(f)
           /\ JumpTableTargets(f) = {} => EmittedBlocks(f) = Listed(f)
<1>1. Listed(f) \subseteq EmittedBlocks(f)
  BY EmittedFacts DEF IsClosed
<1>2. ASSUME JumpTableTargets(f) = {} PROVE EmittedBlocks(f) = Listed(f)
  <2>1. IsClosed(f, Listed(f))
    BY <1>2 DEF IsClosed
  <2>2. QED BY <1>1, <2>1, EmittedFacts
<1>3. QED BY <1>1, <1>2

(* The dispatch table names a function: the address itself, or one that    *)
(* lists it.                                                               *)
LEMMA DispatchNamesAFunction ==
    ASSUME TypeOK, NEW a \in Dispatched
    PROVE  /\ DispatchTargets[a] \in DOMAIN functions
           /\ DispatchTargets[a] = a \/ a \in functions[DispatchTargets[a]].blocks
<1>1. CASE a \in DOMAIN functions
  BY <1>1 DEF DispatchTargets, IsFunction
<1>2. CASE a \notin DOMAIN functions
  <2> DEFINE L == {f \in DOMAIN functions : a \in functions[f].blocks}
             g == CHOOSE f \in DOMAIN functions : Lister(a, f)
  <2>1. L \in SUBSET Nat /\ L # {}
    <3>1. DOMAIN functions \subseteq Nat
      BY ImageAssumption DEF TypeOK
    <3>2. \E f \in DOMAIN functions : a \in functions[f].blocks
      BY <1>2 DEF Dispatched
    <3>3. QED BY <3>1, <3>2
  <2>2. PICK f \in L : \A h \in L : f <= h
    BY <2>1, LeastExists
  <2>3. f \in DOMAIN functions /\ Lister(a, f)
    BY <2>2 DEF Lister
  <2>4. g \in DOMAIN functions /\ Lister(a, g)
    BY <2>3
  <2>5. DispatchTargets[a] = g
    BY <1>2 DEF DispatchTargets, IsFunction
  <2> HIDE DEF g
  <2>6. QED BY <2>4, <2>5 DEF Lister
<1>3. QED BY <1>1, <1>2

(* The address call_by_addr looked up has a label in the function it       *)
(* enters, for every image: the dispatch table and the labels, which are   *)
(* computed apart, agree.                                                  *)
THEOREM DispatchFindsItsLabel == Spec => []DispatchLandsOnLabel
<1>1. TypeOK /\ EntryLabelExists /\ EveryListedBlockBuilt => DispatchLandsOnLabel
  <2> SUFFICES ASSUME TypeOK, EntryLabelExists, EveryListedBlockBuilt, phase = "done",
                      NEW a \in Dispatched, a \in Exec
               PROVE  a \in EmittedBlocks(DispatchTargets[a])
    BY DEF DispatchLandsOnLabel
  <2>1. PICK g : g = DispatchTargets[a]
    OBVIOUS
  <2>2. g \in DOMAIN functions /\ (g = a \/ a \in functions[g].blocks)
    BY <2>1, DispatchNamesAFunction
  <2>3. a \in Listed(g)
    BY <2>2 DEF EntryLabelExists, EveryListedBlockBuilt, Listed
  <2>4. QED BY <2>1, <2>3, ListedAreEmitted
<1>2. QED BY <1>1, TypeCorrect, EntryLabelsExist, ListedBlocksAreBuilt, PTL

(* A direct transfer to code is a goto or finds its target in the dispatch *)
(* table, for every image: no transfer is lost between the two.            *)
THEOREM DirectTransfersResolve == Spec => []TransfersResolve
<1>1. TypeOK /\ BuilderInv => TransfersResolve
  <2> SUFFICES ASSUME TypeOK, BuilderInv, NEW f \in DOMAIN functions, NEW b \in EmittedBlocks(f),
                      NEW t \in DirectTargets(b), t \in Exec
               PROVE  t \in Dispatched
    BY DEF TransfersResolve
  <2>1. b \in DOMAIN blocks
    BY EmittedFacts
  <2>2. PICK g \in DOMAIN functions : FitsBlock(b) /\ FitsList(b, g)
    BY <2>1 DEF BuilderInv
  <2>3. t = End(b).target /\ HasDirectTarget(End(b))
    BY DEF DirectTargets
  <2>4. IsBranch(End(b))
    <3>1. blocks[b].last \in Addr
      BY <2>1 DEF TypeOK, BasicBlock
    <3>2. End(b) \in Instruction
      BY <3>1 DEF End, code, TypeOK, ImageType, Code
    <3>3. QED BY <2>3, <3>2 DEF Instruction, IsBranch, HasDirectTarget
  <2>5. CASE t \in CalledFunctions(End(b))
    <3>1. t \in DOMAIN functions
      BY <2>2, <2>4, <2>5 DEF FitsBlock
    <3>2. QED BY <3>1 DEF Dispatched
  <2>6. CASE t \notin CalledFunctions(End(b))
    <3>1. t \in LocalTargets(End(b))
      BY <2>3, <2>6 DEF LocalTargets
    <3>2. t \in Onward(b)
      BY <2>4, <3>1 DEF Onward, LeadsTo, End
    <3>3. QED BY <2>2, <3>2 DEF FitsList, Dispatched
  <2>7. QED BY <2>5, <2>6
<1>2. QED BY <1>1, TypeCorrect, BuilderInvHolds, PTL

(* What the guest may go on with is a label of the body: of a block that   *)
(* is listed, by the function that built it or because pass 1 of this one  *)
(* reached it, and of any other block because its successors are emitted.  *)
LEMMA OnwardIsEmitted ==
    ASSUME TypeOK, BuilderInv, EveryListedBlockBuilt, phase = "done",
           NEW f \in DOMAIN functions, SharesNoBlock(f), NEW b \in EmittedBlocks(f)
    PROVE  Onward(b) \cap Exec \subseteq EmittedBlocks(f)
<1>1. b \in DOMAIN blocks
  BY EmittedFacts
<1>2. PICK g \in DOMAIN functions : FitsBlock(b) /\ FitsList(b, g)
  BY <1>1 DEF BuilderInv
<1>3. Onward(b) \cap Exec \subseteq DOMAIN blocks
  BY <1>2 DEF FitsList, EveryListedBlockBuilt
<1>4. CASE b \in Listed(f)
  <2>1. b \in Listed(g)
    BY <1>1, <1>2 DEF Listed, FitsList
  <2>2. g = f
    BY <1>4, <2>1 DEF SharesNoBlock
  <2>3. Onward(b) \cap Exec \subseteq Listed(f)
    BY <1>2, <1>3, <2>2 DEF FitsList, Listed
  <2>4. QED BY <2>3, ListedAreEmitted
<1>5. CASE b \notin Listed(f)
  BY <1>2, <1>3, <1>5, EmittedFacts DEF FitsBlock, IsClosed
<1>6. QED BY <1>4, <1>5

(* A label stands for a block, and its block fits the list of its builder. *)
LEMMA EmittedFitSomeList ==
    ASSUME BuilderInv, NEW f, NEW b \in EmittedBlocks(f)
    PROVE  b \in DOMAIN blocks /\ FitsBlock(b) /\ \E g \in DOMAIN functions : FitsList(b, g)
BY EmittedFacts DEF BuilderInv

(* A return after a local call finds the label behind the call, for every  *)
(* image, in the bodies ResumeLabelsExist is about.                        *)
THEOREM ResumesFindTheirLabel == Spec => []ResumeLabelsExist
<1>1. TypeOK /\ BoundaryInv /\ BuilderInv /\ ReachInv /\ EveryListedBlockBuilt => ResumeLabelsExist
  <2> SUFFICES ASSUME TypeOK, BoundaryInv, BuilderInv, ReachInv, EveryListedBlockBuilt,
                      phase = "done", NEW f \in DOMAIN functions,
                      JumpTableTargets(f) = {} \/ SharesNoBlock(f),
                      NEW b \in EmittedBlocks(f), IsLocalCall(EmittedBlocks(f), b),
                      Continuation(b) \in Exec
               PROVE  Continuation(b) \in EmittedBlocks(f)
    BY DEF ResumeLabelsExist, LocalResumeTargets
  <2>1. /\ b \in DOMAIN blocks /\ IsBranch(End(b)) /\ End(b).type = "Call"
        /\ blocks[b].last \in Addr
    BY EmittedFacts DEF IsLocalCall, IsBranch, TypeOK, BasicBlock
  <2>2. Continuation(b) \in LeadsTo(blocks[b].last)
    BY <2>1 DEF LeadsTo, ResumePoints, Continuation, End
  <2>3. CASE SharesNoBlock(f)
    <3>1. Onward(b) \cap Exec \subseteq EmittedBlocks(f)
      BY <2>3, OnwardIsEmitted
    <3>2. QED BY <2>1, <2>2, <3>1 DEF Onward
  <2>4. CASE JumpTableTargets(f) = {}
    <3> DEFINE c == blocks[b].last
    <3>1. b \in functions[f].blocks
      BY <2>4, ListedAreEmitted DEF Listed
    <3>2. Reaches(b, c) /\ ~(\E h \in DOMAIN functions : b < h /\ h <= c)
      <4>1. \A d \in b..(c - 1) : d \in Addr /\ ~IsBranch(code[d])
        BY <2>1 DEF BoundaryInv
      <4>2. \A h \in DOMAIN functions : ~(b < h /\ h <= c)
        BY <2>1 DEF BoundaryInv, NoBlockRunsIntoAFunction
      <4>3. \A h \in DOMAIN functions : h \in Int
        BY ImageAssumption DEF TypeOK
      <4>4. c \in Int
        BY <2>1 DEF Addr
      <4> HIDE DEF c
      <4>5. QED BY <4>1, <4>2, <4>3, <4>4 DEF Reaches
    <3>3. b <= c
      BY EmittedFitSomeList DEF FitsBlock
    <3>4. c = b \/ c \notin DOMAIN functions
      <4>1. b \in Int /\ c \in Int
        BY <2>1, ImageAssumption DEF TypeOK, Addr
      <4>2. QED BY <3>2, <3>3, <4>1
    <3>5. LeadsTo(c) \subseteq functions[f].blocks
      <4>1. ListsReached(f) /\ IsBranch(code[c])
        BY <2>1 DEF ReachInv, End
      <4>2. QED BY <2>1, <2>4, <3>1, <3>2, <3>3, <3>4, <4>1 DEF ListsReached
    <3>6. Continuation(b) \in Listed(f)
      BY <2>2, <3>5 DEF EveryListedBlockBuilt, Listed
    <3>7. QED BY <3>6, ListedAreEmitted
  <2>5. QED BY <2>3, <2>4
<1>2. QED BY <1>1, TypeCorrect, BuilderInvHolds, ListedBlocksAreBuilt, PTL

(* What IsNextLabel asks beyond the label being there.                     *)
LEMMA NextLabelFacts ==
    ASSUME TypeOK, NEW f, NEW b \in EmittedBlocks(f), b <= blocks[b].last,
           Continuation(b) \in EmittedBlocks(f),
           \A x \in EmittedBlocks(f) : ~(b < x /\ x <= blocks[b].last)
    PROVE  IsNextLabel(EmittedBlocks(f), b, Continuation(b))
<1>1. \A x \in EmittedBlocks(f) : x \in Int
  BY EmittedFacts, ImageAssumption DEF TypeOK
<1>2. blocks[b].last \in Int
  BY EmittedFacts DEF TypeOK, BasicBlock, Addr
<1> DEFINE last == blocks[b].last
<1>3. Continuation(b) = last + 1
  BY DEF Continuation
<1>4. b \in Int /\ last \in Int /\ b <= last /\ \A x \in EmittedBlocks(f) : ~(b < x /\ x <= last)
  BY <1>1, <1>2
<1> HIDE DEF last
<1>5. last + 1 > b /\ \A x \in EmittedBlocks(f) : x > b => last + 1 <= x
  BY <1>1, <1>4
<1>6. QED BY <1>3, <1>5 DEF IsNextLabel

(* Control that runs off a block reaches the word behind it, for every     *)
(* image, in the bodies FallThroughReachesNextWord is about.               *)
THEOREM FallThroughIsSound == Spec => []FallThroughReachesNextWord
<1>1. TypeOK /\ BuilderInv /\ EveryListedBlockBuilt => FallThroughReachesNextWord
  <2> SUFFICES ASSUME TypeOK, BuilderInv, EveryListedBlockBuilt,
                      phase = "done", NEW f \in DOMAIN functions, SharesNoBlock(f),
                      JumpTableTargets(f) = {} \/ ~Overlap(f),
                      NEW b \in EmittedBlocks(f), FallsThrough(EmittedBlocks(f), b),
                      Continuation(b) \in Exec
               PROVE  IsNextLabel(EmittedBlocks(f), b, Continuation(b))
    BY DEF FallThroughReachesNextWord, FallThroughIsNext
  <2>1. PICK g \in DOMAIN functions : FitsBlock(b) /\ FitsList(b, g)
    BY EmittedFitSomeList
  <2>2. Continuation(b) \in Onward(b)
    <3>1. CASE IsBranch(End(b))
      <4>1. End(b).type \in {"Call", "ConditionalBranch"}
        BY <3>1 DEF FallsThrough, IsBranch
      <4>2. QED BY <3>1, <4>1 DEF Onward, LeadsTo, ResumePoints, Continuation, End
    <3>2. CASE ~IsBranch(End(b))
      BY <3>2 DEF Onward
    <3>3. QED BY <3>1, <3>2
  <2>3. Continuation(b) \in EmittedBlocks(f)
    <3>1. Onward(b) \cap Exec \subseteq EmittedBlocks(f)
      BY OnwardIsEmitted
    <3>2. QED BY <2>2, <3>1
  <2>4. \A x \in EmittedBlocks(f) : ~(b < x /\ x <= blocks[b].last)
    <3>1. CASE JumpTableTargets(f) = {}
      <4>1. EmittedBlocks(f) = Listed(f)
        BY <3>1, ListedAreEmitted
      <4>2. b \in Listed(g) /\ b \in Listed(f)
        BY <2>1, <4>1, EmittedFacts DEF FitsList, Listed
      <4>3. g = f
        BY <4>2 DEF SharesNoBlock
      <4>4. QED BY <2>1, <3>1, <4>1, <4>3 DEF FitsList, Listed
    <3>2. CASE ~Overlap(f)
      BY <3>2 DEF Overlap
    <3>3. QED BY <3>1, <3>2
  <2>5. QED BY <2>1, <2>3, <2>4, NextLabelFacts DEF FitsBlock
<1>2. QED BY <1>1, TypeCorrect, BuilderInvHolds, ListedBlocksAreBuilt, PTL
====
