---------------------------- MODULE OutputProofs ----------------------------
(***************************************************************************)
(* The output directory, for any programs, batch size, hooks and texts,    *)
(* and with any number of runs, crashes, failures and edits: that is what  *)
(* the bounds stand for when they are arbitrary.                           *)
(***************************************************************************)
EXTENDS OutputDir, TLAPS

-----------------------------------------------------------------------------
(* The tables of the patches.                                              *)

(* A hunk whose anchor stays leaves the marker that guards its group.      *)
GroupOK(f, g) ==
    \A i \in g.hunks : i \in All(f) /\ (HunksOf[f][i].stays => g.guard \in HunksOf[f][i].marks)

LEMMA HunkTable ==
    /\ PatchedNames = {"hle_stubs", "shader", "internal", "gx", "texture", "mtx", "pad"}
    /\ HunksOf["hle_stubs"] = HleHunks /\ HunksOf["shader"] = ShaderHunks
    /\ HunksOf["internal"] = InternalHunks /\ HunksOf["gx"] = GxHunks
    /\ HunksOf["texture"] = TextureHunks /\ HunksOf["mtx"] = MtxHunks
    /\ HunksOf["pad"] = PadHunks
  BY DEF PatchedNames, HunksOf

LEMMA GroupTable ==
    /\ GroupsOf["hle_stubs"] = HleGroups
    /\ GroupsOf["shader"] = <<Group("chan", All("shader"))>>
    /\ GroupsOf["internal"] = <<Group("chan", All("internal"))>>
    /\ GroupsOf["gx"] = <<Group("none", All("gx"))>>
    /\ GroupsOf["texture"] = <<Group("cmpr", All("texture"))>>
    /\ GroupsOf["mtx"] = <<Group("alias", All("mtx"))>>
    /\ GroupsOf["pad"] = <<Group("pad", All("pad"))>>
  BY DEF GroupsOf

LEMMA GroupsOK ==
    \A f \in PatchedNames : \A n \in 1..Len(GroupsOf[f]) : GroupOK(f, GroupsOf[f][n])
  <1>1. \A n \in 1..3 : GroupOK("hle_stubs", HleGroups[n])
    BY HunkTable DEF GroupOK, HleGroups, Group, All, HleHunks, Hunk
  <1>2. GroupOK("shader", Group("chan", All("shader")))
    BY HunkTable DEF GroupOK, Group, All, ShaderHunks, Hunk
  <1>3. GroupOK("internal", Group("chan", All("internal")))
    BY HunkTable DEF GroupOK, Group, All, InternalHunks, Hunk
  <1>4. GroupOK("gx", Group("none", All("gx")))
    BY HunkTable DEF GroupOK, Group, All, GxHunks, Hunk
  <1>5. GroupOK("texture", Group("cmpr", All("texture")))
    BY HunkTable DEF GroupOK, Group, All, TextureHunks, Hunk
  <1>6. GroupOK("mtx", Group("alias", All("mtx")))
    BY HunkTable DEF GroupOK, Group, All, MtxHunks, Hunk
  <1>7. GroupOK("pad", Group("pad", All("pad")))
    BY HunkTable DEF GroupOK, Group, All, PadHunks, Hunk
  <1>8. Len(HleGroups) = 3
    BY DEF HleGroups
  <1>. QED BY <1>1, <1>2, <1>3, <1>4, <1>5, <1>6, <1>7, <1>8, HunkTable, GroupTable

(* But for the stubs, a text is patched as a whole or not at all.          *)
LEMMA SingleGroup ==
    \A f \in PatchedNames \ {"hle_stubs"} :
        Len(GroupsOf[f]) = 1 /\ GroupsOf[f][1].hunks = All(f)
  BY HunkTable, GroupTable DEF Group

LEMMA HunkCounts ==
    /\ Len(HleHunks) = 4 /\ Len(ShaderHunks) = 5 /\ Len(InternalHunks) = 2
    /\ Len(GxHunks) = 6 /\ Len(TextureHunks) = 2 /\ Len(MtxHunks) = 1 /\ Len(PadHunks) = 4
  BY DEF HleHunks, ShaderHunks, InternalHunks, GxHunks, TextureHunks, MtxHunks, PadHunks

LEMMA TextsHaveHunks == \A f \in PatchedNames : 1 \in All(f)
  <1>1. \A f \in PatchedNames : Len(HunksOf[f]) \in 1..6
    BY HunkTable, HunkCounts
  <1>. QED BY <1>1 DEF All

LEMMA NeedsAreInTheText ==
    \A f \in PatchedNames : \A i \in All(f) : HunksOf[f][i].needs \subseteq All(f)
  <1>1. \A i \in 1..4 : HleHunks[i].needs \subseteq 1..4
    BY DEF HleHunks, Hunk
  <1>2. \A i \in 1..5 : ShaderHunks[i].needs \subseteq 1..5
    BY DEF ShaderHunks, Hunk
  <1>3. \A i \in 1..2 : InternalHunks[i].needs \subseteq 1..2
    BY DEF InternalHunks, Hunk
  <1>4. \A i \in 1..6 : GxHunks[i].needs \subseteq 1..6
    BY DEF GxHunks, Hunk
  <1>5. \A i \in 1..2 : TextureHunks[i].needs \subseteq 1..2
    BY DEF TextureHunks, Hunk
  <1>6. \A i \in 1..1 : MtxHunks[i].needs \subseteq 1..1
    BY DEF MtxHunks, Hunk
  <1>7. \A i \in 1..4 : PadHunks[i].needs \subseteq 1..4
    BY DEF PadHunks, Hunk
  <1>. QED BY <1>1, <1>2, <1>3, <1>4, <1>5, <1>6, <1>7, HunkCounts, HunkTable DEF All

-----------------------------------------------------------------------------
(* What holds of a text at any time.  No hunk is in it twice, and one that *)
(* could be applied again leaves its marker.                               *)
Once(f, t) ==
    \A i \in All(f) :
        t.applied[i] <= 1 /\ (i \in t.anchors /\ t.applied[i] > 0 => HunksOf[f][i].stays)

(* An anchor is there until its hunk is applied.  A hunk is applied after, *)
(* or together with, those that it needs and whose anchors the text had.   *)
NeedsMet(f, t) ==
    t.whole =>
        /\ t.anchors \subseteq t.origin
        /\ \A i \in t.origin : i \in t.anchors \/ t.applied[i] > 0
        /\ \A i \in All(f) : t.applied[i] > 0 =>
              /\ i \in t.origin
              /\ \A j \in HunksOf[f][i].needs : j \in t.origin => t.applied[j] > 0

(* A text in good order: of its type, no hunk twice, none without the      *)
(* hunks it refers to.                                                     *)
TextOK(f, t) == t \in Text(f) /\ Once(f, t) /\ NeedsMet(f, t)

(* The group has nothing to do in the text.                                *)
SettledBy(f, t, g) == g.guard \in Markers(f, t) \/ g.hunks \cap t.anchors = {}

(* A text on which patching would change nothing.                          *)
Settled(f, t) == \A n \in 1..Len(GroupsOf[f]) : SettledBy(f, t, GroupsOf[f][n])

LEMMA TextIsThere ==
    ASSUME NEW f \in PatchedNames, NEW t \in Text(f)
    PROVE  t # NoText
  <1>1. DOMAIN t.applied = All(f) /\ DOMAIN NoText.applied = {}
    BY DEF Text, NoText
  <1>. QED BY <1>1, TextsHaveHunks

(* What a group that is not guarded makes of the text, spelled out.        *)
Applies(f, t, g, u) ==
    /\ u \in Text(f)
    /\ u.origin = t.origin /\ u.hooks = t.hooks /\ u.whole = t.whole
    /\ \A i \in All(f) :
          /\ u.applied[i] = IF i \in g.hunks \cap t.anchors THEN t.applied[i] + 1
                            ELSE t.applied[i]
          /\ i \in u.anchors <=> i \in t.anchors /\ (i \in g.hunks => HunksOf[f][i].stays)

LEMMA GroupApplies ==
    ASSUME NEW f \in PatchedNames, NEW t \in Text(f), NEW g, g.guard \notin Markers(f, t)
    PROVE  Applies(f, t, g, ApplyGroup(f, t, g))
  <1>. DEFINE hit == g.hunks \cap t.anchors
              more == [i \in All(f) |-> IF i \in hit THEN t.applied[i] + 1 ELSE t.applied[i]]
              less == {i \in t.anchors : i \in hit => HunksOf[f][i].stays}
              u == ApplyGroup(f, t, g)
  <1>1. u = [t EXCEPT !.applied = more, !.anchors = less]
    BY DEF ApplyGroup
  <1>2. more \in [All(f) -> Nat] /\ less \in SUBSET All(f)
    BY DEF Text
  <1>. HIDE DEF more, less
  <1>3. /\ u \in Text(f) /\ u.applied = more /\ u.anchors = less
        /\ u.origin = t.origin /\ u.hooks = t.hooks /\ u.whole = t.whole
    BY <1>1, <1>2 DEF Text
  <1>. HIDE DEF u
  <1>4. \A i \in All(f) :
          /\ more[i] = IF i \in hit THEN t.applied[i] + 1 ELSE t.applied[i]
          /\ i \in less <=> i \in t.anchors /\ (i \in g.hunks => HunksOf[f][i].stays)
    BY DEF more, less
  <1>5. Applies(f, t, g, u)
    BY <1>3, <1>4 DEF Applies
  <1>. QED BY <1>5 DEF u

LEMMA GroupPasses ==
    ASSUME NEW f, NEW t, NEW g, g.guard \in Markers(f, t)
    PROVE  ApplyGroup(f, t, g) = t
  BY DEF ApplyGroup

LEMMA MarkersOf ==
    ASSUME NEW f, NEW t, NEW i \in All(f), t.applied[i] > 0
    PROVE  HunksOf[f][i].marks \subseteq Markers(f, t)
  BY DEF Markers

LEMMA ApplyKeepsType ==
    ASSUME NEW f \in PatchedNames, NEW t \in Text(f), NEW g
    PROVE  LET u == ApplyGroup(f, t, g)
           IN  /\ u \in Text(f)
               /\ u.origin = t.origin /\ u.hooks = t.hooks /\ u.whole = t.whole
               /\ u.anchors \subseteq t.anchors
               /\ \A i \in All(f) : t.applied[i] > 0 => u.applied[i] > 0
  <1>1. CASE g.guard \in Markers(f, t)
    BY <1>1, GroupPasses
  <1>2. CASE g.guard \notin Markers(f, t)
    <2>. DEFINE u == ApplyGroup(f, t, g)
    <2>1. Applies(f, t, g, u)
      BY <1>2, GroupApplies
    <2>. HIDE DEF u
    <2>2. /\ \A i \in All(f) : t.applied[i] \in Nat
          /\ t.anchors \subseteq All(f) /\ u.anchors \subseteq All(f)
      BY <2>1 DEF Text, Applies
    <2>3. /\ u \in Text(f)
          /\ u.origin = t.origin /\ u.hooks = t.hooks /\ u.whole = t.whole
          /\ u.anchors \subseteq t.anchors
          /\ \A i \in All(f) : t.applied[i] > 0 => u.applied[i] > 0
      BY <2>1, <2>2 DEF Applies
    <2>. QED BY <2>3 DEF u
  <1>. QED BY <1>1, <1>2

(* Whichever hunk could be applied a second time has its group guarded.    *)
LEMMA ApplyKeepsOnce ==
    ASSUME NEW f \in PatchedNames, NEW t \in Text(f), Once(f, t), NEW g, GroupOK(f, g)
    PROVE  Once(f, ApplyGroup(f, t, g))
  <1>1. CASE g.guard \in Markers(f, t)
    BY <1>1, GroupPasses
  <1>2. CASE g.guard \notin Markers(f, t)
    <2>. DEFINE u == ApplyGroup(f, t, g)
                hit == g.hunks \cap t.anchors
    <2>0. Applies(f, t, g, u)
      BY <1>2, GroupApplies
    <2>. HIDE DEF u
    <2>1. /\ t.anchors \subseteq All(f) /\ u.anchors \subseteq All(f)
          /\ \A i \in All(f) :
                /\ i \in u.anchors <=> i \in t.anchors /\ (i \in hit => HunksOf[f][i].stays)
                /\ u.applied[i] = IF i \in hit THEN t.applied[i] + 1 ELSE t.applied[i]
      BY <2>0 DEF Applies, Text
    <2>2. ASSUME NEW i \in All(f)
          PROVE  u.applied[i] <= 1 /\ (i \in u.anchors /\ u.applied[i] > 0 => HunksOf[f][i].stays)
      <3>1. CASE i \in hit
        <4>1. ~(t.applied[i] > 0)
          <5>1. SUFFICES ASSUME t.applied[i] > 0
                         PROVE  FALSE
            OBVIOUS
          <5>2. HunksOf[f][i].stays
            BY <3>1, <5>1 DEF Once
          <5>3. g.guard \in HunksOf[f][i].marks
            BY <3>1, <5>2 DEF GroupOK
          <5>. QED BY <1>2, <5>1, <5>3, MarkersOf
        <4>2. t.applied[i] = 0
          BY <4>1 DEF Text
        <4>. QED BY <2>1, <3>1, <4>2
      <3>2. CASE i \notin hit
        BY <2>1, <3>2 DEF Once
      <3>. QED BY <3>1, <3>2
    <2>. QED BY <2>2 DEF Once, u
  <1>. QED BY <1>1, <1>2

(* Needs are met if the group brings them along or an earlier one did.     *)
LEMMA ApplyKeepsNeeds ==
    ASSUME NEW f \in PatchedNames, NEW t \in Text(f), NeedsMet(f, t), NEW g,
           t.whole /\ g.guard \notin Markers(f, t) =>
               \A i \in g.hunks \cap t.anchors : \A j \in HunksOf[f][i].needs :
                   j \in t.origin => t.applied[j] > 0 \/ j \in g.hunks
    PROVE  NeedsMet(f, ApplyGroup(f, t, g))
  <1>1. CASE g.guard \in Markers(f, t)
    BY <1>1, GroupPasses
  <1>2. CASE g.guard \notin Markers(f, t) /\ t.whole
    <2>. DEFINE u == ApplyGroup(f, t, g)
                hit == g.hunks \cap t.anchors
    <2>0. Applies(f, t, g, u)
      BY <1>2, GroupApplies
    <2>. HIDE DEF u
    <2>1. /\ t.anchors \subseteq All(f) /\ u.anchors \subseteq All(f)
          /\ \A i \in All(f) :
                /\ i \in u.anchors <=> i \in t.anchors /\ (i \in hit => HunksOf[f][i].stays)
                /\ u.applied[i] = IF i \in hit THEN t.applied[i] + 1 ELSE t.applied[i]
          /\ u.origin = t.origin
      BY <2>0 DEF Applies, Text
    <2>2. /\ \A i \in All(f) : t.applied[i] \in Nat
          /\ t.origin \subseteq All(f) /\ t.anchors \subseteq All(f)
      BY DEF Text
    <2>3. /\ t.anchors \subseteq t.origin
          /\ \A i \in t.origin : i \in t.anchors \/ t.applied[i] > 0
          /\ \A i \in All(f) : t.applied[i] > 0 =>
                /\ i \in t.origin
                /\ \A j \in HunksOf[f][i].needs : j \in t.origin => t.applied[j] > 0
      BY <1>2 DEF NeedsMet
    <2>4. \A i \in All(f) : /\ i \in hit => u.applied[i] > 0
                            /\ t.applied[i] > 0 => u.applied[i] > 0
                            /\ u.applied[i] > 0 => i \in hit \/ t.applied[i] > 0
      BY <2>1, <2>2
    <2>5. u.anchors \subseteq u.origin
      BY <2>1, <2>3
    <2>6. \A i \in u.origin : i \in u.anchors \/ u.applied[i] > 0
      BY <2>1, <2>2, <2>3, <2>4
    <2>7. ASSUME NEW i \in All(f), u.applied[i] > 0, NEW j \in HunksOf[f][i].needs,
                 j \in u.origin
          PROVE  u.applied[j] > 0
      <3>1. j \in t.origin /\ j \in All(f)
        BY <2>1, <2>2, <2>7
      <3>2. CASE t.applied[j] > 0
        BY <2>4, <3>1, <3>2
      <3>3. CASE ~(t.applied[j] > 0)
        <4>1. i \in hit
          BY <2>3, <2>4, <2>7, <3>1, <3>3
        <4>2. j \in g.hunks
          BY <1>2, <3>1, <3>3, <4>1
        <4>3. j \in hit
          BY <2>3, <3>1, <3>3, <4>2
        <4>. QED BY <2>4, <3>1, <4>3
      <3>. QED BY <3>2, <3>3
    <2>8. \A i \in All(f) : u.applied[i] > 0 => i \in u.origin
      BY <2>1, <2>3, <2>4
    <2>. QED BY <2>5, <2>6, <2>7, <2>8 DEF NeedsMet, u
  <1>3. CASE g.guard \notin Markers(f, t) /\ ~t.whole
    <2>1. ~ApplyGroup(f, t, g).whole
      BY <1>3, GroupApplies DEF Applies
    <2>. QED BY <2>1 DEF NeedsMet
  <1>. QED BY <1>1, <1>2, <1>3

(* A group that was gone over has nothing left to do, and leaves nothing   *)
(* to do for those before it.                                              *)
LEMMA ApplySettles ==
    ASSUME NEW f \in PatchedNames, NEW t \in Text(f), NEW g, GroupOK(f, g)
    PROVE  SettledBy(f, ApplyGroup(f, t, g), g)
  <1>1. CASE g.guard \in Markers(f, t)
    BY <1>1, GroupPasses DEF SettledBy
  <1>2. CASE g.guard \notin Markers(f, t)
    <2>. DEFINE u == ApplyGroup(f, t, g)
                hit == g.hunks \cap t.anchors
    <2>0. Applies(f, t, g, u)
      BY <1>2, GroupApplies
    <2>. HIDE DEF u
    <2>1. /\ t.anchors \subseteq All(f) /\ u.anchors \subseteq All(f)
          /\ \A i \in All(f) :
                /\ i \in u.anchors <=> i \in t.anchors /\ (i \in hit => HunksOf[f][i].stays)
                /\ u.applied[i] = IF i \in hit THEN t.applied[i] + 1 ELSE t.applied[i]
      BY <2>0 DEF Applies, Text
    <2>2. \A i \in All(f) : t.applied[i] \in Nat
      BY DEF Text
    <2>3. CASE \E i \in hit : HunksOf[f][i].stays
      <3>1. PICK i \in hit : HunksOf[f][i].stays
        BY <2>3
      <3>2. i \in All(f) /\ g.guard \in HunksOf[f][i].marks
        BY <3>1 DEF GroupOK
      <3>3. u.applied[i] > 0
        BY <2>1, <2>2, <3>2
      <3>4. g.guard \in Markers(f, u)
        BY <3>2, <3>3, MarkersOf
      <3>. QED BY <3>4 DEF SettledBy, u
    <2>4. CASE ~\E i \in hit : HunksOf[f][i].stays
      <3>1. g.hunks \cap u.anchors = {}
        BY <2>1, <2>4
      <3>. QED BY <3>1 DEF SettledBy, u
    <2>. QED BY <2>3, <2>4
  <1>. QED BY <1>1, <1>2

LEMMA ApplyKeepsSettled ==
    ASSUME NEW f \in PatchedNames, NEW t \in Text(f), NEW g, NEW h, SettledBy(f, t, h)
    PROVE  SettledBy(f, ApplyGroup(f, t, g), h)
  <1>. DEFINE u == ApplyGroup(f, t, g)
  <1>1. u.anchors \subseteq t.anchors /\ \A i \in All(f) : t.applied[i] > 0 => u.applied[i] > 0
    BY ApplyKeepsType
  <1>. HIDE DEF u
  <1>2. Markers(f, t) \subseteq Markers(f, u)
    BY <1>1 DEF Markers
  <1>3. SettledBy(f, u, h)
    BY <1>1, <1>2 DEF SettledBy
  <1>. QED BY <1>3 DEF u

LEMMA SettledGroupPasses ==
    ASSUME NEW f \in PatchedNames, NEW t \in Text(f), NEW g, SettledBy(f, t, g)
    PROVE  ApplyGroup(f, t, g) = t
  <1>1. CASE g.guard \in Markers(f, t)
    BY <1>1, GroupPasses
  <1>2. CASE g.guard \notin Markers(f, t)
    <2>. DEFINE u == ApplyGroup(f, t, g)
    <2>1. g.hunks \cap t.anchors = {}
      BY <1>2 DEF SettledBy
    <2>2. Applies(f, t, g, u)
      BY <1>2, GroupApplies
    <2>. HIDE DEF u
    <2>3. /\ u.applied \in [All(f) -> Nat] /\ t.applied \in [All(f) -> Nat]
          /\ u.anchors \subseteq All(f) /\ t.anchors \subseteq All(f)
      BY <2>2 DEF Applies, Text
    <2>4. u.applied = t.applied
      <3>1. \A i \in All(f) : u.applied[i] = t.applied[i]
        BY <2>1, <2>2 DEF Applies
      <3>. QED BY <2>3, <3>1
    <2>5. u.anchors = t.anchors
      BY <2>1, <2>2, <2>3 DEF Applies
    <2>6. u = t
      BY <2>2, <2>4, <2>5 DEF Applies, Text
    <2>. QED BY <2>6 DEF u
  <1>. QED BY <1>1, <1>2

-----------------------------------------------------------------------------
(* A patch function, which goes over the groups in their order.            *)

LEMMA PatchedSingle ==
    ASSUME NEW f, NEW t, Len(GroupsOf[f]) = 1
    PROVE  Patched(f, t) = ApplyGroup(f, t, GroupsOf[f][1])
  <1>. DEFINE groups == GroupsOf[f]
              Eq(a) == a = [n \in 0..Len(groups) |->
                              IF n = 0 THEN t ELSE ApplyGroup(f, a[n - 1], groups[n])]
              after == CHOOSE a : Eq(a)
              w == [n \in 0..1 |-> IF n = 0 THEN t ELSE ApplyGroup(f, t, groups[1])]
  <1>1. Patched(f, t) = after[Len(groups)]
    BY DEF Patched
  <1>2. Eq(w)
    <2>1. w[0] = t /\ w[1] = ApplyGroup(f, t, groups[1]) /\ w = [n \in 0..1 |-> w[n]]
      OBVIOUS
    <2>. HIDE DEF w
    <2>2. \A n \in 0..1 : w[n] = IF n = 0 THEN t ELSE ApplyGroup(f, w[n - 1], groups[n])
      BY <2>1
    <2>3. 0..Len(groups) = 0..1
      OBVIOUS
    <2>. QED BY <2>1, <2>2, <2>3
  <1>3. Eq(after)
    <2>. HIDE DEF Eq, w
    <2>. QED BY <1>2
  <1>4. after[1] = ApplyGroup(f, after[0], groups[1]) /\ after[0] = t
    <2>. HIDE DEF after
    <2>. QED BY <1>3
  <1>. QED BY <1>1, <1>4

LEMMA PatchedStubs ==
    ASSUME NEW t
    PROVE  Patched("hle_stubs", t) =
               ApplyGroup("hle_stubs",
                   ApplyGroup("hle_stubs",
                       ApplyGroup("hle_stubs", t, HleGroups[1]), HleGroups[2]), HleGroups[3])
  <1>. DEFINE f == "hle_stubs"
              groups == GroupsOf[f]
              Eq(a) == a = [n \in 0..Len(groups) |->
                              IF n = 0 THEN t ELSE ApplyGroup(f, a[n - 1], groups[n])]
              after == CHOOSE a : Eq(a)
              t1 == ApplyGroup(f, t, HleGroups[1])
              t2 == ApplyGroup(f, t1, HleGroups[2])
              t3 == ApplyGroup(f, t2, HleGroups[3])
              w == [n \in 0..3 |-> CASE n = 0 -> t [] n = 1 -> t1 [] n = 2 -> t2 [] OTHER -> t3]
  <1>1. Patched(f, t) = after[Len(groups)]
    BY DEF Patched
  <1>2. Len(groups) = 3 /\ groups = HleGroups
    BY GroupTable DEF HleGroups
  <1>3. Eq(w)
    <2>1. /\ w[0] = t /\ w[1] = t1 /\ w[2] = t2 /\ w[3] = t3
          /\ w = [n \in 0..3 |-> w[n]]
      <3>. HIDE DEF t1, t2, t3
      <3>. QED OBVIOUS
    <2>. HIDE DEF w
    <2>2. \A n \in 0..3 : w[n] = IF n = 0 THEN t ELSE ApplyGroup(f, w[n - 1], HleGroups[n])
      BY <2>1
    <2>. QED BY <1>2, <2>1, <2>2
  <1>4. Eq(after)
    <2>. HIDE DEF Eq, w
    <2>. QED BY <1>3
  <1>5. /\ after[0] = t
        /\ after[1] = ApplyGroup(f, after[0], HleGroups[1])
        /\ after[2] = ApplyGroup(f, after[1], HleGroups[2])
        /\ after[3] = ApplyGroup(f, after[2], HleGroups[3])
    <2>. HIDE DEF after, w
    <2>1. after = [n \in 0..3 |-> IF n = 0 THEN t ELSE ApplyGroup(f, after[n - 1], HleGroups[n])]
      BY <1>2, <1>4
    <2>2. ASSUME NEW m \in 0..3
          PROVE  after[m] = IF m = 0 THEN t ELSE ApplyGroup(f, after[m - 1], HleGroups[m])
      BY <2>1
    <2>. QED BY <2>2
  <1>. QED BY <1>1, <1>2, <1>5

(* What a patch function makes of a text.                                  *)
PatchedWell(f, t, u) ==
    TextOK(f, u) /\ Settled(f, u) /\ u.hooks = t.hooks /\ u.whole = t.whole

LEMMA ApplyKeepsTextOK ==
    ASSUME NEW f \in PatchedNames, NEW t, TextOK(f, t), NEW g, GroupOK(f, g),
           NeedsMet(f, ApplyGroup(f, t, g))
    PROVE  /\ TextOK(f, ApplyGroup(f, t, g))
           /\ ApplyGroup(f, t, g).hooks = t.hooks /\ ApplyGroup(f, t, g).whole = t.whole
  BY ApplyKeepsType, ApplyKeepsOnce DEF TextOK

LEMMA SingleIsPatchedWell ==
    ASSUME NEW f \in PatchedNames, f # "hle_stubs", NEW t, TextOK(f, t)
    PROVE  PatchedWell(f, t, Patched(f, t))
  <1>. DEFINE g == GroupsOf[f][1]
  <1>1. Len(GroupsOf[f]) = 1 /\ g.hunks = All(f)
    BY SingleGroup
  <1>2. GroupOK(f, g)
    BY <1>1, GroupsOK
  <1>3. Patched(f, t) = ApplyGroup(f, t, g)
    BY <1>1, PatchedSingle
  <1>. HIDE DEF g
  <1>4. NeedsMet(f, ApplyGroup(f, t, g))
    <2>1. \A i \in g.hunks \cap t.anchors : HunksOf[f][i].needs \subseteq g.hunks
      BY <1>1, NeedsAreInTheText
    <2>. QED BY <2>1, ApplyKeepsNeeds DEF TextOK
  <1>5. SettledBy(f, ApplyGroup(f, t, g), g)
    BY <1>2, ApplySettles DEF TextOK
  <1>6. Settled(f, ApplyGroup(f, t, g))
    BY <1>1, <1>5 DEF Settled, g
  <1>. QED BY <1>2, <1>3, <1>4, <1>6, ApplyKeepsTextOK DEF PatchedWell

LEMMA HleTable ==
    /\ HleGroups[1].guard = "hook" /\ HleGroups[1].hunks = {1}
    /\ HleGroups[2].guard = "call" /\ HleGroups[2].hunks = {2}
    /\ HleGroups[3].guard = "track" /\ HleGroups[3].hunks = {3, 4}
    /\ All("hle_stubs") = 1..4 /\ Len(GroupsOf["hle_stubs"]) = 3
    /\ \A i \in 1..4 : "hook" \in HunksOf["hle_stubs"][i].marks => i \in {1, 2}
    /\ "call" \in HunksOf["hle_stubs"][2].marks
    /\ HunksOf["hle_stubs"][1].needs = {} /\ HunksOf["hle_stubs"][2].needs = {1}
    /\ HunksOf["hle_stubs"][3].needs = {} /\ HunksOf["hle_stubs"][4].needs = {3}
  <1>1. Len(HleHunks) = 4 /\ Len(HleGroups) = 3
    BY DEF HleHunks, HleGroups
  <1>. QED BY <1>1, HunkTable, GroupTable DEF HleGroups, Group, HleHunks, Hunk, All

(* The definition of the hook is written, or was, before a call of it.     *)
LEMMA HookBeforeCall ==
    ASSUME NEW t, TextOK("hle_stubs", t), t.whole, SettledBy("hle_stubs", t, HleGroups[1]),
           "call" \notin Markers("hle_stubs", t), 1 \in t.origin
    PROVE  t.applied[1] > 0
  <1>. SUFFICES ASSUME ~(t.applied[1] > 0)
                PROVE  FALSE
    OBVIOUS
  <1>1. 1 \in t.anchors
    BY DEF TextOK, NeedsMet
  <1>2. "hook" \in Markers("hle_stubs", t)
    BY <1>1, HleTable DEF SettledBy
  <1>3. PICK i \in 1..4 : t.applied[i] > 0 /\ "hook" \in HunksOf["hle_stubs"][i].marks
    BY <1>2, HleTable DEF Markers
  <1>4. i = 2
    BY <1>3, HleTable
  <1>. QED BY <1>3, <1>4, HleTable, MarkersOf

LEMMA StubsArePatchedWell ==
    ASSUME NEW t, TextOK("hle_stubs", t)
    PROVE  PatchedWell("hle_stubs", t, Patched("hle_stubs", t))
  <1>. DEFINE f == "hle_stubs"
              t1 == ApplyGroup(f, t, HleGroups[1])
              t2 == ApplyGroup(f, t1, HleGroups[2])
              t3 == ApplyGroup(f, t2, HleGroups[3])
  <1>1. f \in PatchedNames
    BY HunkTable
  <1>2. GroupOK(f, HleGroups[1]) /\ GroupOK(f, HleGroups[2]) /\ GroupOK(f, HleGroups[3])
    BY <1>1, HleTable, GroupTable, GroupsOK
  <1>3. NeedsMet(f, t1)
    <2>1. \A i \in HleGroups[1].hunks : HunksOf[f][i].needs = {}
      BY HleTable
    <2>. QED BY <1>1, <2>1, ApplyKeepsNeeds DEF TextOK
  <1>4. /\ TextOK(f, t1) /\ t1.hooks = t.hooks /\ t1.whole = t.whole
        /\ SettledBy(f, t1, HleGroups[1])
    BY <1>1, <1>2, <1>3, ApplyKeepsTextOK, ApplySettles DEF TextOK
  <1>. HIDE DEF t1
  <1>5. NeedsMet(f, t2)
    <2>1. t1.whole /\ "call" \notin Markers(f, t1) =>
              \A i \in {2} : \A j \in {1} : j \in t1.origin => t1.applied[j] > 0
      BY <1>4, HookBeforeCall
    <2>2. t1.whole /\ HleGroups[2].guard \notin Markers(f, t1) =>
              \A i \in HleGroups[2].hunks \cap t1.anchors : \A j \in HunksOf[f][i].needs :
                  j \in t1.origin => t1.applied[j] > 0 \/ j \in HleGroups[2].hunks
      BY <2>1, HleTable
    <2>. QED BY <1>1, <1>4, <2>2, ApplyKeepsNeeds DEF TextOK
  <1>6. /\ TextOK(f, t2) /\ t2.hooks = t.hooks /\ t2.whole = t.whole
        /\ SettledBy(f, t2, HleGroups[1]) /\ SettledBy(f, t2, HleGroups[2])
    BY <1>1, <1>2, <1>4, <1>5, ApplyKeepsTextOK, ApplySettles, ApplyKeepsSettled DEF TextOK
  <1>. HIDE DEF t2
  <1>7. NeedsMet(f, t3)
    <2>1. \A i \in HleGroups[3].hunks : HunksOf[f][i].needs \subseteq HleGroups[3].hunks
      BY HleTable
    <2>. QED BY <1>1, <1>6, <2>1, ApplyKeepsNeeds DEF TextOK
  <1>8. /\ TextOK(f, t3) /\ t3.hooks = t.hooks /\ t3.whole = t.whole
        /\ \A n \in 1..3 : SettledBy(f, t3, HleGroups[n])
    <2>1. SettledBy(f, t3, HleGroups[1]) /\ SettledBy(f, t3, HleGroups[2])
      BY <1>1, <1>6, ApplyKeepsSettled DEF TextOK
    <2>2. SettledBy(f, t3, HleGroups[3])
      BY <1>1, <1>2, <1>6, ApplySettles DEF TextOK
    <2>3. TextOK(f, t3) /\ t3.hooks = t.hooks /\ t3.whole = t.whole
      BY <1>1, <1>2, <1>6, <1>7, ApplyKeepsTextOK
    <2>. HIDE DEF t3
    <2>. QED BY <2>1, <2>2, <2>3
  <1>9. Patched(f, t) = t3
    BY PatchedStubs DEF t1, t2
  <1>. HIDE DEF t3
  <1>10. Settled(f, t3)
    BY <1>8, HleTable, GroupTable DEF Settled
  <1>. QED BY <1>8, <1>9, <1>10 DEF PatchedWell

LEMMA PatchingWorks ==
    ASSUME NEW f \in PatchedNames, NEW t, TextOK(f, t)
    PROVE  PatchedWell(f, t, Patched(f, t))
  BY SingleIsPatchedWell, StubsArePatchedWell

(* Going over a settled text again changes nothing.                        *)
LEMMA SettledTextPasses ==
    ASSUME NEW f \in PatchedNames, NEW t \in Text(f), Settled(f, t)
    PROVE  Patched(f, t) = t
  <1>1. CASE f # "hle_stubs"
    <2>1. Len(GroupsOf[f]) = 1
      BY <1>1, SingleGroup
    <2>2. SettledBy(f, t, GroupsOf[f][1])
      BY <2>1 DEF Settled
    <2>. QED BY <2>1, <2>2, PatchedSingle, SettledGroupPasses
  <1>2. CASE f = "hle_stubs"
    <2>1. \A n \in 1..3 : SettledBy(f, t, HleGroups[n])
      BY <1>2, HleTable, GroupTable DEF Settled
    <2>2. \A n \in 1..3 : ApplyGroup(f, t, HleGroups[n]) = t
      BY <2>1, SettledGroupPasses
    <2>. QED BY <1>2, <2>2, PatchedStubs
  <1>. QED BY <1>1, <1>2

-----------------------------------------------------------------------------
(* What a crash and the user make of a text.                               *)

LEMMA CutTextOK ==
    ASSUME NEW f \in PatchedNames, NEW t, TextOK(f, t), NEW n \in Nat, NEW h \in SUBSET Hooks
    PROVE  TextOK(f, Cut(f, t, n, h)) /\ ~Cut(f, t, n, h).whole
  <1>. DEFINE u == Cut(f, t, n, h)
              less == [i \in All(f) |-> IF i <= n THEN t.applied[i] ELSE 0]
              here == t.anchors \cap (1..n)
  <1>1. u = [t EXCEPT !.anchors = here, !.applied = less, !.hooks = h, !.whole = FALSE]
    BY DEF Cut
  <1>2. less \in [All(f) -> Nat] /\ here \in SUBSET All(f)
    BY DEF TextOK, Text
  <1>3. \A i \in All(f) : less[i] = t.applied[i] \/ less[i] = 0
    OBVIOUS
  <1>4. here \subseteq t.anchors
    OBVIOUS
  <1>. HIDE DEF less, here
  <1>5. u \in Text(f) /\ u.applied = less /\ u.anchors = here /\ u.whole = FALSE
    BY <1>1, <1>2 DEF TextOK, Text
  <1>. HIDE DEF u
  <1>6. Once(f, u)
    BY <1>3, <1>4, <1>5 DEF TextOK, Once
  <1>7. TextOK(f, u) /\ ~u.whole
    BY <1>5, <1>6 DEF TextOK, NeedsMet
  <1>. QED BY <1>7 DEF u

(* A text that no patch has gone over yet.                                 *)
Fresh(f, anchors, h) == [NewText(f, anchors) EXCEPT !.hooks = h]

LEMMA FreshTextOK ==
    ASSUME NEW f \in PatchedNames, NEW anchors \in SUBSET All(f), NEW h \in SUBSET Hooks
    PROVE  TextOK(f, Fresh(f, anchors, h)) /\ Fresh(f, anchors, h).hooks = h
  <1>. DEFINE u == Fresh(f, anchors, h)
              none == [i \in All(f) |-> 0]
  <1>1. u = [[anchors |-> anchors, origin |-> anchors, applied |-> none,
              hooks |-> {}, whole |-> TRUE] EXCEPT !.hooks = h]
    BY DEF NewText, Fresh
  <1>2. none \in [All(f) -> Nat] /\ \A i \in All(f) : none[i] = 0
    OBVIOUS
  <1>. HIDE DEF none
  <1>3. /\ u \in Text(f) /\ u.applied = none /\ u.anchors = anchors /\ u.origin = anchors
        /\ u.hooks = h
    BY <1>1, <1>2 DEF Text
  <1>. HIDE DEF u
  <1>4. TextOK(f, u)
    BY <1>2, <1>3 DEF TextOK, Once, NeedsMet
  <1>. QED BY <1>3, <1>4 DEF u

LEMMA FreshStubsOK == TextOK("hle_stubs", FreshStubs) /\ FreshStubs.hooks = {}
  <1>1. FreshStubs = Fresh("hle_stubs", {1, 2}, {})
    <2>. DEFINE none == [i \in All("hle_stubs") |-> 0]
    <2>1. NewText("hle_stubs", {1, 2}) = [anchors |-> {1, 2}, origin |-> {1, 2}, applied |-> none,
                                          hooks |-> {}, whole |-> TRUE]
      BY DEF NewText
    <2>. HIDE DEF none
    <2>. QED BY <2>1 DEF FreshStubs, Fresh
  <1>2. {1, 2} \in SUBSET All("hle_stubs") /\ "hle_stubs" \in PatchedNames
    BY HleTable, HunkTable
  <1>. QED BY <1>1, <1>2, FreshTextOK

(* The user adds to the text, or deletes an anchor; no patch has more to   *)
(* do for it.                                                              *)
LEMMA HookedTextOK ==
    ASSUME NEW f \in PatchedNames, NEW t, TextOK(f, t), NEW h \in Hooks
    PROVE  LET u == [t EXCEPT !.hooks = @ \cup {h}]
           IN  /\ TextOK(f, u) /\ u.hooks = t.hooks \cup {h} /\ u.whole = t.whole
               /\ Settled(f, t) => Settled(f, u)
  <1>. DEFINE u == [t EXCEPT !.hooks = @ \cup {h}]
  <1>1. /\ u \in Text(f) /\ u.applied = t.applied /\ u.anchors = t.anchors
        /\ u.origin = t.origin /\ u.whole = t.whole /\ u.hooks = t.hooks \cup {h}
    BY DEF TextOK, Text
  <1>. HIDE DEF u
  <1>2. TextOK(f, u)
    BY <1>1 DEF TextOK, Once, NeedsMet
  <1>3. Settled(f, t) => Settled(f, u)
    BY <1>1 DEF Settled, SettledBy, Markers
  <1>. QED BY <1>1, <1>2, <1>3 DEF u

Unanchored(t, i) ==
    [t EXCEPT !.anchors = @ \ {i}, !.origin = {j \in @ : j # i \/ t.applied[i] > 0}]

LEMMA UnanchoredTextOK ==
    ASSUME NEW f \in PatchedNames, NEW t, TextOK(f, t), NEW i
    PROVE  LET u == Unanchored(t, i)
           IN  /\ TextOK(f, u) /\ u.hooks = t.hooks /\ u.whole = t.whole
               /\ Settled(f, t) => Settled(f, u)
  <1>. DEFINE u == Unanchored(t, i)
              left == {j \in t.origin : j # i \/ t.applied[i] > 0}
  <1>1. /\ u \in Text(f) /\ u.applied = t.applied /\ u.anchors = t.anchors \ {i}
        /\ u.origin = left /\ u.whole = t.whole /\ u.hooks = t.hooks
    BY DEF TextOK, Text, Unanchored
  <1>2. /\ \A j \in left : j \in t.origin
        /\ \A j \in t.origin : j # i \/ t.applied[j] > 0 => j \in left
        /\ \A j \in left : j = i => t.applied[j] > 0
    OBVIOUS
  <1>. HIDE DEF u, left
  <1>3. Once(f, u)
    BY <1>1 DEF TextOK, Once
  <1>4. NeedsMet(f, u)
    BY <1>1, <1>2 DEF TextOK, NeedsMet
  <1>5. Settled(f, t) => Settled(f, u)
    BY <1>1 DEF Settled, SettledBy, Markers
  <1>. QED BY <1>1, <1>3, <1>4, <1>5 DEF TextOK, u

-----------------------------------------------------------------------------
(* The texts during a run.                                                 *)

(* Every patched file holds a text in good order, or none.                 *)
TextsOK ==
    /\ DOMAIN text = PatchedNames
    /\ \A f \in PatchedNames : text[f] = NoText \/ TextOK(f, text[f])

(* What is written back is a text that was patched, and the user's hooks   *)
(* are in it.                                                              *)
WritesOK ==
    /\ phase = "create" => buffer = FreshStubs /\ step = 1 /\ hooks = {}
    /\ phase = "patch" => step \in 1..8
    /\ phase = "write" =>
          /\ step \in 1..7
          /\ TextOK(Current, buffer) /\ Settled(Current, buffer)
          /\ Current = "hle_stubs" /\ buffer.whole => buffer.hooks = hooks

HooksOK ==
    /\ hooks \subseteq Hooks
    /\ text["hle_stubs"] = NoText => hooks = {}
    /\ UserHooksKept

TextInv == TextsOK /\ WritesOK /\ HooksOK

LEMMA Order ==
    /\ Len(PatchOrder) = 7 /\ PatchOrder[1] = "hle_stubs"
    /\ \A k \in 1..7 : PatchOrder[k] \in PatchedNames
    /\ \A f \in PatchedNames : \E k \in 1..7 : f = PatchOrder[k]
    /\ \A k, m \in 1..7 : PatchOrder[k] = PatchOrder[m] => k = m
  <1>1. Len(PatchOrder) = 7
    BY DEF PatchOrder
  <1>2. /\ PatchOrder[1] = "hle_stubs" /\ PatchOrder[2] = "shader" /\ PatchOrder[3] = "internal"
        /\ PatchOrder[4] = "gx" /\ PatchOrder[5] = "texture" /\ PatchOrder[6] = "mtx"
        /\ PatchOrder[7] = "pad"
    BY DEF PatchOrder
  <1>3. \A k \in 1..7 : k = 1 \/ k = 2 \/ k = 3 \/ k = 4 \/ k = 5 \/ k = 6 \/ k = 7
    OBVIOUS
  <1>. QED BY <1>1, <1>2, <1>3, HunkTable

(* The steps that have no part in the patched texts.                       *)
Quiet ==
    /\ UNCHANGED <<text, buffer, hooks, outcome>>
    /\ phase' \in {"clear", "functions", "batches", "stubs"}

LEMMA QuietSteps ==
    Begin \/ ClearBatch \/ EmitRuntime \/ EmitFunctions \/ CloseFunctions \/ EmitBatch
          \/ CloseBatch \/ EmitJumpTable
    => Quiet
  BY DEF Begin, ClearBatch, EmitRuntime, EmitFunctions, CloseFunctions, EmitBatch, CloseBatch,
         EmitJumpTable, Quiet

(* One text is replaced by another that is as it should be.                *)
LEMMA TextReplaced ==
    ASSUME TextsOK, HooksOK, NEW c \in PatchedNames, NEW v, TextOK(c, v),
           text' = [text EXCEPT ![c] = v], hooks' \subseteq Hooks,
           c # "hle_stubs" => hooks' = hooks,
           c = "hle_stubs" /\ v.whole => v.hooks = hooks'
    PROVE  TextsOK' /\ HooksOK'
  <1>1. /\ DOMAIN text' = PatchedNames /\ text'[c] = v
        /\ \A f \in PatchedNames : f # c => text'[f] = text[f]
    BY DEF TextsOK
  <1>2. TextsOK'
    BY <1>1 DEF TextsOK
  <1>3. "hle_stubs" \in PatchedNames
    BY HunkTable
  <1>4. CASE c = "hle_stubs"
    <2>1. v # NoText
      BY TextIsThere DEF TextOK
    <2>. QED BY <1>1, <1>2, <1>4, <2>1 DEF HooksOK, UserHooksKept
  <1>5. CASE c # "hle_stubs"
    BY <1>1, <1>2, <1>3, <1>5 DEF HooksOK, UserHooksKept
  <1>. QED BY <1>4, <1>5

LEMMA TextInit == Init => TextInv
  <1>. SUFFICES ASSUME Init
                PROVE  TextInv
    OBVIOUS
  <1>1. PICK t \in InitialTexts : text = t /\ hooks = t["hle_stubs"].hooks
    BY DEF Init
  <1>2. /\ t = [f \in PatchedNames |-> t[f]]
        /\ \A f \in PatchedNames :
              \/ t[f] = NoText
              \/ \E anchors \in SUBSET All(f), h \in SUBSET Hooks : t[f] = Fresh(f, anchors, h)
    BY InitialTextsAssumption DEF Fresh
  <1>3. \A f \in PatchedNames : t[f] = NoText \/ (TextOK(f, t[f]) /\ t[f].hooks \subseteq Hooks)
    BY <1>2, FreshTextOK
  <1>4. DOMAIN t = PatchedNames
    BY <1>2
  <1>5. TextsOK
    BY <1>1, <1>3, <1>4 DEF TextsOK
  <1>6. HooksOK
    BY <1>1, <1>3, HunkTable DEF HooksOK, UserHooksKept, NoText
  <1>7. WritesOK
    BY DEF WritesOK, Init
  <1>. QED BY <1>5, <1>6, <1>7 DEF TextInv

(* Every step of the driver, of the user and of a crash keeps the texts in *)
(* order.                                                                  *)
LEMMA TextNext == TextInv /\ [Next]_vars => TextInv'
  <1>. SUFFICES ASSUME TextInv, [Next]_vars
                PROVE  TextInv'
    OBVIOUS
  <1>. USE DEF TextInv
  <1>1. CASE Quiet
    BY <1>1 DEF Quiet, TextsOK, WritesOK, HooksOK, UserHooksKept
  <1>2. CASE EmitStubs
    <2>. USE HunkTable, <1>2 DEF EmitStubs
    <2>1. CASE KeepsStubs /\ phase' = "patch" /\ UNCHANGED <<text, buffer, clean, failures>>
      BY <2>1 DEF TextsOK, WritesOK, HooksOK, UserHooksKept
    <2>2. CASE /\ ~KeepsStubs
               /\ buffer' = FreshStubs /\ phase' = "create"
               /\ text' = [text EXCEPT !["hle_stubs"] = Cut("hle_stubs", FreshStubs, 0, {})]
      <3>1. hooks = {} /\ hooks' = hooks /\ step' = 1
        BY <2>2 DEF KeepsStubs, HooksOK
      <3>2. /\ TextOK("hle_stubs", Cut("hle_stubs", FreshStubs, 0, {}))
            /\ ~Cut("hle_stubs", FreshStubs, 0, {}).whole
        BY FreshStubsOK, CutTextOK
      <3>3. TextsOK' /\ HooksOK'
        BY <2>2, <3>1, <3>2, TextReplaced
      <3>. QED BY <2>2, <3>1, <3>3 DEF WritesOK
    <2>3. CASE ~KeepsStubs /\ phase' = "patch" /\ UNCHANGED <<text, buffer>>
      BY <2>3 DEF TextsOK, WritesOK, HooksOK, UserHooksKept
    <2>. QED BY <2>1, <2>2, <2>3
  <1>3. CASE WriteStubs
    <2>1. /\ text' = [text EXCEPT !["hle_stubs"] = FreshStubs]
          /\ hooks = {} /\ hooks' = hooks /\ phase' = "patch" /\ step' = 1
      BY <1>3 DEF WriteStubs, WritesOK
    <2>2. TextsOK' /\ HooksOK'
      BY <2>1, FreshStubsOK, TextReplaced, HunkTable
    <2>. QED BY <2>1, <2>2 DEF WritesOK
  <1>4. CASE SkipPatch
    BY <1>4, Order DEF SkipPatch, TextsOK, WritesOK, HooksOK, UserHooksKept
  <1>5. CASE Patch
    <2>. USE <1>5 DEF Patch
    <2>1. step \in 1..7 /\ Current \in PatchedNames
      BY Order DEF WritesOK, Current
    <2>2. TextOK(Current, text[Current])
      BY <2>1 DEF NeedsPatch, TextsOK
    <2>3. PatchedWell(Current, text[Current], Patched(Current, text[Current]))
      BY <2>1, <2>2, PatchingWorks
    <2>4. CASE /\ buffer' = Patched(Current, text[Current])
               /\ text' = [text EXCEPT ![Current] = Cut(Current, text[Current], 0, {})]
               /\ phase' = "write" /\ UNCHANGED <<step, clean, failures>>
      <3>1. /\ TextOK(Current, Cut(Current, text[Current], 0, {}))
            /\ ~Cut(Current, text[Current], 0, {}).whole
        BY <2>1, <2>2, CutTextOK
      <3>2. hooks' = hooks /\ hooks \subseteq Hooks /\ UserHooksKept
        BY DEF HooksOK
      <3>3. TextsOK' /\ HooksOK'
        BY <2>1, <2>4, <3>1, <3>2, TextReplaced
      <3>4. Current' = Current
        BY <2>4 DEF Current
      <3>5. Current = "hle_stubs" /\ buffer'.whole => buffer'.hooks = hooks
        BY <2>3, <2>4, <3>2 DEF PatchedWell, UserHooksKept
      <3>. QED BY <2>1, <2>3, <2>4, <3>2, <3>3, <3>4, <3>5 DEF WritesOK, PatchedWell
    <2>5. CASE step' = step + 1 /\ UNCHANGED <<text, buffer, phase>>
      BY <2>1, <2>5 DEF TextsOK, WritesOK, HooksOK, UserHooksKept
    <2>. QED BY <2>4, <2>5
  <1>6. CASE WritePatched
    <2>. USE <1>6 DEF WritePatched
    <2>1. /\ step \in 1..7 /\ Current \in PatchedNames /\ TextOK(Current, buffer)
          /\ Current = "hle_stubs" /\ buffer.whole => buffer.hooks = hooks
      BY Order DEF WritesOK, Current
    <2>2. hooks' = hooks /\ hooks \subseteq Hooks
      BY DEF HooksOK
    <2>3. TextsOK' /\ HooksOK'
      BY <2>1, <2>2, TextReplaced
    <2>. QED BY <2>1, <2>3 DEF WritesOK
  <1>7. CASE Return
    BY <1>7 DEF Return, TextsOK, WritesOK, HooksOK, UserHooksKept
  <1>8. CASE Crash
    <2>. USE <1>8 DEF Crash
    <2>1. WritesOK'
      BY DEF WritesOK
    <2>2. hooks' = hooks /\ hooks \subseteq Hooks
      BY DEF HooksOK
    <2>3. CASE UNCHANGED text
      BY <2>1, <2>2, <2>3 DEF TextsOK, HooksOK, UserHooksKept
    <2>4. CASE phase \in {"write", "create"} /\
               \E n \in 0..Len(HunksOf[Current]), h \in SUBSET buffer.hooks :
                   text' = [text EXCEPT ![Current] = Cut(Current, buffer, n, h)]
      <3>1. Current \in PatchedNames /\ TextOK(Current, buffer)
        BY <2>4, Order, FreshStubsOK DEF WritesOK, Current
      <3>2. Len(HunksOf[Current]) \in Nat /\ buffer.hooks \subseteq Hooks
        BY <3>1, HunkTable, HunkCounts DEF TextOK, Text
      <3>3. PICK n \in 0..Len(HunksOf[Current]), h \in SUBSET buffer.hooks :
                text' = [text EXCEPT ![Current] = Cut(Current, buffer, n, h)]
        BY <2>4
      <3>4. TextOK(Current, Cut(Current, buffer, n, h)) /\ ~Cut(Current, buffer, n, h).whole
        BY <3>1, <3>2, CutTextOK
      <3>5. TextsOK' /\ HooksOK'
        BY <2>2, <3>1, <3>3, <3>4, TextReplaced
      <3>. QED BY <2>1, <3>5
    <2>. QED BY <2>3, <2>4
  <1>9. CASE AddHook
    <2>. USE <1>9 DEF AddHook, Edit
    <2>. DEFINE t == text["hle_stubs"]
    <2>1. PICK h \in Hooks \ hooks :
              /\ hooks' = hooks \cup {h}
              /\ text' = [text EXCEPT !["hle_stubs"].hooks = @ \cup {h}]
      OBVIOUS
    <2>2. TextOK("hle_stubs", t) /\ "hle_stubs" \in PatchedNames
      BY HunkTable DEF TextsOK
    <2>3. PICK v : /\ v = [t EXCEPT !.hooks = @ \cup {h}]
                   /\ TextOK("hle_stubs", v) /\ v.hooks = t.hooks \cup {h} /\ v.whole = t.whole
      BY <2>2, HookedTextOK
    <2>4. text' = [text EXCEPT !["hle_stubs"] = v]
      BY <2>1, <2>2, <2>3
    <2>5. v.whole => v.hooks = hooks'
      BY <2>1, <2>3 DEF HooksOK, UserHooksKept
    <2>6. hooks' \subseteq Hooks
      BY <2>1 DEF HooksOK
    <2>7. TextsOK' /\ HooksOK'
      BY <2>2, <2>3, <2>4, <2>5, <2>6, TextReplaced
    <2>. QED BY <2>7 DEF WritesOK
  <1>10. CASE RemoveAnchor
    <2>. USE <1>10 DEF RemoveAnchor, Edit
    <2>1. PICK f \in PatchedNames : text[f] # NoText /\ \E i \in text[f].anchors :
                text' = [text EXCEPT ![f].anchors = @ \ {i},
                                     ![f].origin = {j \in @ : j # i \/ text[f].applied[i] > 0}]
      OBVIOUS
    <2>2. PICK i \in text[f].anchors :
                text' = [text EXCEPT ![f].anchors = @ \ {i},
                                     ![f].origin = {j \in @ : j # i \/ text[f].applied[i] > 0}]
      BY <2>1
    <2>. DEFINE t == text[f]
    <2>3. TextOK(f, t)
      BY <2>1 DEF TextsOK
    <2>. DEFINE v == Unanchored(t, i)
    <2>4. TextOK(f, v) /\ v.hooks = t.hooks /\ v.whole = t.whole
      BY <2>3, UnanchoredTextOK
    <2>5. text' = [text EXCEPT ![f] = v]
      BY <2>1, <2>2 DEF TextsOK, Unanchored
    <2>. HIDE DEF v
    <2>6. hooks' = hooks /\ hooks \subseteq Hooks /\ UserHooksKept
      BY DEF HooksOK
    <2>7. f = "hle_stubs" /\ v.whole => v.hooks = hooks'
      BY <2>4, <2>6 DEF UserHooksKept
    <2>8. TextsOK' /\ HooksOK'
      BY <2>3, <2>4, <2>5, <2>6, <2>7, TextReplaced
    <2>. QED BY <2>8 DEF WritesOK
  <1>11. CASE UNCHANGED vars
    BY <1>11 DEF vars, TextsOK, WritesOK, HooksOK, UserHooksKept, Current
  <1>. QED
    BY <1>1, <1>2, <1>3, <1>4, <1>5, <1>6, <1>7, <1>8, <1>9, <1>10, <1>11, QuietSteps
       DEF Next, Run

LEMMA TextHolds == Spec => []TextInv
  BY TextInit, TextNext, PTL DEF Spec

(* However often a text is patched, whatever the crashes and the failures  *)
(* to open it in between, no hunk is in it twice (emitter.cpp's markers).  *)
THEOREM NoHunkTwiceHolds == Spec => []NoHunkTwice
  <1>1. TextInv => NoHunkTwice
    BY DEF TextInv, TextsOK, TextOK, Once, NoHunkTwice
  <1>. QED BY <1>1, TextHolds, PTL

(* A text that offers the anchors of all that its hunks need never has a   *)
(* hunk in it whose needs are not there.                                   *)
THEOREM HunksHaveTheirNeedsHolds == Spec => []HunksHaveTheirNeeds
  <1>1. TextInv => HunksHaveTheirNeeds
    <2>. SUFFICES ASSUME TextInv, NEW f \in PatchedNames, text[f].whole,
                         Coherent(f, text[f].origin),
                         NEW i \in All(f), text[f].applied[i] > 0,
                         NEW j \in HunksOf[f][i].needs
                  PROVE  text[f].applied[j] > 0
      BY DEF HunksHaveTheirNeeds
    <2>1. NeedsMet(f, text[f])
      BY DEF TextInv, TextsOK, TextOK, NoText
    <2>. QED BY <2>1 DEF NeedsMet, Coherent
  <1>. QED BY <1>1, TextHolds, PTL

(* The user's hooks in hle_stubs.c survive every run, unless the file was  *)
(* cut short while it was being patched.                                   *)
THEOREM UserHooksKeptHolds == Spec => []UserHooksKept
  <1>1. TextInv => UserHooksKept
    BY DEF TextInv, HooksOK
  <1>. QED BY <1>1, TextHolds, PTL

-----------------------------------------------------------------------------
(* A run that could open its files leaves no patch anything to do: each    *)
(* text it has gone over is settled, and stays so under the user's edits.  *)

SettledAt(f) == text[f] = NoText \/ Settled(f, text[f])

SettleInv ==
    clean =>
        /\ phase \in {"patch", "write"} => \A k \in 1..(step - 1) : SettledAt(PatchOrder[k])
        /\ phase = "idle" /\ outcome = "finished" => \A f \in PatchedNames : SettledAt(f)

(* A text is written only when it is settled.                              *)
LEMMA SettleNext == TextInv /\ SettleInv /\ [Next]_vars => SettleInv'
  <1>. SUFFICES ASSUME TextInv, SettleInv, [Next]_vars, clean'
                PROVE  SettleInv'
    BY DEF SettleInv
  <1>1. CASE Quiet
    BY <1>1 DEF Quiet, SettleInv
  <1>2. CASE EmitStubs
    <2>1. step' = 1 /\ phase' \in {"patch", "create"}
      BY <1>2 DEF EmitStubs
    <2>2. 1..(step' - 1) = {}
      BY <2>1
    <2>. QED BY <2>1, <2>2 DEF SettleInv
  <1>3. CASE WriteStubs
    BY <1>3 DEF WriteStubs, SettleInv, TextInv, WritesOK
  <1>4. CASE SkipPatch
    <2>. USE <1>4 DEF SkipPatch
    <2>1. step \in 1..7 /\ Current \in PatchedNames
      BY Order DEF TextInv, WritesOK, Current
    <2>2. SettledAt(Current)
      <3>1. CASE text[Current] = NoText
        BY <3>1 DEF SettledAt
      <3>2. CASE text[Current] # NoText
        <4>1. TextOK(Current, text[Current]) /\ Patched(Current, text[Current]) = text[Current]
          BY <2>1, <3>2 DEF TextInv, TextsOK, NeedsPatch
        <4>2. PatchedWell(Current, text[Current], text[Current])
          BY <2>1, <4>1, PatchingWorks
        <4>. QED BY <4>2 DEF PatchedWell, SettledAt
      <3>. QED BY <3>1, <3>2
    <2>3. \A k \in 1..(step - 1) : SettledAt(PatchOrder[k])
      BY DEF SettleInv
    <2>4. \A k \in 1..(step' - 1) : SettledAt(PatchOrder[k])
      BY <2>1, <2>2, <2>3 DEF Current
    <2>. QED BY <2>4 DEF SettleInv, SettledAt
  <1>5. CASE Patch
    <2>. USE <1>5 DEF Patch
    <2>1. step \in 1..7 /\ Current \in PatchedNames
      BY Order DEF TextInv, WritesOK, Current
    <2>2. /\ text' = [text EXCEPT ![Current] = Cut(Current, text[Current], 0, {})]
          /\ step' = step /\ phase' = "write" /\ clean
      OBVIOUS
    <2>3. \A k \in 1..(step - 1) : SettledAt(PatchOrder[k])
      BY <2>2 DEF SettleInv
    <2>4. \A k \in 1..(step - 1) : PatchOrder[k] \in PatchedNames /\ PatchOrder[k] # Current
      BY <2>1, Order DEF Current
    <2>5. \A k \in 1..(step - 1) : text'[PatchOrder[k]] = text[PatchOrder[k]]
      BY <2>1, <2>2, <2>4 DEF TextInv, TextsOK
    <2>. QED BY <2>2, <2>3, <2>5 DEF SettleInv, SettledAt
  <1>6. CASE WritePatched
    <2>. USE <1>6 DEF WritePatched
    <2>1. step \in 1..7 /\ Current \in PatchedNames /\ Settled(Current, buffer)
      BY Order DEF TextInv, WritesOK, Current
    <2>2. \A k \in 1..(step - 1) : SettledAt(PatchOrder[k])
      BY DEF SettleInv
    <2>3. \A k \in 1..(step - 1) : PatchOrder[k] \in PatchedNames /\ PatchOrder[k] # Current
      BY <2>1, Order DEF Current
    <2>4. \A k \in 1..(step - 1) : text'[PatchOrder[k]] = text[PatchOrder[k]]
      BY <2>1, <2>3 DEF TextInv, TextsOK
    <2>5. text'[PatchOrder[step]] = buffer
      BY <2>1 DEF TextInv, TextsOK, Current
    <2>6. \A k \in 1..(step - 1) : text'[PatchOrder[k]] = NoText
                                   \/ Settled(PatchOrder[k], text'[PatchOrder[k]])
      BY <2>2, <2>4 DEF SettledAt
    <2>7. \A k \in 1..step : text'[PatchOrder[k]] = NoText
                             \/ Settled(PatchOrder[k], text'[PatchOrder[k]])
      BY <2>1, <2>5, <2>6 DEF Current
    <2>8. step' - 1 = step
      BY <2>1
    <2>. QED BY <2>7, <2>8 DEF SettleInv, SettledAt
  <1>7. CASE Return
    <2>. USE <1>7 DEF Return
    <2>1. step = 8
      BY Order DEF TextInv, WritesOK
    <2>2. \A k \in 1..7 : SettledAt(PatchOrder[k])
      BY <2>1 DEF SettleInv
    <2>3. \A f \in PatchedNames : SettledAt(f)
      BY <2>2, Order
    <2>. QED BY <2>3 DEF SettleInv, SettledAt
  <1>8. CASE Crash
    BY <1>8 DEF Crash, SettleInv
  <1>9. CASE AddHook
    <2>. USE <1>9 DEF AddHook, Edit
    <2>. DEFINE t == text["hle_stubs"]
    <2>1. PICK h \in Hooks :
              text' = [text EXCEPT !["hle_stubs"].hooks = @ \cup {h}]
      OBVIOUS
    <2>2. TextOK("hle_stubs", t) /\ "hle_stubs" \in PatchedNames
      BY HunkTable DEF TextInv, TextsOK
    <2>3. PICK v : /\ v = [t EXCEPT !.hooks = @ \cup {h}]
                   /\ Settled("hle_stubs", t) => Settled("hle_stubs", v)
      BY <2>2, HookedTextOK
    <2>4. /\ text'["hle_stubs"] = v
          /\ \A f \in PatchedNames : f # "hle_stubs" => text'[f] = text[f]
      BY <2>1, <2>2, <2>3 DEF TextInv, TextsOK
    <2>. QED BY <2>3, <2>4 DEF SettleInv, SettledAt
  <1>10. CASE RemoveAnchor
    <2>. USE <1>10 DEF RemoveAnchor, Edit
    <2>1. PICK f \in PatchedNames : text[f] # NoText /\ \E i \in text[f].anchors :
                text' = [text EXCEPT ![f].anchors = @ \ {i},
                                     ![f].origin = {j \in @ : j # i \/ text[f].applied[i] > 0}]
      OBVIOUS
    <2>2. PICK i \in text[f].anchors :
                text' = [text EXCEPT ![f].anchors = @ \ {i},
                                     ![f].origin = {j \in @ : j # i \/ text[f].applied[i] > 0}]
      BY <2>1
    <2>. DEFINE t == text[f]
                v == Unanchored(t, i)
    <2>3. TextOK(f, t)
      BY <2>1 DEF TextInv, TextsOK
    <2>4. Settled(f, t) => Settled(f, v)
      BY <2>3, UnanchoredTextOK
    <2>5. text'[f] = v /\ \A e \in PatchedNames : e # f => text'[e] = text[e]
      BY <2>1, <2>2 DEF TextInv, TextsOK, Unanchored
    <2>. HIDE DEF v
    <2>. QED BY <2>1, <2>4, <2>5 DEF SettleInv, SettledAt
  <1>11. CASE UNCHANGED vars
    BY <1>11 DEF vars, SettleInv, SettledAt
  <1>. QED
    BY <1>1, <1>2, <1>3, <1>4, <1>5, <1>6, <1>7, <1>8, <1>9, <1>10, <1>11, QuietSteps
       DEF Next, Run

(* Once a run that could open its files has finished, no patch has anything *)
(* left to do, whatever the user edits: the tool never opens those texts   *)
(* again, so that a crash cannot cost them.                                *)
THEOREM PatchedTextsSettleHolds == Spec => []PatchedTextsSettle
  <1>1. Init => SettleInv
    BY DEF Init, SettleInv
  <1>2. TextInv /\ SettleInv => PatchedTextsSettle
    <2>. SUFFICES ASSUME TextInv, SettleInv, phase = "idle", outcome = "finished", clean,
                         NEW f \in PatchedNames, text[f] # NoText
                  PROVE  Patched(f, text[f]) = text[f]
      BY DEF PatchedTextsSettle, NeedsPatch
    <2>1. Settled(f, text[f])
      BY DEF SettleInv, SettledAt
    <2>. QED BY <2>1, SettledTextPasses DEF TextInv, TextsOK, TextOK
  <1>. QED BY <1>1, <1>2, SettleNext, TextHolds, PTL DEF Spec

-----------------------------------------------------------------------------
(* The generated files.                                                    *)

Contents == {Absent} \cup [program : Programs, whole : BOOLEAN]

LEMMA NamesOfFiles ==
    /\ Runtime \in Names /\ Functions \in Names /\ JumpTable \in Names
    /\ Runtime # Functions /\ Runtime # JumpTable /\ Functions # JumpTable
    /\ Runtime \notin AllBatches /\ Functions \notin AllBatches /\ JumpTable \notin AllBatches
    /\ AllBatches \subseteq Names
    /\ \A n \in Names : n = Runtime \/ n = Functions \/ n = JumpTable \/ n \in AllBatches
  <1>1. \A b \in AllBatches : b[1] = "batch"
    BY DEF AllBatches, Batches, Batch
  <1>2. /\ Runtime[1] = "recomp_runtime.h" /\ Functions[1] = "functions.h"
        /\ JumpTable[1] = "jump_table.c"
    BY DEF Runtime, Functions, JumpTable
  <1>. QED BY <1>1, <1>2 DEF Names

LEMMA BatchesOf ==
    /\ \A p \in Programs : Batches(p) \subseteq AllBatches /\ BatchCount(p) \in Nat
    /\ \A p \in Programs : \A b :
          b \in Batches(p) <=> \E i \in 0..(BatchCount(p) - 1) : b = Batch(i)
    /\ \A i, j : Batch(i) = Batch(j) => i = j
  <1>1. \A p \in Programs : BatchCount(p) \in Nat
    <2>. SUFFICES ASSUME NEW p \in Programs
                  PROVE  BatchCount(p) \in Nat
      OBVIOUS
    <2>1. FunctionCount[p] \in Nat \ {0} /\ BatchSize \in Nat \ {0}
      BY OutputAssumption
    <2>2. \A a, b \in Nat \ {0} : (a + b - 1) \div b \in Nat
      OBVIOUS
    <2>. QED BY <2>1, <2>2 DEF BatchCount
  <1>2. \A i, j : Batch(i) = Batch(j) => i = j
    BY DEF Batch
  <1>. QED BY <1>1, <1>2 DEF AllBatches, Batches

(* Open in this run and empty as yet; written by this run and closed.      *)
Opened(n) == n \in open /\ file[n] = [program |-> program, whole |-> FALSE]
Done(n) == n \notin open /\ file[n] = [program |-> program, whole |-> TRUE]

(* The batches up to the current one.                                      *)
Begun(b) == \E i \in 0..(step - 1) : b = Batch(i)

Late == {"stubs", "create", "patch", "write"}

(* As long as every file could be opened: which files are open, written or *)
(* absent in each phase, and that a finished run left one program.         *)
CleanInv ==
    /\ phase \in {"functions", "batches"} \cup Late => Opened(Runtime)
    /\ phase \in {"batches"} \cup Late => Done(Functions)
    /\ phase \in Late => Opened(JumpTable)
    /\ phase = "functions" => \A b \in AllBatches : file[b] = Absent
    /\ phase = "batches" => \A b \in AllBatches :
          IF Begun(b) THEN Opened(b) \/ Done(b) ELSE b \notin open /\ file[b] = Absent
    /\ phase \in Late => \A b \in AllBatches :
          IF b \in Batches(program) THEN Done(b) ELSE file[b] = Absent
    /\ OutputIsOneProgram

FilesInv ==
    /\ file \in [Names -> Contents]
    /\ program \in Programs
    /\ open \subseteq Names
    /\ phase \in {"idle", "clear", "functions", "batches"} \cup Late
    /\ phase \in {"idle", "clear"} => open = {}
    /\ phase \in {"functions"} \cup Late => open \cap AllBatches = {}
    /\ \A n \in open : file[n] = [program |-> program, whole |-> FALSE]
    /\ phase = "functions" /\ Functions \in open => step = 0
    /\ phase = "batches" => step \in 0..BatchCount(program)
    /\ phase \in {"create", "write"} \/ buffer = NoText
    /\ clean => CleanInv

(* A file that could be opened, and one that could not.                    *)
LEMMA OpenFileEffect ==
    ASSUME FilesInv, NEW n \in Names, OpenFile(n), program' = program
    PROVE  /\ file' \in [Names -> Contents] /\ open' \subseteq Names
           /\ \A m \in open' : file'[m] = [program |-> program, whole |-> FALSE]
           /\ open \subseteq open' /\ open' \subseteq open \cup {n}
           /\ \A m \in Names : m # n => file'[m] = file[m]
           /\ clean' => clean /\ Opened(n)'
  <1>1. CASE /\ file' = [file EXCEPT ![n] = [program |-> program, whole |-> FALSE]]
             /\ open' = open \cup {n} /\ clean' = clean
    <2>1. [program |-> program, whole |-> FALSE] \in Contents
      BY DEF FilesInv, Contents
    <2>. QED BY <1>1, <2>1 DEF FilesInv, Opened
  <1>2. CASE clean' = FALSE /\ UNCHANGED <<file, open>>
    BY <1>2 DEF FilesInv
  <1>. QED BY <1>1, <1>2 DEF OpenFile

LEMMA CloseFilesEffect ==
    ASSUME FilesInv, NEW N, CloseFiles(N)
    PROVE  /\ file' \in [Names -> Contents] /\ open' = open \ N
           /\ \A m \in Names : file'[m] = IF m \in N /\ m \in open
                                          THEN [program |-> program, whole |-> TRUE]
                                          ELSE file[m]
  <1>1. \A m \in Names : file'[m] = IF m \in N /\ m \in open THEN [file[m] EXCEPT !.whole = TRUE]
                                    ELSE file[m]
    BY DEF CloseFiles
  <1>2. \A m \in open : [file[m] EXCEPT !.whole = TRUE] = [program |-> program, whole |-> TRUE]
    <2>. SUFFICES ASSUME NEW m \in open
                  PROVE  [file[m] EXCEPT !.whole = TRUE] = [program |-> program, whole |-> TRUE]
      OBVIOUS
    <2>. DEFINE R == [program : {program}, whole : BOOLEAN]
                r == [file[m] EXCEPT !.whole = TRUE]
                v == [program |-> program, whole |-> TRUE]
    <2>1. file[m] = [program |-> program, whole |-> FALSE]
      BY DEF FilesInv
    <2>. HIDE DEF r
    <2>2. /\ \A x \in R : [x EXCEPT !.whole = TRUE] \in R /\ [x EXCEPT !.whole = TRUE].whole = TRUE
          /\ v \in R /\ v.whole = TRUE
      OBVIOUS
    <2>3. file[m] \in R
      BY <2>1
    <2>4. \A x, y \in R : x.whole = y.whole => x = y
      OBVIOUS
    <2>. HIDE DEF R, v
    <2>5. r \in R /\ r.whole = TRUE
      BY <2>2, <2>3 DEF r
    <2>6. r = v
      BY <2>2, <2>4, <2>5
    <2>. QED BY <2>6 DEF r, v
  <1>3. [program |-> program, whole |-> TRUE] \in Contents
    BY DEF FilesInv, Contents
  <1>4. \A m \in Names : file'[m] \in Contents
    BY <1>1, <1>2, <1>3 DEF FilesInv
  <1>5. file' = [m \in Names |-> file'[m]] /\ open' = open \ N
    BY DEF CloseFiles
  <1>. QED BY <1>1, <1>2, <1>4, <1>5

(* The steps on the patched texts.                                         *)
OnTexts ==
    /\ UNCHANGED <<file, program, open>>
    /\ outcome' = outcome /\ (clean' => clean)
    /\ \/ phase \in Late /\ phase' \in Late
       \/ phase = "idle" /\ phase' = "idle"
    /\ phase' \in {"create", "write"} \/ buffer' = NoText

LEMMA OnTextsSteps ==
    FilesInv /\ (EmitStubs \/ WriteStubs \/ SkipPatch \/ Patch \/ WritePatched \/ AddHook
                 \/ RemoveAnchor)
    => OnTexts
  <1>. SUFFICES ASSUME FilesInv
                PROVE  EmitStubs \/ WriteStubs \/ SkipPatch \/ Patch \/ WritePatched \/ AddHook
                       \/ RemoveAnchor => OnTexts
    OBVIOUS
  <1>1. EmitStubs => OnTexts
    BY DEF FilesInv, EmitStubs, OnTexts, Late
  <1>2. WriteStubs \/ SkipPatch => OnTexts
    BY DEF FilesInv, WriteStubs, SkipPatch, OnTexts, Late
  <1>3. Patch => OnTexts
    BY DEF FilesInv, Patch, OnTexts, Late
  <1>4. WritePatched => OnTexts
    BY DEF FilesInv, WritePatched, OnTexts, Late
  <1>5. AddHook \/ RemoveAnchor => OnTexts
    BY DEF FilesInv, AddHook, RemoveAnchor, Edit, OnTexts
  <1>. QED BY <1>1, <1>2, <1>3, <1>4, <1>5

LEMMA FilesInit == Init => FilesInv
  BY DEF Init, FilesInv, CleanInv, OutputIsOneProgram, Contents, Late

(* Every step keeps the files of one program together.                     *)
LEMMA FilesNext == FilesInv /\ [Next]_vars => FilesInv'
  <1>. SUFFICES ASSUME FilesInv, [Next]_vars
                PROVE  FilesInv'
    OBVIOUS
  <1>1. CASE Begin
    BY <1>1 DEF Begin, FilesInv, CleanInv, OutputIsOneProgram, Late
  <1>2. CASE ClearBatch
    <2>1. /\ phase = "clear" /\ phase' = "clear" /\ open = {}
          /\ UNCHANGED <<program, open, buffer>>
      BY <1>2 DEF ClearBatch, FilesInv
    <2>2. PICK b \in Stale : file' = [file EXCEPT ![b] = Absent]
      BY <1>2 DEF ClearBatch
    <2>3. file' \in [Names -> Contents]
      BY <2>2 DEF FilesInv, Contents
    <2>. QED BY <2>1, <2>3 DEF FilesInv, CleanInv, OutputIsOneProgram, Late
  <1>3. CASE EmitRuntime
    <2>1. /\ OpenFile(Runtime) /\ phase = "clear" /\ phase' = "functions"
          /\ UNCHANGED <<program, buffer>>
          /\ \A b \in AllBatches : file[b] = Absent
      BY <1>3 DEF EmitRuntime, Stale
    <2>2. /\ file' \in [Names -> Contents] /\ open' \subseteq Names
          /\ \A m \in open' : file'[m] = [program |-> program, whole |-> FALSE]
          /\ open' \subseteq open \cup {Runtime}
          /\ \A m \in Names : m # Runtime => file'[m] = file[m]
          /\ clean' => clean /\ Opened(Runtime)'
      BY <2>1, OpenFileEffect, NamesOfFiles
    <2>3. open = {}
      BY <2>1 DEF FilesInv
    <2>4. CleanInv' \/ ~clean'
      BY <2>1, <2>2, NamesOfFiles DEF CleanInv, OutputIsOneProgram, Late
    <2>. QED BY <2>1, <2>2, <2>3, <2>4, NamesOfFiles DEF FilesInv, Late
  <1>4. CASE EmitFunctions
    <2>1. /\ OpenFile(Functions) /\ phase = "functions" /\ Functions \notin open
          /\ phase' = IF Functions \in open' THEN "functions" ELSE "batches"
          /\ step' = 0 /\ UNCHANGED <<program, buffer>>
      BY <1>4 DEF EmitFunctions
    <2>2. /\ file' \in [Names -> Contents] /\ open' \subseteq Names
          /\ \A m \in open' : file'[m] = [program |-> program, whole |-> FALSE]
          /\ open \subseteq open' /\ open' \subseteq open \cup {Functions}
          /\ \A m \in Names : m # Functions => file'[m] = file[m]
          /\ clean' => clean /\ Opened(Functions)'
      BY <2>1, OpenFileEffect, NamesOfFiles
    <2>3. CleanInv' \/ ~clean'
      <3>1. SUFFICES ASSUME clean'
                     PROVE  CleanInv'
        OBVIOUS
      <3>2. phase' = "functions" /\ clean
        BY <2>1, <2>2, <3>1 DEF Opened
      <3>3. Opened(Runtime) /\ \A b \in AllBatches : file[b] = Absent
        BY <2>1, <3>2 DEF FilesInv, CleanInv
      <3>4. Opened(Runtime)' /\ \A b \in AllBatches : file'[b] = Absent
        BY <2>1, <2>2, <3>3, NamesOfFiles DEF Opened
      <3>. QED BY <3>2, <3>4 DEF CleanInv, OutputIsOneProgram, Late
    <2>4. BatchCount(program)' = BatchCount(program) /\ BatchCount(program) \in Nat
      BY <2>1, BatchesOf DEF FilesInv, BatchCount
    <2>5. 0 \in 0..BatchCount(program)
      BY <2>4
    <2>6. open' \cap AllBatches = {}
      BY <2>1, <2>2, NamesOfFiles DEF FilesInv
    <2>. QED BY <2>1, <2>2, <2>3, <2>4, <2>5, <2>6 DEF FilesInv, Late
  <1>5. CASE CloseFunctions
    <2>1. /\ CloseFiles({Functions}) /\ phase = "functions" /\ Functions \in open
          /\ phase' = "batches" /\ UNCHANGED <<program, buffer, clean, step>>
      BY <1>5 DEF CloseFunctions
    <2>2. /\ file' \in [Names -> Contents] /\ open' = open \ {Functions}
          /\ \A m \in Names : file'[m] = IF m = Functions
                                         THEN [program |-> program, whole |-> TRUE]
                                         ELSE file[m]
      BY <2>1, CloseFilesEffect
    <2>3. CleanInv' \/ ~clean'
      <3>1. SUFFICES ASSUME clean
                     PROVE  CleanInv'
        BY <2>1
      <3>2. Opened(Runtime) /\ Opened(Functions) /\ \A b \in AllBatches : file[b] = Absent
        BY <2>1, <3>1 DEF FilesInv, CleanInv, Opened
      <3>3. /\ Opened(Runtime)' /\ Done(Functions)'
            /\ \A b \in AllBatches : b \notin open' /\ file'[b] = Absent
        BY <2>1, <2>2, <3>2, NamesOfFiles DEF FilesInv, Opened, Done
      <3>4. step' = 0
        BY <2>1 DEF FilesInv
      <3>5. \A b : ~Begun(b)'
        BY <3>4 DEF Begun
      <3>. QED BY <2>1, <3>3, <3>5 DEF CleanInv, OutputIsOneProgram, Late
    <2>4. BatchCount(program)' = BatchCount(program) /\ BatchCount(program) \in Nat
      BY <2>1, BatchesOf DEF FilesInv, BatchCount
    <2>5. step' = 0 /\ 0 \in 0..BatchCount(program)
      BY <2>1, <2>4 DEF FilesInv
    <2>6. \A m \in open' : file'[m] = [program |-> program, whole |-> FALSE]
      BY <2>2 DEF FilesInv
    <2>. QED BY <2>1, <2>2, <2>3, <2>4, <2>5, <2>6 DEF FilesInv, Late
  <1>6. CASE EmitBatch
    <2>0. PICK n : n = Batch(step)
      OBVIOUS
    <2>1. /\ OpenFile(n) /\ phase = "batches" /\ phase' = "batches"
          /\ step < BatchCount(program) /\ open \cap AllBatches = {}
          /\ step' = step + 1 /\ UNCHANGED <<program, buffer>>
      BY <1>6, <2>0 DEF EmitBatch
    <2>2. step \in Nat /\ BatchCount(program) \in Nat /\ BatchCount(program)' = BatchCount(program)
      BY <2>1, BatchesOf DEF FilesInv, BatchCount
    <2>3. step' \in 0..BatchCount(program) /\ step \in 0..(BatchCount(program) - 1)
      BY <2>1, <2>2
    <2>4. n \in AllBatches
      BY <2>0, <2>3, BatchesOf DEF FilesInv
    <2>5. /\ file' \in [Names -> Contents] /\ open' \subseteq Names
          /\ \A m \in open' : file'[m] = [program |-> program, whole |-> FALSE]
          /\ open \subseteq open' /\ open' \subseteq open \cup {n}
          /\ \A m \in Names : m # n => file'[m] = file[m]
          /\ clean' => clean /\ Opened(n)'
      BY <2>1, <2>4, OpenFileEffect, NamesOfFiles
    <2>6. CleanInv' \/ ~clean'
      <3>1. SUFFICES ASSUME clean'
                     PROVE  CleanInv'
        OBVIOUS
      <3>2. /\ Opened(Runtime) /\ Done(Functions)
            /\ \A b \in AllBatches : IF Begun(b) THEN Opened(b) \/ Done(b)
                                     ELSE b \notin open /\ file[b] = Absent
        BY <2>1, <2>5, <3>1 DEF FilesInv, CleanInv
      <3>3. Opened(Runtime)' /\ Done(Functions)'
        BY <2>1, <2>4, <2>5, <3>2, NamesOfFiles DEF Opened, Done
      <3>4. \A b \in AllBatches : b # n => IF Begun(b) THEN Opened(b)' \/ Done(b)'
                                           ELSE b \notin open' /\ file'[b] = Absent
        BY <2>1, <2>4, <2>5, <3>2, NamesOfFiles DEF Opened, Done
      <3>5. \A b : Begun(b)' <=> Begun(b) \/ b = n
        BY <2>0, <2>1, <2>2 DEF Begun
      <3>6. Opened(n)'
        BY <2>5, <3>1
      <3>7. ASSUME NEW b \in AllBatches
            PROVE  IF Begun(b)' THEN Opened(b)' \/ Done(b)' ELSE b \notin open' /\ file'[b] = Absent
        <4>1. CASE b = n
          BY <3>5, <3>6, <4>1
        <4>2. CASE b # n
          BY <3>4, <3>5, <4>2
        <4>. QED BY <4>1, <4>2
      <3>. QED BY <2>1, <3>3, <3>7 DEF CleanInv, OutputIsOneProgram, Late
    <2>. QED BY <2>1, <2>2, <2>3, <2>5, <2>6 DEF FilesInv, Late
  <1>7. CASE CloseBatch
    <2>1. /\ CloseFiles(AllBatches) /\ phase = "batches" /\ phase' = "batches"
          /\ UNCHANGED <<program, buffer, clean, step>>
      BY <1>7 DEF CloseBatch
    <2>2. /\ file' \in [Names -> Contents] /\ open' = open \ AllBatches
          /\ \A m \in Names : file'[m] = IF m \in AllBatches /\ m \in open
                                         THEN [program |-> program, whole |-> TRUE]
                                         ELSE file[m]
      BY <2>1, CloseFilesEffect
    <2>3. CleanInv' \/ ~clean'
      <3>1. SUFFICES ASSUME clean
                     PROVE  CleanInv'
        BY <2>1
      <3>2. /\ Opened(Runtime) /\ Done(Functions)
            /\ \A b \in AllBatches : IF Begun(b) THEN Opened(b) \/ Done(b)
                                     ELSE b \notin open /\ file[b] = Absent
        BY <2>1, <3>1 DEF FilesInv, CleanInv
      <3>3. Opened(Runtime)' /\ Done(Functions)'
        BY <2>1, <2>2, <3>2, NamesOfFiles DEF Opened, Done
      <3>4. \A b \in AllBatches : IF Begun(b) THEN Done(b)'
                                     ELSE b \notin open' /\ file'[b] = Absent
        <4>1. \A b \in AllBatches : b \in open => Begun(b)
          BY <3>2
        <4>. QED BY <2>1, <2>2, <3>2, <4>1, NamesOfFiles DEF Opened, Done
      <3>5. \A b : Begun(b)' <=> Begun(b)
        BY <2>1 DEF Begun
      <3>. QED BY <2>1, <3>3, <3>4, <3>5 DEF CleanInv, OutputIsOneProgram, Late
    <2>4. BatchCount(program)' = BatchCount(program)
      BY <2>1
    <2>5. \A m \in open' : file'[m] = [program |-> program, whole |-> FALSE]
      BY <2>2 DEF FilesInv
    <2>. QED BY <2>1, <2>2, <2>3, <2>4, <2>5 DEF FilesInv, Late
  <1>8. CASE EmitJumpTable
    <2>1. /\ OpenFile(JumpTable) /\ phase = "batches" /\ phase' = "stubs"
          /\ step = BatchCount(program) /\ open \cap AllBatches = {}
          /\ UNCHANGED <<program, buffer>>
      BY <1>8 DEF EmitJumpTable
    <2>2. /\ file' \in [Names -> Contents] /\ open' \subseteq Names
          /\ \A m \in open' : file'[m] = [program |-> program, whole |-> FALSE]
          /\ open \subseteq open' /\ open' \subseteq open \cup {JumpTable}
          /\ \A m \in Names : m # JumpTable => file'[m] = file[m]
          /\ clean' => clean /\ Opened(JumpTable)'
      BY <2>1, OpenFileEffect, NamesOfFiles
    <2>3. CleanInv' \/ ~clean'
      <3>1. SUFFICES ASSUME clean'
                     PROVE  CleanInv'
        OBVIOUS
      <3>2. /\ Opened(Runtime) /\ Done(Functions)
            /\ \A b \in AllBatches : IF Begun(b) THEN Opened(b) \/ Done(b)
                                     ELSE b \notin open /\ file[b] = Absent
        BY <2>1, <2>2, <3>1 DEF FilesInv, CleanInv
      <3>3. Opened(Runtime)' /\ Done(Functions)' /\ Opened(JumpTable)'
        BY <2>1, <2>2, <3>1, <3>2, NamesOfFiles DEF Opened, Done
      <3>4. \A b : Begun(b) <=> b \in Batches(program)
        BY <2>1, BatchesOf DEF FilesInv, Begun
      <3>5. \A b \in AllBatches : IF b \in Batches(program) THEN Done(b)' ELSE file'[b] = Absent
        BY <2>1, <2>2, <3>2, <3>4, NamesOfFiles DEF Opened, Done
      <3>6. Batches(program)' = Batches(program)
        BY <2>1
      <3>. QED BY <2>1, <3>3, <3>5, <3>6 DEF CleanInv, OutputIsOneProgram, Late
    <2>4. open' \cap AllBatches = {}
      BY <2>1, <2>2, NamesOfFiles
    <2>. QED BY <2>1, <2>2, <2>3, <2>4 DEF FilesInv, Late
  <1>9. CASE OnTexts
    <2>1. Batches(program)' = Batches(program)
      BY <1>9 DEF OnTexts
    <2>2. clean' => CleanInv'
      BY <1>9, <2>1 DEF OnTexts, FilesInv, CleanInv, OutputIsOneProgram, Opened, Done, Late
    <2>. QED BY <1>9, <2>2 DEF OnTexts, FilesInv, Late
  <1>10. CASE Return
    <2>1. /\ CloseFiles(open) /\ phase = "patch" /\ phase' = "idle" /\ buffer = NoText
          /\ UNCHANGED <<program, buffer, clean>>
      BY <1>10 DEF Return, FilesInv
    <2>2. /\ file' \in [Names -> Contents] /\ open' = {}
          /\ \A m \in Names : file'[m] = IF m \in open
                                         THEN [program |-> program, whole |-> TRUE]
                                         ELSE file[m]
      BY <2>1, CloseFilesEffect
    <2>3. CleanInv' \/ ~clean'
      <3>1. SUFFICES ASSUME clean
                     PROVE  CleanInv'
        BY <2>1
      <3>2. /\ Opened(Runtime) /\ Done(Functions) /\ Opened(JumpTable)
            /\ \A b \in AllBatches : IF b \in Batches(program) THEN Done(b) ELSE file[b] = Absent
            /\ open \cap AllBatches = {}
        BY <2>1, <3>1 DEF FilesInv, CleanInv, Late
      <3>3. /\ \A n \in {Runtime, Functions, JumpTable} :
                  file'[n] = [program |-> program, whole |-> TRUE]
            /\ \A b \in AllBatches : file'[b] = IF b \in Batches(program)
                                                THEN [program |-> program, whole |-> TRUE]
                                                ELSE Absent
        BY <2>2, <3>2, NamesOfFiles DEF Opened, Done
      <3>4. \A n \in Names :
                file'[n] = IF n \in FilesOf(program) THEN [program |-> program, whole |-> TRUE]
                           ELSE Absent
        BY <3>3, NamesOfFiles DEF FilesOf
      <3>5. FilesOf(program)' = FilesOf(program)
        BY <2>1
      <3>6. OutputIsOneProgram'
        BY <2>1, <3>4, <3>5 DEF OutputIsOneProgram
      <3>. QED BY <2>1, <3>6 DEF CleanInv, Late
    <2>. QED BY <2>1, <2>2, <2>3 DEF FilesInv, Late
  <1>11. CASE Crash
    <2>1. /\ UNCHANGED <<file, program>> /\ phase' = "idle" /\ open' = {} /\ buffer' = NoText
          /\ outcome' = "crashed"
      BY <1>11 DEF Crash
    <2>. QED BY <2>1 DEF FilesInv, CleanInv, OutputIsOneProgram, Late
  <1>12. CASE UNCHANGED vars
    <2>1. Batches(program)' = Batches(program) /\ BatchCount(program)' = BatchCount(program)
      BY <1>12 DEF vars
    <2>. QED
      BY <1>12, <2>1 DEF vars, FilesInv, CleanInv, OutputIsOneProgram, Opened, Done, Begun, Late
  <1>. QED
    BY <1>1, <1>2, <1>3, <1>4, <1>5, <1>6, <1>7, <1>8, <1>9, <1>10, <1>11, <1>12, OnTextsSteps
       DEF Next, Run

LEMMA FilesHold == Spec => []FilesInv
  BY FilesInit, FilesNext, PTL DEF Spec

(* The generated files, the texts and what is written back to them are     *)
(* well-formed at every step of every run.                                 *)
THEOREM OutputTypeCorrect == Spec => []TypeOK
  <1>1. FilesInv /\ TextInv => TypeOK
    <2>. SUFFICES ASSUME FilesInv, TextInv
                  PROVE  TypeOK
      OBVIOUS
    <2>1. phase = "create" => buffer # NoText
      BY FreshStubsOK, TextIsThere, HunkTable DEF TextInv, WritesOK, TextOK
    <2>2. phase = "write" => buffer # NoText
      BY TextIsThere, Order DEF TextInv, WritesOK, TextOK, Current
    <2>3. phase \in {"create", "write"} <=> buffer # NoText
      BY <2>1, <2>2 DEF FilesInv
    <2>4. \A f \in PatchedNames : text[f] = NoText \/ text[f] \in Text(f)
      BY DEF TextInv, TextsOK, TextOK
    <2>. QED BY <2>3, <2>4 DEF FilesInv, TextInv, HooksOK, TypeOK, Contents, Late
  <1>. QED BY <1>1, FilesHold, TextHolds, PTL

(* A run that could open its files leaves one program in the directory,    *)
(* every file of it whole and no other batch file, whatever was there.     *)
THEOREM OutputIsOneProgramHolds == Spec => []OutputIsOneProgram
  <1>1. FilesInv => OutputIsOneProgram
    BY DEF FilesInv, CleanInv, OutputIsOneProgram
  <1>. QED BY <1>1, FilesHold, PTL
=============================================================================
