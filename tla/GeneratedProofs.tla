--------------------------- MODULE GeneratedProofs ---------------------------
(***************************************************************************)
(* The emitted code takes the guest's path while the guest does what has a *)
(* translation, on every image and for every seeding that leave the output *)
(* translatable.  The argument is about the host's stack: which open guest *)
(* call each activation of call_by_addr stands for, and which ones are     *)
(* local to the body that runs above it.  The stack is treated first, as   *)
(* data; then each step of the emitted code is one of the guest machine,   *)
(* or none.                                                                *)
(***************************************************************************)
EXTENDS EmittedProofs, GeneratedCode, SequenceTheorems

-----------------------------------------------------------------------------
(* A stack F of n activations, below the body top, while m calls are open: *)
(* locals[f] is where the local calls of body f come back to, and          *)
(* sites[<<f, b>>] where the call at the end of block b does, if it is not *)
(* local in f.                                                             *)
Depth(F, i) == IF i = 1 THEN 0 ELSE F[i - 1].depth

BodyAt(F, n, top, i) == IF i <= n THEN F[i].fn ELSE top

(* The calls that were made by activation i and are local to its body.     *)
Between(F, n, i, k) == Depth(F, i) < k /\ (i <= n => k < F[i].depth)

FrameAwaits(f, below, open, sites) ==
    IF f.tail THEN f.depth = below
    ELSE /\ below < f.depth
         /\ <<f.fn, f.blk>> \in DOMAIN sites
         /\ open[f.depth] = sites[<<f.fn, f.blk>>]

Stacked(F, n, top, open, m, locals, sites) ==
    /\ \A i \in 1..n : F[i].depth \in 0..Depth(F, n + 1)
    /\ \A i, j \in 1..n : i <= j => F[i].depth <= F[j].depth
    /\ Depth(F, n + 1) \in 0..m
    /\ \A i \in 1..n : FrameAwaits(F[i], Depth(F, i), open, sites)
    /\ \A i \in 1..(n + 1), k \in 1..m :
          Between(F, n, i, k) => open[k] \in locals[BodyAt(F, n, top, i)]

(* The depths are those of a longer stack.                                 *)
LEMMA SameDepths ==
    ASSUME NEW n \in Nat, NEW F, NEW G, \A i \in 1..n : G[i] = F[i]
    PROVE  \A i \in 1..(n + 1) : Depth(G, i) = Depth(F, i)
<1>1. \A i \in 1..(n + 1) : i # 1 => i - 1 \in 1..n
  OBVIOUS
<1>2. QED BY <1>1 DEF Depth

LEMMA NextDepth ==
    ASSUME NEW n \in Nat, NEW G
    PROVE  Depth(G, n + 2) = G[n + 1].depth
<1>1. n + 2 # 1 /\ (n + 2) - 1 = n + 1
  OBVIOUS
<1>2. QED BY <1>1 DEF Depth

LEMMA DepthTypes ==
    ASSUME NEW n \in Nat, NEW m \in Nat, NEW F, NEW open, NEW top, NEW locals, NEW sites,
           Stacked(F, n, top, open, m, locals, sites)
    PROVE  /\ \A i \in 1..n : F[i].depth \in Nat /\ F[i].depth <= m
           /\ \A i \in 1..(n + 1) : Depth(F, i) \in Nat /\ Depth(F, i) <= m
<1>1. Depth(F, n + 1) \in Nat /\ Depth(F, n + 1) <= m
  BY DEF Stacked
<1>2. \A i \in 1..n : F[i].depth \in Nat /\ F[i].depth <= m
  BY <1>1 DEF Stacked
<1>3. \A i \in 1..(n + 1) : i # 1 => i - 1 \in 1..n
  OBVIOUS
<1>4. QED BY <1>2, <1>3 DEF Depth

(* Pushing an activation for a transfer, which opens no call, or for a     *)
(* call that is not local, which opens one.                                *)
LEMMA Pushed ==
    ASSUME NEW n \in Nat, NEW m \in Nat, NEW F, NEW open, NEW top, NEW locals, NEW sites,
           Stacked(F, n, top, open, m, locals, sites),
           NEW G, \A i \in 1..n : G[i] = F[i],
           G[n + 1].fn = top,
           NEW l \in {m, m + 1}, NEW more, \A k \in 1..m : more[k] = open[k],
           G[n + 1].depth = l, FrameAwaits(G[n + 1], Depth(F, n + 1), more, sites),
           NEW next
    PROVE  Stacked(G, n + 1, next, more, l, locals, sites)
<1>1. /\ \A i \in 1..n : F[i].depth \in Nat /\ F[i].depth <= m
      /\ \A i \in 1..(n + 1) : Depth(F, i) \in Nat /\ Depth(F, i) <= m
  BY DepthTypes
<1>2. /\ \A i \in 1..(n + 1) : Depth(G, i) = Depth(F, i)
      /\ Depth(G, n + 2) = l
  BY SameDepths, NextDepth
<1>3. /\ \A i, j \in 1..n : i <= j => F[i].depth <= F[j].depth
      /\ \A i \in 1..n : FrameAwaits(F[i], Depth(F, i), open, sites)
      /\ \A i \in 1..(n + 1), k \in 1..m :
            Between(F, n, i, k) => open[k] \in locals[BodyAt(F, n, top, i)]
  BY DEF Stacked
<1>4. (n + 1) + 1 = n + 2 /\ l \in Nat /\ m <= l /\ l <= m + 1
  OBVIOUS
<1>5. \A i \in 1..(n + 1) : G[i].depth \in 0..l
  BY <1>1, <1>4
<1>6. \A i, j \in 1..(n + 1) : i <= j => G[i].depth <= G[j].depth
  <2>1. ASSUME NEW i \in 1..(n + 1), NEW j \in 1..(n + 1), i <= j
        PROVE  G[i].depth <= G[j].depth
    <3>1. CASE j = n + 1
      BY <1>5, <3>1
    <3>2. CASE j # n + 1
      <4>1. i \in 1..n /\ j \in 1..n
        BY <2>1, <3>2
      <4>2. QED BY <1>3, <2>1, <4>1
    <3>3. QED BY <3>1, <3>2
  <2>2. QED BY <2>1
<1>7. ASSUME NEW i \in 1..(n + 1) PROVE FrameAwaits(G[i], Depth(G, i), more, sites)
  <2>1. CASE i = n + 1
    BY <1>2, <2>1
  <2>2. CASE i \in 1..n
    <3>1. G[i] = F[i] /\ Depth(G, i) = Depth(F, i) /\ FrameAwaits(F[i], Depth(F, i), open, sites)
      BY <1>2, <1>3, <2>2
    <3>2. Depth(F, i) < F[i].depth => F[i].depth \in 1..m
      BY <1>1, <2>2
    <3>3. QED BY <3>1, <3>2 DEF FrameAwaits
  <2>3. QED BY <2>1, <2>2
<1>8. ASSUME NEW i \in 1..(n + 2), NEW k \in 1..l, Between(G, n + 1, i, k)
      PROVE  more[k] \in locals[BodyAt(G, n + 1, next, i)]
  <2>1. i \in 1..(n + 1)
    <3>1. i # n + 2
      BY <1>2, <1>4, <1>8 DEF Between
    <3>2. QED BY <3>1
  <2>2. Depth(F, i) < k /\ k < G[i].depth /\ BodyAt(G, n + 1, next, i) = G[i].fn
    BY <1>2, <1>8, <2>1 DEF Between, BodyAt
  <2>3. k \in 1..m
    BY <1>4, <1>5, <2>1, <2>2
  <2>4. BodyAt(F, n, top, i) = G[i].fn /\ Between(F, n, i, k)
    <3>1. CASE i = n + 1
      BY <2>2, <3>1 DEF BodyAt, Between
    <3>2. CASE i \in 1..n
      BY <2>2, <3>2 DEF BodyAt, Between
    <3>3. QED BY <2>1, <3>1, <3>2
  <2>5. QED BY <1>3, <2>1, <2>2, <2>3, <2>4
<1>9. QED BY <1>2, <1>4, <1>5, <1>6, <1>7, <1>8 DEF Stacked

(* A local call opens one more call of the running body.                   *)
LEMMA LocallyOpened ==
    ASSUME NEW n \in Nat, NEW m \in Nat, NEW F, NEW open, NEW top, NEW locals, NEW sites,
           Stacked(F, n, top, open, m, locals, sites),
           NEW more, \A k \in 1..m : more[k] = open[k], more[m + 1] \in locals[top]
    PROVE  Stacked(F, n, top, more, m + 1, locals, sites)
<1>1. /\ \A i \in 1..n : F[i].depth \in Nat /\ F[i].depth <= m
      /\ \A i \in 1..(n + 1) : Depth(F, i) \in Nat /\ Depth(F, i) <= m
  BY DepthTypes
<1>2. /\ \A i \in 1..n : F[i].depth \in 0..Depth(F, n + 1)
      /\ \A i, j \in 1..n : i <= j => F[i].depth <= F[j].depth
      /\ \A i \in 1..n : FrameAwaits(F[i], Depth(F, i), open, sites)
      /\ \A i \in 1..(n + 1), k \in 1..m :
            Between(F, n, i, k) => open[k] \in locals[BodyAt(F, n, top, i)]
  BY DEF Stacked
<1>3. ASSUME NEW i \in 1..n PROVE FrameAwaits(F[i], Depth(F, i), more, sites)
  <2>1. Depth(F, i) < F[i].depth => F[i].depth \in 1..m
    BY <1>1
  <2>2. QED BY <1>2, <2>1 DEF FrameAwaits
<1>4. ASSUME NEW i \in 1..(n + 1), NEW k \in 1..(m + 1), Between(F, n, i, k)
      PROVE  more[k] \in locals[BodyAt(F, n, top, i)]
  <2>1. CASE k \in 1..m
    BY <1>2, <1>4, <2>1
  <2>2. CASE k = m + 1
    <3>1. ~(i <= n)
      BY <1>1, <1>4, <2>2 DEF Between
    <3>2. QED BY <2>2, <3>1 DEF BodyAt
  <2>3. QED BY <2>1, <2>2
<1>5. Depth(F, n + 1) \in 0..(m + 1)
  BY <1>1
<1>6. QED BY <1>2, <1>3, <1>4, <1>5 DEF Stacked

(* A return to a local call of the running body.                           *)
LEMMA LocallyClosed ==
    ASSUME NEW n \in Nat, NEW m \in Nat, NEW F, NEW open, NEW top, NEW locals, NEW sites,
           Stacked(F, n, top, open, m, locals, sites),
           Depth(F, n + 1) < m, NEW less, \A k \in 1..(m - 1) : less[k] = open[k]
    PROVE  Stacked(F, n, top, less, m - 1, locals, sites)
<1>1. /\ \A i \in 1..n : F[i].depth \in Nat /\ F[i].depth <= m
      /\ \A i \in 1..(n + 1) : Depth(F, i) \in Nat /\ Depth(F, i) <= m
  BY DepthTypes
<1>2. /\ \A i \in 1..n : F[i].depth \in 0..Depth(F, n + 1)
      /\ \A i, j \in 1..n : i <= j => F[i].depth <= F[j].depth
      /\ \A i \in 1..n : FrameAwaits(F[i], Depth(F, i), open, sites)
      /\ \A i \in 1..(n + 1), k \in 1..m :
            Between(F, n, i, k) => open[k] \in locals[BodyAt(F, n, top, i)]
  BY DEF Stacked
<1>3. ASSUME NEW i \in 1..n PROVE FrameAwaits(F[i], Depth(F, i), less, sites)
  <2>1. Depth(F, n + 1) \in Nat
    BY <1>1
  <2>2. Depth(F, i) < F[i].depth => F[i].depth \in 1..(m - 1)
    BY <1>1, <1>2, <2>1
  <2>3. QED BY <1>2, <2>2 DEF FrameAwaits
<1>4. ASSUME NEW i \in 1..(n + 1), NEW k \in 1..(m - 1), Between(F, n, i, k)
      PROVE  less[k] \in locals[BodyAt(F, n, top, i)]
  BY <1>2, <1>4
<1>5. Depth(F, n + 1) \in 0..(m - 1)
  BY <1>1
<1>6. QED BY <1>2, <1>3, <1>4, <1>5 DEF Stacked

(* The latest open call is local to the running body if more calls are     *)
(* open than when the body was entered; if not, the activation of a call   *)
(* that was not local awaits it.                                           *)
LEMMA LatestCall ==
    ASSUME NEW n \in Nat, NEW m \in Nat \ {0}, NEW F, NEW open, NEW top, NEW locals, NEW sites,
           Stacked(F, n, top, open, m, locals, sites)
    PROVE  \/ Depth(F, n + 1) < m /\ open[m] \in locals[top]
           \/ Depth(F, n + 1) = m /\ \E p \in DOMAIN sites : open[m] = sites[p]
<1>1. /\ \A i \in 1..n : F[i].depth \in Nat /\ F[i].depth <= m
      /\ \A i \in 1..(n + 1) : Depth(F, i) \in Nat /\ Depth(F, i) <= m
  BY DepthTypes
<1>2. /\ \A i \in 1..n : FrameAwaits(F[i], Depth(F, i), open, sites)
      /\ \A i \in 1..(n + 1), k \in 1..m :
            Between(F, n, i, k) => open[k] \in locals[BodyAt(F, n, top, i)]
  BY DEF Stacked
<1>3. CASE Depth(F, n + 1) < m
  <2>1. n + 1 \in 1..(n + 1) /\ m \in 1..m /\ ~(n + 1 <= n)
    OBVIOUS
  <2>2. Between(F, n, n + 1, m) /\ BodyAt(F, n, top, n + 1) = top
    BY <1>3, <2>1 DEF Between, BodyAt
  <2>3. QED BY <1>2, <1>3, <2>1, <2>2
<1>4. CASE Depth(F, n + 1) = m
  <2> DEFINE S == {i \in 1..(n + 1) : Depth(F, i) = m}
  <2>1. S \in SUBSET Nat /\ S # {}
    BY <1>4
  <2>2. PICK i \in S : \A j \in S : i <= j
    <3> HIDE DEF S
    <3>1. QED BY <2>1, LeastExists
  <2>3. i \in 1..(n + 1) /\ Depth(F, i) = m /\ i # 1
    BY <2>2 DEF Depth
  <2>4. i - 1 \in 1..n /\ i - 1 \notin S /\ i - 1 \in 1..(n + 1)
    BY <2>2, <2>3
  <2>5. F[i - 1].depth = m
    BY <2>3 DEF Depth
  <2>6. Depth(F, i - 1) # m
    BY <2>4
  <2>7. FrameAwaits(F[i - 1], Depth(F, i - 1), open, sites)
    BY <1>2, <2>4
  <2>8. \E p \in DOMAIN sites : open[m] = sites[p]
    BY <2>5, <2>6, <2>7 DEF FrameAwaits
  <2>9. QED BY <1>4, <2>8
<1>5. Depth(F, n + 1) \in Nat /\ Depth(F, n + 1) <= m
  BY <1>1
<1>6. QED BY <1>3, <1>4, <1>5

(* A C return takes the innermost activation away.                         *)
LEMMA Popped ==
    ASSUME NEW n \in Nat, NEW m \in Nat, NEW F, NEW open, NEW top, NEW locals, NEW sites,
           NEW p, p = n + 1, Stacked(F, p, top, open, m, locals, sites), Depth(F, p + 1) = m,
           NEW G, \A i \in 1..n : G[i] = F[i],
           NEW less, \A k \in 1..(m - 1) : less[k] = open[k]
    PROVE  /\ F[p].tail => /\ Stacked(G, n, F[p].fn, open, m, locals, sites)
                               /\ Depth(G, n + 1) = m
           /\ ~F[p].tail =>
                 /\ m # 0
                 /\ <<F[p].fn, F[p].blk>> \in DOMAIN sites
                 /\ open[m] = sites[<<F[p].fn, F[p].blk>>]
                 /\ Stacked(G, n, F[p].fn, less, m - 1, locals, sites)
<1>0. Stacked(F, n + 1, top, open, m, locals, sites) /\ Depth(F, n + 2) = m
  <2>1. p + 1 = n + 2
    OBVIOUS
  <2>2. QED BY <2>1
<1>1. /\ \A i \in 1..(n + 1) : F[i].depth \in Nat /\ F[i].depth <= m
      /\ \A i \in 1..(n + 2) : Depth(F, i) \in Nat /\ Depth(F, i) <= m
  <2>1. n + 1 \in Nat /\ (n + 1) + 1 = n + 2
    OBVIOUS
  <2>2. QED BY <1>0, <2>1, DepthTypes
<1>2. /\ \A i, j \in 1..(n + 1) : i <= j => F[i].depth <= F[j].depth
      /\ \A i \in 1..(n + 1) : FrameAwaits(F[i], Depth(F, i), open, sites)
      /\ \A i \in 1..(n + 2), k \in 1..m :
            Between(F, n + 1, i, k) => open[k] \in locals[BodyAt(F, n + 1, top, i)]
  <2>1. (n + 1) + 1 = n + 2
    OBVIOUS
  <2>2. QED BY <1>0, <2>1 DEF Stacked
<1>3. \A i \in 1..(n + 1) : Depth(G, i) = Depth(F, i)
  BY SameDepths
<1>4. F[n + 1].depth = m
  BY <1>0, NextDepth
<1>5. FrameAwaits(F[n + 1], Depth(F, n + 1), open, sites)
  BY <1>2
<1> DEFINE d == Depth(F, n + 1)
<1>6. d \in Nat /\ d <= m
  BY <1>1
<1>7. \A i \in 1..n : F[i].depth \in 0..d
  <2>1. ASSUME NEW i \in 1..n PROVE F[i].depth \in 0..d
    <3>1. n \in 1..n /\ n + 1 # 1 /\ (n + 1) - 1 = n
      OBVIOUS
    <3>2. d = F[n].depth
      BY <3>1 DEF Depth
    <3>3. F[i].depth <= F[n].depth
      BY <1>2, <3>1
    <3>4. QED BY <1>1, <3>2, <3>3
  <2>2. QED BY <2>1
<1>8. ASSUME NEW l \in Nat, d <= l, l <= m, l # m \/ F[n + 1].tail,
             NEW rest, \A k \in 1..l : rest[k] = open[k]
      PROVE  Stacked(G, n, F[n + 1].fn, rest, l, locals, sites)
  <2>1. \A i \in 1..n : G[i].depth \in 0..Depth(G, n + 1)
    BY <1>3, <1>7
  <2>2. \A i, j \in 1..n : i <= j => G[i].depth <= G[j].depth
    BY <1>2
  <2>3. Depth(G, n + 1) \in 0..l
    BY <1>3, <1>6, <1>8
  <2>4. ASSUME NEW i \in 1..n PROVE FrameAwaits(G[i], Depth(G, i), rest, sites)
    <3>1. G[i] = F[i] /\ Depth(G, i) = Depth(F, i) /\ FrameAwaits(F[i], Depth(F, i), open, sites)
      BY <1>2, <1>3
    <3>2. Depth(F, i) < F[i].depth => F[i].depth \in 1..l
      BY <1>1, <1>6, <1>7, <1>8
    <3>3. QED BY <1>8, <3>1, <3>2 DEF FrameAwaits
  <2>5. ASSUME NEW i \in 1..(n + 1), NEW k \in 1..l, Between(G, n, i, k)
        PROVE  rest[k] \in locals[BodyAt(G, n, F[n + 1].fn, i)]
    <3>1. k \in 1..m /\ Depth(F, i) < k /\ BodyAt(F, n + 1, top, i) = F[i].fn
      BY <1>3, <1>8, <2>5 DEF Between, BodyAt
    <3>2. BodyAt(G, n, F[n + 1].fn, i) = F[i].fn
      <4>1. CASE i = n + 1
        BY <4>1 DEF BodyAt
      <4>2. CASE i \in 1..n
        BY <4>2 DEF BodyAt
      <4>3. QED BY <4>1, <4>2
    <3>3. k < F[i].depth
      <4>1. CASE i = n + 1
        <5>1. F[n + 1].tail => d = m
          BY <1>4, <1>5 DEF FrameAwaits
        <5>2. d < k
          BY <3>1, <4>1
        <5>3. k < m
          BY <1>6, <1>8, <5>1, <5>2
        <5>4. QED BY <1>4, <4>1, <5>3
      <4>2. CASE i \in 1..n
        BY <2>5, <4>2 DEF Between
      <4>3. QED BY <4>1, <4>2
    <3>4. Between(F, n + 1, i, k) /\ i \in 1..(n + 2)
      BY <3>1, <3>3 DEF Between
    <3>5. QED BY <1>2, <1>8, <3>1, <3>2, <3>4
  <2>6. QED BY <2>1, <2>2, <2>3, <2>4, <2>5 DEF Stacked
<1>9. CASE F[n + 1].tail
  <2>1. d = m
    BY <1>4, <1>5, <1>9 DEF FrameAwaits
  <2>2. Stacked(G, n, F[n + 1].fn, open, m, locals, sites)
    BY <1>6, <1>8, <1>9, <2>1
  <2>3. Depth(G, n + 1) = m
    BY <1>3, <2>1
  <2>4. QED BY <1>9, <2>2, <2>3
<1>10. CASE ~F[n + 1].tail
  <2>1. /\ d < m
        /\ <<F[n + 1].fn, F[n + 1].blk>> \in DOMAIN sites
        /\ open[m] = sites[<<F[n + 1].fn, F[n + 1].blk>>]
    BY <1>4, <1>5, <1>10 DEF FrameAwaits
  <2>2. m - 1 \in Nat /\ d <= m - 1 /\ m - 1 <= m /\ m - 1 # m /\ m # 0
    BY <1>6, <2>1
  <2>3. QED BY <1>8, <1>10, <2>1, <2>2
<1>11. QED BY <1>9, <1>10

(* Each open call is awaited: by the activation that made it, or as a      *)
(* local call of the body that made it.                                    *)
LEMMA EveryCallIsAwaited ==
    ASSUME NEW n \in Nat, NEW m \in Nat, NEW F, NEW open, NEW top, NEW locals, NEW sites,
           Stacked(F, n, top, open, m, locals, sites), NEW k \in 1..m
    PROVE  \/ \E i \in 1..n : /\ ~F[i].tail
                              /\ F[i].depth = k
                              /\ <<F[i].fn, F[i].blk>> \in DOMAIN sites
                              /\ open[k] = sites[<<F[i].fn, F[i].blk>>]
           \/ \E i \in 1..(n + 1) : /\ Between(F, n, i, k)
                                    /\ open[k] \in locals[BodyAt(F, n, top, i)]
<1>1. /\ \A i \in 1..n : F[i].depth \in Nat /\ F[i].depth <= m
      /\ \A i \in 1..(n + 1) : Depth(F, i) \in Nat /\ Depth(F, i) <= m
  BY DepthTypes
<1>2. /\ \A i \in 1..n : FrameAwaits(F[i], Depth(F, i), open, sites)
      /\ \A i \in 1..(n + 1), j \in 1..m :
            Between(F, n, i, j) => open[j] \in locals[BodyAt(F, n, top, i)]
  BY DEF Stacked
<1> DEFINE S == {i \in 1..(n + 1) : i <= n => k <= F[i].depth}
<1>3. S \in SUBSET Nat /\ n + 1 \in S
  OBVIOUS
<1>4. PICK i \in S : \A j \in S : i <= j
  <2> HIDE DEF S
  <2>1. QED BY <1>3, LeastExists
<1>5. i \in 1..(n + 1) /\ (i <= n => k <= F[i].depth)
  OBVIOUS
<1>6. Depth(F, i) < k
  <2>1. CASE i = 1
    BY <2>1 DEF Depth
  <2>2. CASE i # 1
    <3>1. i - 1 \in 1..n /\ i - 1 \notin S
      BY <1>4, <1>5, <2>2
    <3>2. F[i - 1].depth < k
      BY <1>1, <3>1
    <3>3. QED BY <2>2, <3>2 DEF Depth
  <2>3. QED BY <2>1, <2>2
<1>7. CASE i <= n /\ F[i].depth = k
  <2>1. i \in 1..n /\ FrameAwaits(F[i], Depth(F, i), open, sites)
    BY <1>2, <1>5, <1>7
  <2>2. QED BY <1>1, <1>5, <1>6, <1>7, <2>1 DEF FrameAwaits
<1>8. CASE ~(i <= n /\ F[i].depth = k)
  <2>1. Between(F, n, i, k)
    BY <1>1, <1>5, <1>6, <1>8 DEF Between
  <2>2. QED BY <1>2, <1>5, <2>1
<1>9. QED BY <1>7, <1>8

-----------------------------------------------------------------------------
(* What the emitted code rests on, which no step of its run changes.       *)
LEMMA LabelsStay ==
    ASSUME UNCHANGED vars
    PROVE  \A f : EmittedBlocks(f)' = EmittedBlocks(f)
BY DEF vars, cfgVars, EmittedBlocks, IsClosed, Listed, JumpTableTargets

(* Where the local calls of a body come back to, and where the calls do    *)
(* that are not local in it.                                               *)
LocalReturns == [f \in DOMAIN functions |-> LocalResumeTargets(EmittedBlocks(f))]

OtherCalls ==
    {p \in (DOMAIN functions) \X (DOMAIN blocks) :
        /\ p[2] \in EmittedBlocks(p[1])
        /\ End(p[2]).type = "Call"
        /\ ~IsLocalCall(EmittedBlocks(p[1]), p[2])}

OtherReturns == [p \in OtherCalls |-> Continuation(p[2])]

(* A link the dispatcher can look up, or one that is not code.             *)
KnownLinks == {a \in Nat : a \in Exec => a \in Dispatched}

Activations == [fn : DOMAIN functions, blk : Nat, tail : BOOLEAN, depth : Nat]

Emitted ==
    /\ phase = "done"
    /\ Translatable
    /\ labels = [f \in DOMAIN functions |-> EmittedBlocks(f)]

LEMMA TablesStay ==
    ASSUME UNCHANGED vars
    PROVE  /\ LocalReturns' = LocalReturns
           /\ OtherReturns' = OtherReturns
           /\ KnownLinks' = KnownLinks
           /\ Activations' = Activations
           /\ Translatable' = Translatable
           /\ UNCHANGED labels /\ Emitted => Emitted'
<1>1. \A f : EmittedBlocks(f)' = EmittedBlocks(f)
  BY LabelsStay
<1>2. image' = image /\ phase' = phase /\ functions' = functions /\ blocks' = blocks /\ code' = code
  BY DEF vars, cfgVars, code
<1>3. \A b : End(b)' = End(b)
  BY <1>2 DEF End
<1>4. /\ \A b : DirectTargets(b)' = DirectTargets(b)
      /\ \A b : Continuation(b)' = Continuation(b)
  BY <1>2, <1>3 DEF DirectTargets, Continuation
<1>5. \A E, b : IsLocalCall(E, b)' = IsLocalCall(E, b)
  BY <1>3, <1>4 DEF IsLocalCall
<1>6. \A E : LocalResumeTargets(E)' = LocalResumeTargets(E)
  BY <1>4, <1>5 DEF LocalResumeTargets
<1>7. LocalReturns' = LocalReturns
  BY <1>1, <1>2, <1>6 DEF LocalReturns
<1>8. OtherReturns' = OtherReturns
  <2>1. OtherCalls' = OtherCalls
    BY <1>1, <1>2, <1>3, <1>5 DEF OtherCalls
  <2>2. QED BY <1>4, <2>1 DEF OtherReturns
<1>9. Dispatched' = Dispatched
  BY <1>2 DEF Dispatched
<1>10. KnownLinks' = KnownLinks /\ Activations' = Activations
  BY <1>2, <1>9 DEF KnownLinks, Activations
<1>11. Translatable' = Translatable
  BY <1>1, <1>2, <1>3, <1>4, <1>5, <1>6, <1>9
  DEF Translatable, FallThroughIsNext, FallsThrough, LocalInAllBodies, IsNextLabel,
      Guest!HeldPointers
<1>12. UNCHANGED labels /\ Emitted => Emitted'
  BY <1>1, <1>2, <1>11 DEF Emitted
<1>13. QED BY <1>7, <1>8, <1>10, <1>11, <1>12

(* A call that comes back to the same word is local everywhere or nowhere. *)
LEMMA TablesDisjoint ==
    ASSUME TypeOK, Translatable, NEW f \in DOMAIN functions, NEW p \in DOMAIN OtherReturns
    PROVE  OtherReturns[p] \notin LocalReturns[f]
<1>1. /\ p[1] \in DOMAIN functions /\ p[2] \in EmittedBlocks(p[1])
      /\ ~IsLocalCall(EmittedBlocks(p[1]), p[2])
      /\ OtherReturns[p] = Continuation(p[2])
  <2>1. p \in OtherCalls /\ OtherReturns[p] = Continuation(p[2])
    BY DEF OtherReturns
  <2>2. QED BY <2>1 DEF OtherCalls
<1>2. ASSUME NEW b \in EmittedBlocks(f), IsLocalCall(EmittedBlocks(f), b),
             Continuation(b) = Continuation(p[2])
      PROVE  FALSE
  <2>1. b \in DOMAIN blocks /\ p[2] \in DOMAIN blocks
    BY <1>1, EmittedFacts
  <2>2. blocks[b].last \in Int /\ blocks[p[2]].last \in Int
    BY <2>1 DEF TypeOK, BasicBlock, Addr
  <2>3. blocks[p[2]].last = blocks[b].last
    <3>1. \A x, y \in Int : x + 1 = y + 1 => x = y
      OBVIOUS
    <3>2. QED BY <1>2, <2>2, <3>1 DEF Continuation
  <2>4. QED BY <1>1, <1>2, <2>3 DEF Translatable, LocalInAllBodies
<1>3. QED BY <1>1, <1>2 DEF LocalReturns, LocalResumeTargets

-----------------------------------------------------------------------------
(* What the theorems about the analyzer and the emitter say of the output. *)
EntryKnown == phase \notin {"prologues", "entry"} => {EntryPoint} \cap Exec \subseteq discovered

AnalysisInv ==
    /\ TypeOK
    /\ BoundaryInv
    /\ BuilderInv
    /\ EveryFunctionAnalyzed
    /\ EveryListedBlockBuilt
    /\ DispatchLandsOnLabel
    /\ TransfersResolve
    /\ EntryKnown

LEMMA NextEntryKnown == TypeOK /\ EntryKnown /\ [Next]_vars => EntryKnown'
<1> SUFFICES ASSUME TypeOK, EntryKnown, [Next]_vars PROVE EntryKnown'
  OBVIOUS
<1>1. discovered \subseteq discovered'
  BY DEF Next, Seeding, MainLoop, Done, ScanPrologues, DiscoverEntryPoint, ScanDataPointers,
         ScanTextPointers, SeedFrom, Discover, PopulateWorklist, SkipAnalyzed, BeginFunction,
         Finish, ScanRun, BeginPass2, SkipBlock, BuildBlock, EndFunction,
         vars, cfgVars, workVars, passVars
<1>2. CASE DiscoverEntryPoint
  BY <1>2 DEF DiscoverEntryPoint, SeedFrom, Discover, EntryKnown
<1>3. CASE ~DiscoverEntryPoint
  <2>1. phase' \notin {"prologues", "entry"} => phase \notin {"prologues", "entry"}
    BY <1>3
    DEF Next, Seeding, MainLoop, Done, ScanPrologues, ScanDataPointers,
        ScanTextPointers, SeedFrom, PopulateWorklist, SkipAnalyzed, BeginFunction,
        Finish, ScanRun, BeginPass2, SkipBlock, BuildBlock, EndFunction,
        vars, cfgVars, workVars, passVars
  <2>2. QED BY <1>1, <2>1 DEF EntryKnown
<1>4. QED BY <1>2, <1>3

LEMMA AnalysisInvHolds == Spec => []AnalysisInv
<1>1. Init => EntryKnown
  BY DEF Init, EntryKnown
<1>2. TypeOK /\ EntryKnown /\ [Next]_vars => EntryKnown'
  BY NextEntryKnown
<1>3. /\ TypeOK /\ BoundaryInv /\ BuilderInv /\ EveryFunctionAnalyzed /\ EveryListedBlockBuilt
      /\ DispatchLandsOnLabel /\ TransfersResolve /\ EntryKnown
      => AnalysisInv
  BY DEF AnalysisInv
<1>4. QED BY <1>1, <1>2, <1>3, TypeCorrect, BuilderInvHolds, AllFunctionsAnalyzed,
             ListedBlocksAreBuilt, DispatchFindsItsLabel, DirectTransfersResolve, PTL DEF Spec

(* The block of a label: plain words up to the one that ends it, and a     *)
(* call is followed by an address the dispatcher knows, if by code.        *)
LEMMA BlockFacts ==
    ASSUME AnalysisInv, NEW f, NEW b \in EmittedBlocks(f)
    PROVE  /\ b \in DOMAIN blocks /\ b \in Exec /\ b \in Dispatched
           /\ b \in Nat /\ blocks[b].last \in Nat /\ b <= blocks[b].last
           /\ blocks[b].last \in Addr
           /\ \A a \in b..(blocks[b].last - 1) : a \in Addr /\ code[a].type = "Unknown"
           /\ Continuation(b) \in Nat \ {0}
           /\ End(b).type = "Call" => Continuation(b) \in KnownLinks
<1>1. b \in DOMAIN blocks /\ FitsBlock(b) /\ \E g \in DOMAIN functions : FitsList(b, g)
  BY EmittedFitSomeList DEF AnalysisInv
<1>2. b \in Exec /\ b \in Nat /\ blocks[b].last \in Addr /\ blocks[b].last \in Nat
  BY <1>1, ImageAssumption DEF AnalysisInv, TypeOK, BasicBlock, Addr
<1>3. b <= blocks[b].last
  BY <1>1 DEF FitsBlock
<1>4. \A a \in b..(blocks[b].last - 1) : a \in Addr /\ code[a].type = "Unknown"
  BY <1>1 DEF AnalysisInv, BoundaryInv, IsBranch
<1>5. Continuation(b) \in Nat \ {0}
  BY <1>2 DEF Continuation
<1>6. b \in Dispatched
  BY <1>1 DEF FitsList, Dispatched
<1>7. End(b).type = "Call" => Continuation(b) \in KnownLinks
  <2>1. ASSUME End(b).type = "Call" PROVE Continuation(b) \in Onward(b)
    BY <2>1 DEF Onward, IsBranch, LeadsTo, ResumePoints, Continuation, End
  <2>2. Onward(b) \subseteq Dispatched
    BY <1>1 DEF FitsList, Dispatched
  <2>3. QED BY <1>5, <2>1, <2>2 DEF KnownLinks
<1>8. QED BY <1>1, <1>2, <1>3, <1>4, <1>5, <1>6, <1>7

(* The word the emitted code stands for is plain, or it ends the block.    *)
LEMMA BranchesAreEnds ==
    ASSUME AnalysisInv, NEW f, NEW b \in EmittedBlocks(f), NEW a \in b..blocks[b].last
    PROVE  /\ code[a] \in Instruction
           /\ code[a].type # "Unknown" \/ a = blocks[b].last
                 => a = blocks[b].last /\ code[a] = End(b) /\ a + 1 = Continuation(b)
<1>1. /\ b \in Nat /\ blocks[b].last \in Nat /\ blocks[b].last \in Addr
      /\ \A c \in b..(blocks[b].last - 1) : c \in Addr /\ code[c].type = "Unknown"
  BY BlockFacts
<1>2. a = blocks[b].last \/ a \in b..(blocks[b].last - 1)
  BY <1>1
<1>3. a \in Addr
  BY <1>1, <1>2
<1>4. code[a] \in Instruction
  BY <1>3 DEF AnalysisInv, TypeOK, ImageType, Code, code
<1>5. QED BY <1>1, <1>2, <1>4 DEF End, Continuation

(* Control that runs off a block goes on behind it.                        *)
LEMMA RunsOnBehind ==
    ASSUME AnalysisInv, Emitted, NEW f \in DOMAIN functions, NEW b \in EmittedBlocks(f),
           FallsThrough(EmittedBlocks(f), b), Continuation(b) \in Exec, RunOff(f, b)
    PROVE  /\ mode' = "run" /\ fn' = f /\ blk' = Continuation(b) /\ at' = Continuation(b)
           /\ Continuation(b) \in EmittedBlocks(f)
<1> DEFINE E == EmittedBlocks(f)
           r == Continuation(b)
<1>1. labels[f] = E
  BY DEF Emitted
<1>2. IsNextLabel(E, b, r)
  BY DEF Emitted, Translatable, FallThroughIsNext
<1>3. \A x \in E : x \in Nat
  BY BlockFacts
<1> HIDE DEF E, r
<1>4. r \in E /\ r > b
  BY <1>2 DEF IsNextLabel
<1>5. \A l \in E : IsNextLabel(E, b, l) => l = r
  BY <1>2, <1>3 DEF IsNextLabel
<1>6. fn' = f /\ \E l \in E : IsNextLabel(E, b, l) /\ Goto(l)
  BY <1>1, <1>4 DEF RunOff
<1>7. Goto(r)
  BY <1>5, <1>6
<1>8. QED BY <1>4, <1>6, <1>7 DEF Goto, r, E

-----------------------------------------------------------------------------
(* The inductive invariant, which says nothing once the guest has done     *)
(* what has no translation.  While the guest runs, the stack accounts for  *)
(* the open calls; during a C return, for those that were open before the  *)
(* guest returned, and lr holds where the last of them comes back to.      *)
Unreturned == IF lr = Guest!Host THEN calls ELSE Append(calls, lr)

StackHolds(open) ==
    Stacked(frames, Len(frames), fn, open, Len(open), LocalReturns, OtherReturns)

Launched ==
    /\ Emitted
    /\ lr \in KnownLinks
    /\ saved \in Seq(KnownLinks)
    /\ calls \in Seq(Nat \ {0})
    /\ frames \in Seq(Activations)

AtWord ==
    /\ fn \in DOMAIN functions
    /\ blk \in EmittedBlocks(fn)
    /\ at \in blk..blocks[blk].last
    /\ at \in Exec

Returning ==
    /\ lr \in Exec \cup {Guest!Host}
    /\ lr = Guest!Host => calls = << >>
    /\ StackHolds(Unreturned)
    /\ Depth(frames, Len(frames) + 1) = Len(Unreturned)

MachineInv ==
    /\ mode \in {"emit", "run", "return", "over"}
    /\ mode = "emit" => /\ at = EntryPoint /\ lr = Guest!Host /\ saved = << >>
                        /\ calls = << >> /\ frames = << >>
    /\ mode # "emit" => phase = "done"
    /\ mode # "emit" /\ covered => Launched
    /\ mode = "run" /\ covered => AtWord /\ StackHolds(calls)
    /\ mode = "return" /\ covered => Returning

(* Nothing is left to show then but that the analyzer has stopped.         *)
LEMMA HoldsUncovered ==
    ASSUME UNCHANGED vars, phase = "done", ~covered', mode' \in {"run", "return", "over"}
    PROVE  MachineInv'
BY DEF vars, MachineInv

(* A step of the running code: what it preserves and which step of the     *)
(* guest it is.                                                            *)
GuestStep == Guest!Ordinary \/ Guest!NotTaken \/ Guest!Jump \/ Guest!Return
               \/ Guest!JumpToHost \/ Guest!Call \/ Guest!CallHost

LEMMA SequenceEnds ==
    ASSUME NEW S, NEW s \in Seq(S), s # << >>
    PROVE  /\ Len(s) \in Nat \ {0}
           /\ Seqs!Last(s) = s[Len(s)] /\ Seqs!Last(s) \in S
           /\ Seqs!Front(s) \in Seq(S) /\ Len(Seqs!Front(s)) = Len(s) - 1
           /\ \A i \in 1..(Len(s) - 1) : Seqs!Front(s)[i] = s[i]
           /\ s = Append(Seqs!Front(s), Seqs!Last(s))
           /\ Guest!Last(s) = Seqs!Last(s) /\ Guest!Front(s) = Seqs!Front(s)
<1>1. Len(s) \in Nat \ {0} /\ s[Len(s)] \in S
  BY EmptySeq
<1>2. /\ SubSeq(s, 1, Len(s) - 1) \in Seq(S)
      /\ Len(SubSeq(s, 1, Len(s) - 1)) = Len(s) - 1
      /\ \A i \in 1..(Len(s) - 1) : SubSeq(s, 1, Len(s) - 1)[i] = s[i]
  <2> DEFINE n == Len(s) - 1
  <2>1. n \in Nat /\ n <= Len(s) /\ \A i \in 1..n : s[i] \in S /\ 1 + i - 1 = i
    BY <1>1
  <2> HIDE DEF n
  <2>2. SubSeq(s, 1, n) \in Seq(S) /\ Len(SubSeq(s, 1, n)) = n
        /\ \A i \in 1..n : SubSeq(s, 1, n)[i] = s[i]
    BY <2>1
  <2>3. QED BY <2>2 DEF n
<1>3. s = Append(SubSeq(s, 1, Len(s) - 1), s[Len(s)])
  <2> DEFINE t == SubSeq(s, 1, Len(s) - 1)
             u == Append(t, s[Len(s)])
  <2>1. t \in Seq(S) /\ Len(t) = Len(s) - 1
    BY <1>2
  <2> HIDE DEF t
  <2>2. u \in Seq(S) /\ Len(u) = Len(s) /\ u[Len(s)] = s[Len(s)]
        /\ \A i \in 1..(Len(s) - 1) : u[i] = t[i]
    BY <1>1, <2>1
  <2>3. \A i \in 1..Len(s) : i \in 1..(Len(s) - 1) \/ i = Len(s)
    BY <1>1
  <2>4. \A i \in 1..Len(s) : u[i] = s[i]
    BY <1>2, <2>2, <2>3 DEF t
  <2> HIDE DEF u
  <2>5. s = u
    BY <2>2, <2>4, SeqEqual
  <2>6. QED BY <2>5 DEF t, u
<1>4. QED BY <1>1, <1>2, <1>3 DEF Seqs!Last, Seqs!Front, Guest!Last, Guest!Front

(* Where the guest is.                                                     *)
LEMMA GuestWord ==
    /\ mode = "emit" => guestPc = EntryPoint
    /\ mode = "run" => guestPc = at
    /\ mode = "return" => guestPc = lr
    /\ mode = "over" => guestPc = Guest!Host
BY DEF guestPc, Guest!Host

LEMMA GuestWordNext ==
    /\ mode' = "run" => guestPc' = at'
    /\ mode' = "return" => guestPc' = lr'
    /\ mode' = "over" => guestPc' = Guest!Host
BY DEF guestPc, Guest!Host

LEMMA OpenBeforeIsDepth ==
    ASSUME frames \in Seq(Activations)
    PROVE  OpenBefore = Depth(frames, Len(frames) + 1)
<1>1. CASE frames = << >>
  BY <1>1 DEF OpenBefore, Depth
<1>2. CASE frames # << >>
  <2>1. Len(frames) \in Nat \ {0} /\ Seqs!Last(frames) = frames[Len(frames)]
    BY <1>2, SequenceEnds
  <2>2. Len(frames) + 1 # 1 /\ (Len(frames) + 1) - 1 = Len(frames)
    BY <2>1
  <2>3. QED BY <1>2, <2>1, <2>2 DEF OpenBefore, Depth
<1>3. QED BY <1>1, <1>2

(* The invariant after a step that leaves the host at a label or a word of *)
(* a body, or in a C return.                                               *)
LEMMA HoldsAtWord ==
    ASSUME UNCHANGED <<vars, labels>>, Emitted, mode' = "run",
           lr' \in KnownLinks, saved' \in Seq(KnownLinks), calls' \in Seq(Nat \ {0}),
           frames' \in Seq(Activations),
           fn' \in DOMAIN functions, blk' \in EmittedBlocks(fn'),
           at' \in blk'..blocks[blk'].last, at' \in Exec,
           Stacked(frames', Len(frames'), fn', calls', Len(calls'), LocalReturns, OtherReturns)
    PROVE  MachineInv'
<1>1. /\ LocalReturns' = LocalReturns /\ OtherReturns' = OtherReturns
      /\ KnownLinks' = KnownLinks /\ Activations' = Activations /\ Emitted'
      /\ \A f : EmittedBlocks(f)' = EmittedBlocks(f)
      /\ functions' = functions /\ blocks' = blocks
  BY TablesStay, LabelsStay DEF vars, cfgVars
<1>2. AtWord'
  <2>1. PICK f : f = fn'
    OBVIOUS
  <2>2. EmittedBlocks(f)' = EmittedBlocks(fn)'
    BY <2>1
  <2>3. QED BY <1>1, <2>1, <2>2 DEF AtWord
<1>3. Launched'
  BY <1>1 DEF Launched
<1>4. StackHolds(calls)'
  BY <1>1 DEF StackHolds
<1>5. phase' = "done"
  BY <1>1 DEF Emitted
<1>6. QED BY <1>2, <1>3, <1>4, <1>5 DEF MachineInv

LEMMA HoldsReturning ==
    ASSUME UNCHANGED <<vars, labels>>, Emitted, mode' = "return", fn' = fn,
           lr' \in KnownLinks, saved' \in Seq(KnownLinks), calls' \in Seq(Nat \ {0}),
           frames' \in Seq(Activations),
           lr' \in Exec \cup {Guest!Host}, lr' = Guest!Host => calls' = << >>,
           NEW open, open = (IF lr' = Guest!Host THEN calls' ELSE Append(calls', lr')),
           Stacked(frames', Len(frames'), fn, open, Len(open), LocalReturns, OtherReturns),
           Depth(frames', Len(frames') + 1) = Len(open)
    PROVE  MachineInv'
<1>1. /\ LocalReturns' = LocalReturns /\ OtherReturns' = OtherReturns
      /\ KnownLinks' = KnownLinks /\ Activations' = Activations /\ Emitted'
  BY TablesStay
<1>2. Launched'
  BY <1>1 DEF Launched
<1>3. Unreturned' = open
  BY DEF Unreturned, Guest!Host
<1>4. StackHolds(Unreturned)'
  BY <1>1, <1>3 DEF StackHolds
<1>5. Returning'
  BY <1>3, <1>4 DEF Returning, Guest!Host
<1>6. phase' = "done"
  BY <1>1 DEF Emitted
<1>7. QED BY <1>2, <1>5, <1>6 DEF MachineInv

(* With every open call accounted for, it does not matter which body runs. *)
LEMMA TopIsIdle ==
    ASSUME NEW n \in Nat, NEW m \in Nat, NEW F, NEW open, NEW top, NEW other,
           NEW locals, NEW sites,
           Stacked(F, n, top, open, m, locals, sites), Depth(F, n + 1) = m
    PROVE  Stacked(F, n, other, open, m, locals, sites)
<1>1. ASSUME NEW i \in 1..(n + 1), NEW k \in 1..m, Between(F, n, i, k)
      PROVE  open[k] \in locals[BodyAt(F, n, other, i)]
  <2>1. i <= n
    BY <1>1 DEF Between
  <2>2. BodyAt(F, n, other, i) = BodyAt(F, n, top, i)
    BY <2>1 DEF BodyAt
  <2>3. QED BY <1>1, <2>2 DEF Stacked
<1>2. QED BY <1>1 DEF Stacked

(* Where a branch of emitted code leads, if to code, the dispatcher knows. *)
LEMMA TargetsResolve ==
    ASSUME AnalysisInv, Emitted, NEW f \in DOMAIN functions, NEW b \in EmittedBlocks(f),
           NEW link \in KnownLinks, End(b) \in Instruction,
           NEW t \in Guest!BranchTargets(image, End(b), link), t \in Exec
    PROVE  t \in Dispatched
<1>1. \A x \in EmittedBlocks(f) : x \in Dispatched
  BY BlockFacts
<1>2. CASE End(b).via = "none"
  <2>1. t = End(b).target /\ t # 0
    BY <1>2, ImageAssumption DEF Guest!BranchTargets
  <2>2. t \in DirectTargets(b)
    BY <1>2, <2>1 DEF DirectTargets, HasDirectTarget
  <2>3. QED BY <1>1, <2>2 DEF AnalysisInv, Emitted, TransfersResolve
<1>3. CASE End(b).via = "lr"
  BY <1>3 DEF Guest!BranchTargets, KnownLinks
<1>4. CASE End(b).via = "ctr" /\ End(b).table # {}
  <2>1. t \in End(b).table
    BY <1>4 DEF Guest!BranchTargets
  <2>2. QED BY <1>1, <2>1 DEF Emitted, Translatable
<1>5. CASE End(b).via = "ctr" /\ End(b).table = {}
  <2>1. t \in Guest!HeldPointers(image)
    BY <1>5 DEF Guest!BranchTargets
  <2>2. QED BY <2>1 DEF Emitted, Translatable
<1>6. QED BY <1>2, <1>3, <1>4, <1>5 DEF Instruction

-----------------------------------------------------------------------------
(* The steps, one lemma each: the invariant is kept, and the guest makes   *)
(* the step it should.                                                     *)
AtGuestWord ==
    /\ AnalysisInv /\ mode = "run" /\ Launched /\ AtWord /\ StackHolds(calls)
    /\ UNCHANGED <<vars, labels>>

(* What a step that stays covered has not done.                            *)
LEMMA StaysCovered ==
    ASSUME NEW P, CoveredIf(P), covered'
    PROVE  covered /\ P
BY DEF CoveredIf

LEMMA WordFacts ==
    ASSUME AtGuestWord
    PROVE  /\ Here = Guest!word /\ guestPc = at /\ Here \in Instruction
           /\ Body = EmittedBlocks(fn) /\ fn \in DOMAIN functions /\ blk \in EmittedBlocks(fn)
           /\ Here.type # "Unknown" \/ AtEnd
                 => AtEnd /\ Here = End(blk) /\ at + 1 = Continuation(blk)
           /\ at \in Nat /\ at \in Exec /\ image' = image
<1>1. guestPc = at
  BY GuestWord DEF AtGuestWord
<1>2. Here = Guest!word
  BY <1>1 DEF Here, Guest!word, code
<1>3. fn \in DOMAIN functions /\ blk \in EmittedBlocks(fn) /\ at \in blk..blocks[blk].last
  BY DEF AtGuestWord, AtWord
<1>4. Here \in Instruction /\ (Here.type # "Unknown" \/ AtEnd
                 => AtEnd /\ Here = End(blk) /\ at + 1 = Continuation(blk))
  BY <1>3, BranchesAreEnds DEF AtGuestWord, Here, AtEnd
<1>5. Body = EmittedBlocks(fn)
  BY <1>3 DEF Body, AtGuestWord, Launched, Emitted
<1>6. at \in Nat /\ at \in Exec /\ image' = image
  BY ImageAssumption DEF AtGuestWord, AtWord, vars
<1>7. QED BY <1>1, <1>2, <1>3, <1>4, <1>5, <1>6

(* At a label of the body that runs.                                       *)
LEMMA LabelIsWord ==
    ASSUME AnalysisInv, NEW f, NEW l \in EmittedBlocks(f)
    PROVE  l \in l..blocks[l].last /\ l \in Exec
BY BlockFacts

LEMMA OrdinaryFollows == AtGuestWord /\ RunOrdinary => MachineInv' /\ Guest!Ordinary
<1> SUFFICES ASSUME AtGuestWord, RunOrdinary PROVE MachineInv' /\ Guest!Ordinary
  OBVIOUS
<1>1. /\ Here = Guest!word /\ guestPc = at
      /\ fn \in DOMAIN functions /\ blk \in EmittedBlocks(fn)
      /\ AtEnd => Here = End(blk) /\ at + 1 = Continuation(blk)
      /\ at \in Nat /\ image' = image
  BY WordFacts
<1>2. /\ Here.type = "Unknown" /\ Guest!MayExecute(Here, saved) /\ at + 1 \in Exec
      /\ lr' = Guest!LinkAfter(Here, lr, saved) /\ saved' = Guest!SavesAfter(Here, lr, saved)
      /\ calls' = calls /\ frames' = frames
  BY DEF RunOrdinary
<1>3. /\ mode' = "run" /\ at' = at + 1 /\ fn' = fn
      /\ blk' \in EmittedBlocks(fn) /\ at' \in blk'..blocks[blk'].last
  <2>1. CASE AtEnd
    <3>1. RunOff(fn, blk)
      BY <2>1 DEF RunOrdinary
    <3>2. FallsThrough(EmittedBlocks(fn), blk) /\ Continuation(blk) \in Exec
      BY <1>1, <1>2, <2>1 DEF FallsThrough
    <3>3. QED BY <1>1, <2>1, <3>1, <3>2, RunsOnBehind, LabelIsWord DEF AtGuestWord, Launched
  <2>2. CASE ~AtEnd
    <3>1. mode' = "run" /\ at' = at + 1 /\ fn' = fn /\ blk' = blk
      BY <2>2 DEF RunOrdinary, AtGuestWord
    <3>2. blk \in Nat /\ blocks[blk].last \in Nat
      BY <1>1, BlockFacts DEF AtGuestWord
    <3>3. at + 1 \in blk..blocks[blk].last
      BY <2>2, <3>2 DEF AtGuestWord, AtWord, AtEnd
    <3>4. QED BY <1>1, <3>1, <3>3
  <2>3. QED BY <2>1, <2>2
<1>4. lr' \in KnownLinks /\ saved' \in Seq(KnownLinks)
  <2>1. lr \in KnownLinks /\ saved \in Seq(KnownLinks)
    BY DEF AtGuestWord, Launched
  <2>2. CASE Here.role = "unframe"
    <3>1. saved # << >>
      BY <1>2, <2>2 DEF Guest!MayExecute
    <3>2. lr' = Guest!Last(saved) /\ saved' = Guest!Front(saved)
      BY <1>2, <2>2 DEF Guest!LinkAfter, Guest!SavesAfter
    <3>3. QED BY <2>1, <3>1, <3>2, SequenceEnds
  <2>3. CASE Here.role # "unframe"
    <3>1. lr' = lr /\ (saved' = saved \/ saved' = Append(saved, lr))
      BY <1>2, <2>3 DEF Guest!LinkAfter, Guest!SavesAfter
    <3>2. QED BY <2>1, <3>1
  <2>4. QED BY <2>2, <2>3
<1>5. MachineInv'
  <2>1. at' \in Exec /\ fn' \in DOMAIN functions /\ blk' \in EmittedBlocks(fn')
    BY <1>1, <1>2, <1>3
  <2>2. Stacked(frames', Len(frames'), fn', calls', Len(calls'), LocalReturns, OtherReturns)
    BY <1>2, <1>3 DEF AtGuestWord, StackHolds
  <2>3. calls' \in Seq(Nat \ {0}) /\ frames' \in Seq(Activations)
    BY <1>2 DEF AtGuestWord, Launched
  <2>4. UNCHANGED <<vars, labels>> /\ Emitted
    BY DEF AtGuestWord, Launched
  <2>5. QED BY <1>3, <1>4, <2>1, <2>2, <2>3, <2>4, HoldsAtWord
<1>6. Guest!Ordinary
  <2>1. guestPc' = at + 1
    BY <1>3, GuestWordNext
  <2>2. QED BY <1>1, <1>2, <2>1 DEF Guest!Ordinary
<1>7. QED BY <1>5, <1>6

LEMMA NotTakenFollows == AtGuestWord /\ RunNotTaken /\ covered' => MachineInv' /\ Guest!NotTaken
<1> SUFFICES ASSUME AtGuestWord, RunNotTaken, covered' PROVE MachineInv' /\ Guest!NotTaken
  OBVIOUS
<1>1. /\ Here.type = "ConditionalBranch" /\ at + 1 \in Exec /\ RunOff(fn, blk)
      /\ lr' = lr /\ saved' = saved /\ calls' = calls /\ frames' = frames
      /\ ~Here.link
  BY StaysCovered DEF RunNotTaken
<1>2. /\ Here = Guest!word /\ guestPc = at
      /\ fn \in DOMAIN functions /\ blk \in EmittedBlocks(fn)
      /\ Here = End(blk) /\ at + 1 = Continuation(blk) /\ image' = image
  BY <1>1, WordFacts
<1>3. /\ mode' = "run" /\ fn' = fn /\ blk' = at + 1 /\ at' = at + 1
      /\ at + 1 \in EmittedBlocks(fn)
  BY <1>1, <1>2, RunsOnBehind DEF AtGuestWord, Launched, FallsThrough
<1>4. MachineInv'
  <2>1. at' \in Exec /\ at' \in blk'..blocks[blk'].last
    BY <1>3, LabelIsWord DEF AtGuestWord
  <2>2. Stacked(frames', Len(frames'), fn', calls', Len(calls'), LocalReturns, OtherReturns)
    BY <1>1, <1>3 DEF AtGuestWord, StackHolds
  <2>3. /\ calls' \in Seq(Nat \ {0}) /\ frames' \in Seq(Activations)
        /\ lr' \in KnownLinks /\ saved' \in Seq(KnownLinks)
        /\ UNCHANGED <<vars, labels>> /\ Emitted
    BY <1>1 DEF AtGuestWord, Launched
  <2>4. QED BY <1>2, <1>3, <2>1, <2>2, <2>3, HoldsAtWord
<1>5. Guest!NotTaken
  <2>1. guestPc' = at + 1
    BY <1>3, GuestWordNext
  <2>2. QED BY <1>1, <1>2, <2>1 DEF Guest!NotTaken
<1>6. QED BY <1>4, <1>5

LEMMA GotoFollows ==
    ASSUME AtGuestWord, NEW t \in Guest!BranchTargets(image, Here, lr), RunGoto(t), covered'
    PROVE  MachineInv' /\ Guest!Jump
<1>1. /\ Guest!IsJump(Here) /\ t \in Body /\ mode' = "run" /\ blk' = t /\ at' = t /\ fn' = fn
      /\ lr' = lr /\ saved' = saved /\ calls' = calls /\ frames' = frames
  BY StaysCovered DEF RunGoto, Goto, Leaps, Guest!IsJump
<1>2. /\ Here = Guest!word /\ guestPc = at
      /\ Body = EmittedBlocks(fn) /\ fn \in DOMAIN functions /\ image' = image
  BY WordFacts
<1>3. t \in EmittedBlocks(fn) /\ t \in Exec /\ t \in t..blocks[t].last
  BY <1>1, <1>2, LabelIsWord DEF AtGuestWord
<1>4. MachineInv'
  <2>1. Stacked(frames', Len(frames'), fn', calls', Len(calls'), LocalReturns, OtherReturns)
    BY <1>1 DEF AtGuestWord, StackHolds
  <2>2. /\ calls' \in Seq(Nat \ {0}) /\ frames' \in Seq(Activations)
        /\ lr' \in KnownLinks /\ saved' \in Seq(KnownLinks)
        /\ UNCHANGED <<vars, labels>> /\ Emitted
    BY <1>1 DEF AtGuestWord, Launched
  <2>3. QED BY <1>1, <1>2, <1>3, <2>1, <2>2, HoldsAtWord
<1>5. Guest!Jump
  <2>1. guestPc' = t
    BY <1>1, GuestWordNext
  <2>2. QED BY <1>1, <1>2, <1>3, <2>1 DEF Guest!Jump
<1>6. QED BY <1>4, <1>5

(* call_by_addr enters the body that has the label of the address.         *)
LEMMA Enters ==
    ASSUME AtGuestWord, NEW t \in Exec, t \in Dispatched, NEW tail \in BOOLEAN, NEW depth \in Nat,
           CallByAddr(t, tail, depth)
    PROVE  /\ mode' = "run" /\ at' = t /\ blk' = t
           /\ fn' \in DOMAIN functions /\ t \in EmittedBlocks(fn') /\ t \in t..blocks[t].last
           /\ frames' = Append(frames, [fn |-> fn, blk |-> blk, tail |-> tail, depth |-> depth])
           /\ frames' \in Seq(Activations) /\ Len(frames') = Len(frames) + 1
           /\ \A i \in 1..Len(frames) : frames'[i] = frames[i]
           /\ frames'[Len(frames) + 1].fn = fn /\ frames'[Len(frames) + 1].blk = blk
           /\ frames'[Len(frames) + 1].tail = tail /\ frames'[Len(frames) + 1].depth = depth
<1> DEFINE g == DispatchTargets[t]
           f == [fn |-> fn, blk |-> blk, tail |-> tail, depth |-> depth]
<1>1. g \in DOMAIN functions
  BY DispatchNamesAFunction DEF AtGuestWord, AnalysisInv
<1>2. t \in EmittedBlocks(g)
  BY DEF AtGuestWord, Launched, Emitted, AnalysisInv, DispatchLandsOnLabel
<1>3. labels[g] = EmittedBlocks(g)
  BY <1>1 DEF AtGuestWord, Launched, Emitted
<1>4. frames' = Append(frames, f) /\ fn' = g
      /\ Goto(IF t \in labels[g] THEN t ELSE g)
  BY DEF CallByAddr, Activation
<1>5. f \in Activations
  <2>1. fn \in DOMAIN functions /\ blk \in EmittedBlocks(fn)
    BY DEF AtGuestWord, AtWord
  <2>2. blk \in Nat
    BY <2>1, BlockFacts DEF AtGuestWord
  <2>3. QED BY <2>1, <2>2 DEF Activations
<1>6. f.fn = fn /\ f.blk = blk /\ f.tail = tail /\ f.depth = depth
  OBVIOUS
<1> HIDE DEF g, f
<1>7. mode' = "run" /\ at' = t /\ blk' = t
  BY <1>2, <1>3, <1>4 DEF Goto
<1>8. frames \in Seq(Activations)
  BY DEF AtGuestWord, Launched
<1>9. /\ frames' \in Seq(Activations) /\ Len(frames') = Len(frames) + 1
      /\ \A i \in 1..Len(frames) : frames'[i] = frames[i]
      /\ frames'[Len(frames) + 1] = f
  BY <1>4, <1>5, <1>8
<1>10. t \in t..blocks[t].last
  BY <1>2, LabelIsWord DEF AtGuestWord
<1>11. frames' = Append(frames, [fn |-> fn, blk |-> blk, tail |-> tail, depth |-> depth])
  BY <1>4 DEF f
<1>12. QED BY <1>1, <1>2, <1>4, <1>6, <1>7, <1>9, <1>10, <1>11

LEMMA TransferFollows ==
    ASSUME AtGuestWord, NEW t \in Guest!BranchTargets(image, Here, lr), RunTransfer(t), covered'
    PROVE  MachineInv' /\ Guest!Jump
<1>1. /\ Guest!IsJump(Here) /\ t \in Exec /\ t \in Dispatched
      /\ Len(calls) = OpenBefore /\ CallByAddr(t, TRUE, OpenBefore)
      /\ lr' = lr /\ saved' = saved /\ calls' = calls
  BY StaysCovered DEF RunTransfer, ReturnsImmediately, Leaps, LeavesNoCallOpen, Guest!IsJump
<1>2. /\ Here = Guest!word /\ guestPc = at /\ image' = image
  BY WordFacts
<1>3. /\ calls \in Seq(Nat \ {0}) /\ frames \in Seq(Activations)
      /\ lr \in KnownLinks /\ saved \in Seq(KnownLinks)
      /\ UNCHANGED <<vars, labels>> /\ Emitted
      /\ Stacked(frames, Len(frames), fn, calls, Len(calls), LocalReturns, OtherReturns)
  BY DEF AtGuestWord, Launched, StackHolds
<1> DEFINE n == Len(frames)
           m == Len(calls)
<1>4. n \in Nat /\ m \in Nat /\ m = OpenBefore /\ m = Depth(frames, n + 1)
  BY <1>1, <1>3, OpenBeforeIsDepth
<1>5. /\ mode' = "run" /\ at' = t /\ blk' = t
      /\ fn' \in DOMAIN functions /\ t \in EmittedBlocks(fn') /\ t \in t..blocks[t].last
      /\ frames' \in Seq(Activations) /\ Len(frames') = n + 1
      /\ \A i \in 1..n : frames'[i] = frames[i]
      /\ frames'[n + 1].fn = fn
      /\ frames'[n + 1].tail = TRUE /\ frames'[n + 1].depth = m
  <2>1. OpenBefore \in Nat
    BY <1>4
  <2>2. QED BY <1>1, <1>4, <2>1, Enters
<1>6. Stacked(frames', n + 1, fn', calls, m, LocalReturns, OtherReturns)
  <2>1. Stacked(frames, n, fn, calls, m, LocalReturns, OtherReturns)
    BY <1>3
  <2> HIDE DEF n, m
  <2>2. FrameAwaits(frames'[n + 1], Depth(frames, n + 1), calls, OtherReturns)
    BY <1>4, <1>5 DEF FrameAwaits
  <2>3. QED BY <1>4, <1>5, <2>1, <2>2, Pushed
<1>7. MachineInv'
  BY <1>1, <1>3, <1>5, <1>6, HoldsAtWord
<1>8. Guest!Jump
  <2>1. guestPc' = t
    BY <1>5, GuestWordNext
  <2>2. QED BY <1>1, <1>2, <2>1 DEF Guest!Jump
<1>9. QED BY <1>7, <1>8

(* A guest return that leaves the body: all that is open was open before,  *)
(* unless the latest call is local.                                        *)
LEMMA LeavesBody ==
    ASSUME AtGuestWord, Guest!MayReturn(lr, calls),
           lr \notin LocalReturns[fn] \/ Len(calls) = OpenBefore,
           calls' = Guest!AfterReturn(calls), ReturnFromBody,
           lr' = lr, saved' = saved, frames' = frames
    PROVE  MachineInv' /\ guestPc' = lr
<1>1. /\ calls \in Seq(Nat \ {0}) /\ frames \in Seq(Activations)
      /\ lr \in KnownLinks /\ saved \in Seq(KnownLinks)
      /\ UNCHANGED <<vars, labels>> /\ Emitted
      /\ Stacked(frames, Len(frames), fn, calls, Len(calls), LocalReturns, OtherReturns)
  BY DEF AtGuestWord, Launched, StackHolds
<1>2. mode' = "return" /\ fn' = fn
  BY DEF ReturnFromBody, position
<1>3. /\ lr \in Exec \cup {Guest!Host}
      /\ lr = IF calls = << >> THEN Guest!Host ELSE Guest!Last(calls)
  BY DEF Guest!MayReturn
<1> DEFINE n == Len(frames)
           m == Len(calls)
<1>4. n \in Nat /\ m \in Nat /\ OpenBefore = Depth(frames, n + 1)
  BY <1>1, OpenBeforeIsDepth
<1>5. calls # << >> =>
         /\ m # 0 /\ lr = calls[m] /\ lr # Guest!Host
         /\ calls' \in Seq(Nat \ {0}) /\ Append(calls', lr) = calls
  <2> SUFFICES ASSUME calls # << >>
               PROVE  /\ m # 0 /\ lr = calls[m] /\ lr # Guest!Host
                      /\ calls' \in Seq(Nat \ {0}) /\ Append(calls', lr) = calls
    OBVIOUS
  <2>1. /\ Len(calls) \in Nat \ {0}
        /\ Seqs!Last(calls) = calls[Len(calls)] /\ Seqs!Last(calls) \in Nat \ {0}
        /\ Seqs!Front(calls) \in Seq(Nat \ {0})
        /\ calls = Append(Seqs!Front(calls), Seqs!Last(calls))
        /\ Guest!Last(calls) = Seqs!Last(calls) /\ Guest!Front(calls) = Seqs!Front(calls)
    BY <1>1, SequenceEnds
  <2>2. lr = Seqs!Last(calls) /\ calls' = Seqs!Front(calls)
    BY <1>3, <2>1 DEF Guest!AfterReturn
  <2>3. lr # Guest!Host
    BY <2>1, <2>2 DEF Guest!Host
  <2>4. QED BY <2>1, <2>2, <2>3
<1>6. calls = << >> => m = 0 /\ lr = Guest!Host /\ calls' = << >>
  BY <1>3 DEF Guest!AfterReturn
<1>7. /\ calls' \in Seq(Nat \ {0}) /\ (lr' = Guest!Host => calls' = << >>)
      /\ calls = (IF lr' = Guest!Host THEN calls' ELSE Append(calls', lr'))
  <2>1. CASE calls = << >>
    <3>1. << >> \in Seq(Nat \ {0})
      BY EmptySeq
    <3>2. QED BY <1>6, <2>1, <3>1
  <2>2. CASE calls # << >>
    BY <1>5, <2>2
  <2>3. QED BY <2>1, <2>2
<1>8. Depth(frames, n + 1) = m
  <2>1. Stacked(frames, n, fn, calls, m, LocalReturns, OtherReturns)
    BY <1>1
  <2>2. CASE m = 0
    <3> HIDE DEF n, m
    <3>1. Depth(frames, n + 1) \in 0..m
      BY <2>1 DEF Stacked
    <3>2. QED BY <2>2, <3>1
  <2>3. CASE m # 0
    <3>1. calls # << >>
      BY <2>3
    <3>2. lr = calls[m] /\ m \in Nat \ {0} /\ (lr \notin LocalReturns[fn] \/ m = Depth(frames, n + 1))
      BY <1>4, <1>5, <2>3, <3>1
    <3> HIDE DEF n, m
    <3>3. QED BY <1>4, <2>1, <3>2, LatestCall
  <2>4. QED BY <2>2, <2>3
<1>9. MachineInv'
  BY <1>1, <1>2, <1>3, <1>7, <1>8, HoldsReturning
<1>10. QED BY <1>2, <1>9, GuestWordNext

LEMMA TransferToHostFollows ==
    ASSUME AtGuestWord, NEW t \in Guest!BranchTargets(image, Here, lr), RunTransferToHost(t),
           covered'
    PROVE  MachineInv' /\ Guest!JumpToHost
<1>1. /\ Guest!IsJump(Here) /\ ~(t \in Exec /\ t \in Dispatched)
      /\ Len(calls) = OpenBefore /\ Guest!MayReturn(lr, calls)
      /\ calls' = Guest!AfterReturn(calls) /\ ReturnFromBody
      /\ lr' = lr /\ saved' = saved /\ frames' = frames
  BY StaysCovered
  DEF RunTransferToHost, ReturnsImmediately, Leaps, LeavesNoCallOpen, Guest!IsJump
<1>2. MachineInv' /\ guestPc' = lr
  BY <1>1, LeavesBody
<1>3. /\ Here = Guest!word /\ guestPc = at /\ image' = image /\ Here \in Instruction
      /\ fn \in DOMAIN functions /\ blk \in EmittedBlocks(fn) /\ Here = End(blk)
  BY <1>1, WordFacts DEF Guest!IsJump
<1>4. t \notin Exec
  BY <1>1, <1>3, TargetsResolve DEF AtGuestWord, Launched
<1>5. Guest!BranchTargets(image, Guest!word, lr) \ Exec # {}
  BY <1>3, <1>4
<1>6. Guest!JumpToHost
  BY <1>1, <1>2, <1>3, <1>5 DEF Guest!JumpToHost
<1>7. QED BY <1>2, <1>6

LEMMA ReturnFollows == AtGuestWord /\ RunReturn /\ covered' => MachineInv' /\ Guest!Return
<1> SUFFICES ASSUME AtGuestWord, RunReturn, covered' PROVE MachineInv' /\ Guest!Return
  OBVIOUS
<1>1. /\ Guest!ReturnsThroughLr(Here) /\ Guest!MayReturn(lr, calls)
      /\ calls' = Guest!AfterReturn(calls)
      /\ lr' = lr /\ saved' = saved /\ frames' = frames
  BY StaysCovered DEF RunReturn, Guest!ReturnsThroughLr
<1>2. /\ Here = Guest!word /\ guestPc = at /\ image' = image
      /\ Body = EmittedBlocks(fn) /\ fn \in DOMAIN functions
  BY WordFacts
<1>3. ResumeTargets(Body) = LocalReturns[fn]
  BY <1>2 DEF ResumeTargets, LocalReturns
<1>4. MachineInv' /\ guestPc' = lr
  <2>1. CASE lr \notin LocalReturns[fn]
    BY <1>1, <1>3, <2>1, LeavesBody DEF RunReturn
  <2>2. CASE lr \in LocalReturns[fn]
    <3>1. mode' = "run" /\ blk' = lr /\ at' = lr /\ fn' = fn
      BY <1>3, <2>2 DEF RunReturn, Goto
    <3>2. lr \in EmittedBlocks(fn)
      BY <1>2, <2>2 DEF AtGuestWord, Launched, Emitted, Translatable, LocalReturns
    <3>3. lr \in Exec /\ lr \in lr..blocks[lr].last /\ lr # Guest!Host
      BY <3>2, LabelIsWord, ImageAssumption DEF AtGuestWord, Guest!Host
    <3>4. /\ calls \in Seq(Nat \ {0}) /\ frames \in Seq(Activations)
          /\ lr \in KnownLinks /\ saved \in Seq(KnownLinks)
          /\ UNCHANGED <<vars, labels>> /\ Emitted
          /\ Stacked(frames, Len(frames), fn, calls, Len(calls), LocalReturns, OtherReturns)
      BY DEF AtGuestWord, Launched, StackHolds
    <3>5. calls # << >> /\ lr = Guest!Last(calls) /\ calls' = Guest!Front(calls)
      BY <1>1, <3>3 DEF Guest!MayReturn, Guest!AfterReturn
    <3> DEFINE n == Len(frames)
               m == Len(calls)
    <3>6. /\ n \in Nat /\ m \in Nat \ {0} /\ lr = calls[m] /\ Len(calls') = m - 1
          /\ calls' \in Seq(Nat \ {0}) /\ \A i \in 1..(m - 1) : calls'[i] = calls[i]
      <4>1. /\ Len(calls) \in Nat \ {0}
            /\ Seqs!Last(calls) = calls[Len(calls)]
            /\ Seqs!Front(calls) \in Seq(Nat \ {0}) /\ Len(Seqs!Front(calls)) = Len(calls) - 1
            /\ \A i \in 1..(Len(calls) - 1) : Seqs!Front(calls)[i] = calls[i]
            /\ Guest!Last(calls) = Seqs!Last(calls) /\ Guest!Front(calls) = Seqs!Front(calls)
        BY <3>4, <3>5, SequenceEnds
      <4>2. n \in Nat
        BY <3>4
      <4>3. lr = Seqs!Last(calls) /\ calls' = Seqs!Front(calls)
        BY <3>5, <4>1
      <4>4. QED BY <4>1, <4>2, <4>3
    <3>7. Stacked(frames, n, fn, calls', m - 1, LocalReturns, OtherReturns)
      <4>1. Stacked(frames, n, fn, calls, m, LocalReturns, OtherReturns)
        BY <3>4
      <4>2. \A p \in DOMAIN OtherReturns : lr # OtherReturns[p]
        BY <1>2, <2>2, TablesDisjoint DEF AtGuestWord, AnalysisInv, Launched, Emitted
      <4> HIDE DEF n, m
      <4>3. Depth(frames, n + 1) < m
        <5>1. \A p \in DOMAIN OtherReturns : calls[m] # OtherReturns[p]
          BY <3>6, <4>2
        <5>2. n \in Nat /\ m \in Nat \ {0}
          BY <3>6
        <5>3. QED BY <4>1, <5>1, <5>2, LatestCall
      <4>4. QED BY <3>6, <4>1, <4>3, LocallyClosed
    <3>8. MachineInv'
      BY <1>1, <1>2, <3>1, <3>2, <3>3, <3>4, <3>6, <3>7, HoldsAtWord
    <3>9. QED BY <3>1, <3>8, GuestWordNext
  <2>3. QED BY <2>1, <2>2
<1>5. Guest!Return
  BY <1>1, <1>2, <1>4 DEF Guest!Return
<1>6. QED BY <1>4, <1>5

LEMMA LocalCallFollows == AtGuestWord /\ RunLocalCall => MachineInv' /\ Guest!Call
<1> SUFFICES ASSUME AtGuestWord, RunLocalCall PROVE MachineInv' /\ Guest!Call
  OBVIOUS
<1>1. /\ Here.type = "Call" /\ IsLocalCall(Body, blk)
      /\ lr' = at + 1 /\ calls' = Append(calls, at + 1)
      /\ mode' = "run" /\ blk' = Here.target /\ at' = Here.target /\ fn' = fn
      /\ saved' = saved /\ frames' = frames
  BY DEF RunLocalCall, OpenCall, Goto
<1>2. /\ Here = Guest!word /\ guestPc = at /\ image' = image /\ Here \in Instruction
      /\ Body = EmittedBlocks(fn) /\ fn \in DOMAIN functions /\ blk \in EmittedBlocks(fn)
      /\ Here = End(blk) /\ at + 1 = Continuation(blk) /\ at \in Nat
  BY <1>1, WordFacts
<1> DEFINE t == Here.target
           r == at + 1
<1>3. t \in EmittedBlocks(fn) /\ Here.via = "none"
  BY <1>1, <1>2 DEF IsLocalCall, DirectTargets, HasDirectTarget
<1>4. t \in Exec /\ t \in t..blocks[t].last
  BY <1>3, LabelIsWord DEF AtGuestWord
<1>5. r \in KnownLinks /\ r \in Nat \ {0}
  BY <1>1, <1>2, BlockFacts DEF AtGuestWord
<1>6. r \in LocalReturns[fn]
  BY <1>1, <1>2 DEF LocalReturns, LocalResumeTargets
<1>7. /\ calls \in Seq(Nat \ {0}) /\ frames \in Seq(Activations)
      /\ saved \in Seq(KnownLinks)
      /\ UNCHANGED <<vars, labels>> /\ Emitted
      /\ Stacked(frames, Len(frames), fn, calls, Len(calls), LocalReturns, OtherReturns)
  BY DEF AtGuestWord, Launched, StackHolds
<1> HIDE DEF r, t
<1>8. /\ calls' \in Seq(Nat \ {0}) /\ Len(calls') = Len(calls) + 1
      /\ \A i \in 1..Len(calls) : calls'[i] = calls[i]
      /\ calls'[Len(calls) + 1] = r
      /\ Len(calls) \in Nat /\ Len(frames) \in Nat
  BY <1>1, <1>5, <1>7 DEF r
<1>9. Stacked(frames, Len(frames), fn, calls', Len(calls) + 1, LocalReturns, OtherReturns)
  <2> DEFINE n == Len(frames)
             m == Len(calls)
  <2>1. /\ n \in Nat /\ m \in Nat
        /\ Stacked(frames, n, fn, calls, m, LocalReturns, OtherReturns)
        /\ \A i \in 1..m : calls'[i] = calls[i]
        /\ calls'[m + 1] \in LocalReturns[fn]
    BY <1>6, <1>7, <1>8
  <2> HIDE DEF n, m
  <2>2. Stacked(frames, n, fn, calls', m + 1, LocalReturns, OtherReturns)
    BY <2>1, LocallyOpened
  <2>3. QED BY <2>2 DEF n, m
<1>10. mode' = "run" /\ blk' = t /\ at' = t /\ fn' = fn /\ lr' = r /\ saved' = saved /\ frames' = frames
  BY <1>1 DEF r, t
<1>11. MachineInv'
  BY <1>2, <1>3, <1>4, <1>5, <1>7, <1>8, <1>9, <1>10, HoldsAtWord
<1>12. Guest!Call
  <2>1. guestPc' = t
    BY <1>10, GuestWordNext
  <2>2. t \in Guest!BranchTargets(image, Guest!word, lr) \cap Exec
    BY <1>2, <1>3, <1>4 DEF Guest!BranchTargets, t
  <2>3. Guest!word.link
    BY <1>1, <1>2 DEF Instruction
  <2>4. QED BY <1>1, <1>2, <2>1, <2>2, <2>3 DEF Guest!Call
<1>13. QED BY <1>11, <1>12

LEMMA CallFollows ==
    ASSUME AtGuestWord, NEW t \in Guest!BranchTargets(image, Here, lr), RunCall(t)
    PROVE  MachineInv' /\ Guest!Call
<1>1. /\ Here.type = "Call" /\ ~IsLocalCall(Body, blk) /\ t \in Exec /\ t \in Dispatched
      /\ lr' = at + 1 /\ calls' = Append(calls, at + 1)
      /\ CallByAddr(t, FALSE, Len(calls) + 1) /\ saved' = saved
  BY DEF RunCall, OpenCall, ReturnsImmediately
<1>2. /\ Here = Guest!word /\ guestPc = at /\ image' = image /\ Here \in Instruction
      /\ Body = EmittedBlocks(fn) /\ fn \in DOMAIN functions /\ blk \in EmittedBlocks(fn)
      /\ Here = End(blk) /\ at + 1 = Continuation(blk) /\ at \in Nat
  BY <1>1, WordFacts
<1> DEFINE r == at + 1
           n == Len(frames)
           m == Len(calls)
<1>3. r \in KnownLinks /\ r \in Nat \ {0} /\ blk \in DOMAIN blocks
  BY <1>1, <1>2, BlockFacts DEF AtGuestWord
<1>4. <<fn, blk>> \in DOMAIN OtherReturns /\ OtherReturns[<<fn, blk>>] = r
  <2>1. <<fn, blk>> \in OtherCalls
    BY <1>1, <1>2, <1>3 DEF OtherCalls
  <2>2. QED BY <1>2, <2>1 DEF OtherReturns
<1>5. /\ calls \in Seq(Nat \ {0}) /\ frames \in Seq(Activations)
      /\ saved \in Seq(KnownLinks)
      /\ UNCHANGED <<vars, labels>> /\ Emitted
      /\ Stacked(frames, n, fn, calls, m, LocalReturns, OtherReturns)
  BY DEF AtGuestWord, Launched, StackHolds
<1>6. /\ calls' \in Seq(Nat \ {0}) /\ Len(calls') = m + 1
      /\ \A i \in 1..m : calls'[i] = calls[i]
      /\ calls'[m + 1] = r
      /\ m \in Nat /\ n \in Nat
  <2> HIDE DEF r
  <2>1. calls' = Append(calls, r)
    BY <1>1 DEF r
  <2>2. QED BY <1>3, <1>5, <2>1
<1>7. /\ mode' = "run" /\ at' = t /\ blk' = t
      /\ fn' \in DOMAIN functions /\ t \in EmittedBlocks(fn') /\ t \in t..blocks[t].last
      /\ frames' \in Seq(Activations) /\ Len(frames') = n + 1
      /\ \A i \in 1..n : frames'[i] = frames[i]
      /\ frames'[n + 1].fn = fn /\ frames'[n + 1].blk = blk
      /\ frames'[n + 1].tail = FALSE /\ frames'[n + 1].depth = m + 1
  <2>1. m + 1 \in Nat
    BY <1>6
  <2>2. QED BY <1>1, <2>1, Enters
<1> HIDE DEF r, n, m
<1>8. Stacked(frames', n + 1, fn', calls', m + 1, LocalReturns, OtherReturns)
  <2>1. Depth(frames, n + 1) < m + 1
    <3>1. Depth(frames, n + 1) \in 0..m
      BY <1>5 DEF Stacked
    <3>2. QED BY <1>6, <3>1
  <2>2. FrameAwaits(frames'[n + 1], Depth(frames, n + 1), calls', OtherReturns)
    BY <1>4, <1>6, <1>7, <2>1 DEF FrameAwaits
  <2>3. QED BY <1>5, <1>6, <1>7, <2>2, Pushed
<1>9. lr' = r
  BY <1>1 DEF r
<1>10. MachineInv'
  <2>1. Stacked(frames', Len(frames'), fn', calls', Len(calls'), LocalReturns, OtherReturns)
    BY <1>6, <1>7, <1>8
  <2>2. /\ at' \in blk'..blocks[blk'].last /\ at' \in Exec /\ blk' \in EmittedBlocks(fn')
        /\ lr' \in KnownLinks /\ saved' \in Seq(KnownLinks)
    BY <1>1, <1>3, <1>5, <1>7, <1>9
  <2>3. QED BY <1>5, <1>6, <1>7, <2>1, <2>2, HoldsAtWord
<1>11. Guest!Call
  <2>1. guestPc' = t
    BY <1>7, GuestWordNext
  <2>2. t \in Guest!BranchTargets(image, Guest!word, lr) \cap Exec
    BY <1>1, <1>2
  <2>3. Guest!word.link
    BY <1>1, <1>2 DEF Instruction
  <2>4. QED BY <1>1, <1>2, <2>1, <2>2, <2>3 DEF Guest!Call
<1>12. QED BY <1>10, <1>11

LEMMA CallHostFollows ==
    ASSUME AtGuestWord, NEW t \in Guest!BranchTargets(image, Here, lr), RunCallHost(t)
    PROVE  MachineInv' /\ Guest!CallHost
<1>1. /\ Here.type = "Call" /\ ~IsLocalCall(Body, blk) /\ ~(t \in Exec /\ t \in Dispatched)
      /\ at + 1 \in Exec /\ lr' = at + 1 /\ RunOff(fn, blk)
      /\ saved' = saved /\ calls' = calls /\ frames' = frames
  BY DEF RunCallHost, ReturnsImmediately
<1>2. /\ Here = Guest!word /\ guestPc = at /\ image' = image /\ Here \in Instruction
      /\ Body = EmittedBlocks(fn) /\ fn \in DOMAIN functions /\ blk \in EmittedBlocks(fn)
      /\ Here = End(blk) /\ at + 1 = Continuation(blk) /\ at \in Nat
  BY <1>1, WordFacts
<1>3. t \notin Exec
  BY <1>1, <1>2, TargetsResolve DEF AtGuestWord, Launched
<1>4. /\ mode' = "run" /\ fn' = fn /\ blk' = at + 1 /\ at' = at + 1
      /\ at + 1 \in EmittedBlocks(fn)
  BY <1>1, <1>2, RunsOnBehind DEF AtGuestWord, Launched, FallsThrough
<1>5. MachineInv'
  <2>1. at' \in Exec /\ at' \in blk'..blocks[blk'].last
    BY <1>4, LabelIsWord DEF AtGuestWord
  <2>2. Stacked(frames', Len(frames'), fn', calls', Len(calls'), LocalReturns, OtherReturns)
    BY <1>1, <1>4 DEF AtGuestWord, StackHolds
  <2>3. lr' \in KnownLinks
    BY <1>1, <1>2, BlockFacts DEF AtGuestWord
  <2>4. /\ calls' \in Seq(Nat \ {0}) /\ frames' \in Seq(Activations)
        /\ saved' \in Seq(KnownLinks)
        /\ UNCHANGED <<vars, labels>> /\ Emitted
    BY <1>1 DEF AtGuestWord, Launched
  <2>5. QED BY <1>2, <1>4, <2>1, <2>2, <2>3, <2>4, HoldsAtWord
<1>6. Guest!CallHost
  <2>1. guestPc' = at + 1
    BY <1>4, GuestWordNext
  <2>2. Guest!BranchTargets(image, Guest!word, lr) \ Exec # {}
    BY <1>2, <1>3
  <2>3. Guest!word.link
    BY <1>1, <1>2 DEF Instruction
  <2>4. QED BY <1>1, <1>2, <2>1, <2>2, <2>3 DEF Guest!CallHost
<1>7. QED BY <1>5, <1>6

-----------------------------------------------------------------------------
(* A C return: the guest stays where it is, at the address in lr.          *)
LEMMA UnwindFollows ==
    ASSUME AnalysisInv, mode = "return", Launched, Returning, UNCHANGED vars, Unwind
    PROVE  MachineInv' /\ guestPc' = guestPc
<1>1. /\ lr \in KnownLinks /\ saved \in Seq(KnownLinks) /\ calls \in Seq(Nat \ {0})
      /\ frames \in Seq(Activations) /\ Emitted
  BY DEF Launched
<1>2. /\ UNCHANGED <<vars, labels>> /\ lr' = lr /\ saved' = saved /\ calls' = calls
      /\ guestPc = lr
  BY GuestWord DEF Unwind
<1> DEFINE open == Unreturned
           m == Len(open)
<1>3. /\ open = (IF lr = Guest!Host THEN calls ELSE Append(calls, lr))
      /\ Stacked(frames, Len(frames), fn, open, m, LocalReturns, OtherReturns)
      /\ Depth(frames, Len(frames) + 1) = m
      /\ lr \in Exec \cup {Guest!Host} /\ (lr = Guest!Host => calls = << >>)
  BY DEF Unreturned, Returning, StackHolds
<1>4. /\ lr = Guest!Host => m = 0
      /\ lr # Guest!Host => /\ m = Len(calls) + 1 /\ open[m] = lr
                            /\ \A k \in 1..(m - 1) : open[k] = calls[k]
      /\ m \in Nat /\ Len(calls) \in Nat
  <2> HIDE DEF open
  <2>1. CASE lr = Guest!Host
    BY <1>3, <2>1
  <2>2. CASE lr # Guest!Host
    <3>1. lr \in Nat \ {0}
      BY <1>1, <2>2 DEF KnownLinks, Guest!Host
    <3>2. open = Append(calls, lr)
      BY <1>3, <2>2
    <3>3. QED BY <1>1, <2>2, <3>1, <3>2
  <2>3. QED BY <2>1, <2>2
<1>5. CASE frames = << >>
  <2>1. mode' = "over" /\ frames' = frames
    BY <1>5 DEF Unwind
  <2>2. m = 0
    BY <1>3, <1>5 DEF Depth
  <2>3. lr = Guest!Host
    BY <1>4, <2>2
  <2>4. guestPc' = guestPc
    BY <1>2, <2>1, <2>3, GuestWordNext
  <2>5. MachineInv'
    <3>1. KnownLinks' = KnownLinks /\ Activations' = Activations /\ Emitted'
      BY <1>1, <1>2, TablesStay
    <3>2. Launched'
      BY <1>1, <1>2, <2>1, <3>1 DEF Launched
    <3>3. phase' = "done"
      BY <1>1, <1>2 DEF Emitted, vars
    <3>4. QED BY <2>1, <3>2, <3>3 DEF MachineInv
  <2>6. QED BY <2>4, <2>5
<1>6. CASE frames # << >>
  <2> DEFINE n == Len(frames) - 1
             f == frames[n + 1]
  <2>1. /\ n \in Nat /\ Len(frames) = n + 1 /\ f = Seqs!Last(frames) /\ f \in Activations
        /\ frames' \in Seq(Activations) /\ Len(frames') = n
        /\ \A i \in 1..n : frames'[i] = frames[i]
    <3>1. /\ Len(frames) \in Nat \ {0}
          /\ Seqs!Last(frames) = frames[Len(frames)] /\ Seqs!Last(frames) \in Activations
          /\ Seqs!Front(frames) \in Seq(Activations) /\ Len(Seqs!Front(frames)) = Len(frames) - 1
          /\ \A i \in 1..(Len(frames) - 1) : Seqs!Front(frames)[i] = frames[i]
      BY <1>1, <1>6, SequenceEnds
    <3>2. frames' = Seqs!Front(frames)
      BY <1>6 DEF Unwind
    <3>3. QED BY <3>1, <3>2
  <2>2. IF f.tail THEN ReturnFromBody ELSE RunOff(f.fn, f.blk)
    BY <1>6, <2>1 DEF Unwind, ReturnsAtOnce
  <2> HIDE DEF n, m, open
  <2>3. PICK p : p = n + 1
    OBVIOUS
  <2>4. /\ f.tail => /\ Stacked(frames', n, f.fn, open, m, LocalReturns, OtherReturns)
                     /\ Depth(frames', n + 1) = m
        /\ ~f.tail =>
              /\ m # 0
              /\ <<f.fn, f.blk>> \in DOMAIN OtherReturns
              /\ open[m] = OtherReturns[<<f.fn, f.blk>>]
              /\ Stacked(frames', n, f.fn, calls, m - 1, LocalReturns, OtherReturns)
    <3>1. n \in Nat /\ m \in Nat /\ \A i \in 1..n : frames'[i] = frames[i]
      BY <1>4, <2>1
    <3>2. \A k \in 1..(m - 1) : calls[k] = open[k]
      BY <1>4
    <3>3. Stacked(frames, p, fn, open, m, LocalReturns, OtherReturns) /\ Depth(frames, p + 1) = m
      BY <1>3, <2>1, <2>3
    <3>4. /\ frames[p].tail =>
                /\ Stacked(frames', n, frames[p].fn, open, m, LocalReturns, OtherReturns)
                /\ Depth(frames', n + 1) = m
          /\ ~frames[p].tail =>
                /\ m # 0
                /\ <<frames[p].fn, frames[p].blk>> \in DOMAIN OtherReturns
                /\ open[m] = OtherReturns[<<frames[p].fn, frames[p].blk>>]
                /\ Stacked(frames', n, frames[p].fn, calls, m - 1, LocalReturns, OtherReturns)
      <4> HIDE DEF f
      <4> QED BY <2>3, <3>1, <3>2, <3>3, Popped, SMTT(60)
    <3>5. f = frames[p]
      BY <2>3 DEF f
    <3> HIDE DEF f
    <3>6. QED BY <3>4, <3>5
  <2> HIDE DEF f
  <2>5. CASE f.tail
    <3>1. mode' = "return" /\ fn' = fn
      BY <2>2, <2>5 DEF ReturnFromBody, position
    <3>2. Stacked(frames', n, fn, open, m, LocalReturns, OtherReturns)
      BY <1>4, <2>1, <2>4, <2>5, TopIsIdle
    <3>3. /\ Stacked(frames', Len(frames'), fn, open, Len(open), LocalReturns, OtherReturns)
          /\ Depth(frames', Len(frames') + 1) = Len(open)
      BY <2>1, <2>4, <2>5, <3>2 DEF m
    <3>4. MachineInv'
      <4>1. open = (IF lr' = Guest!Host THEN calls' ELSE Append(calls', lr'))
        BY <1>2, <1>3
      <4>2. QED BY <1>1, <1>2, <1>3, <2>1, <3>1, <3>3, <4>1, HoldsReturning
    <3>5. QED BY <1>2, <3>1, <3>4, GuestWordNext
  <2>6. CASE ~f.tail
    <3>1. lr # Guest!Host /\ m - 1 = Len(calls) /\ lr = OtherReturns[<<f.fn, f.blk>>]
      BY <1>4, <2>4, <2>6
    <3>2. Stacked(frames', n, f.fn, calls, Len(calls), LocalReturns, OtherReturns)
      BY <1>4, <2>4, <2>6, <3>1
    <3>3. /\ f.fn \in DOMAIN functions /\ f.blk \in EmittedBlocks(f.fn)
          /\ End(f.blk).type = "Call" /\ ~IsLocalCall(EmittedBlocks(f.fn), f.blk)
          /\ lr = Continuation(f.blk)
      <4>1. <<f.fn, f.blk>> \in OtherCalls /\ lr = Continuation(f.blk)
        BY <2>4, <2>6, <3>1 DEF OtherReturns
      <4>2. QED BY <4>1 DEF OtherCalls
    <3>4. /\ mode' = "run" /\ fn' = f.fn /\ blk' = lr /\ at' = lr
          /\ lr \in EmittedBlocks(f.fn)
      <4>1. lr \in Exec /\ RunOff(f.fn, f.blk) /\ FallsThrough(EmittedBlocks(f.fn), f.blk)
        BY <1>3, <2>2, <2>6, <3>1, <3>3 DEF FallsThrough
      <4>2. QED BY <1>1, <3>3, <4>1, RunsOnBehind
    <3>5. lr \in lr..blocks[lr].last /\ lr \in Exec
      BY <3>4, LabelIsWord
    <3>6. MachineInv'
      BY <1>1, <1>2, <2>1, <3>2, <3>3, <3>4, <3>5, HoldsAtWord
    <3>7. QED BY <1>2, <3>4, <3>6, GuestWordNext
  <2>7. QED BY <2>5, <2>6
<1>7. QED BY <1>5, <1>6

(* The host starts the guest with an empty stack.                          *)
LEMMA EmitLaunches ==
    ASSUME AnalysisInv, MachineInv, Emit, covered'
    PROVE  MachineInv' /\ guestPc' = guestPc
<1>1. /\ phase = "done" /\ mode = "emit" /\ EntryPoint \in Exec /\ Translatable
      /\ labels' = [f \in DOMAIN functions |-> EmittedBlocks(f)]
      /\ mode' = "run" /\ fn' = DispatchTargets[EntryPoint] /\ blk' = EntryPoint
      /\ UNCHANGED vars /\ at' = at /\ lr' = lr /\ saved' = saved /\ calls' = calls
      /\ frames' = frames
  BY DEF Emit
<1>2. at = EntryPoint /\ lr = Guest!Host /\ saved = << >> /\ calls = << >> /\ frames = << >>
  BY <1>1 DEF MachineInv
<1>3. EntryPoint \in DOMAIN functions /\ EntryPoint \in Dispatched
  <2>1. EntryPoint \in discovered
    BY <1>1 DEF AnalysisInv, EntryKnown
  <2>2. EntryPoint \in DOMAIN functions
    BY <1>1, <2>1 DEF AnalysisInv, EveryFunctionAnalyzed
  <2>3. QED BY <2>2 DEF Dispatched
<1>4. DispatchTargets[EntryPoint] = EntryPoint
  BY <1>3 DEF DispatchTargets, IsFunction
<1>5. EntryPoint \in EmittedBlocks(EntryPoint)
  BY <1>1, <1>3, <1>4 DEF AnalysisInv, DispatchLandsOnLabel
<1>6. /\ LocalReturns' = LocalReturns /\ OtherReturns' = OtherReturns
      /\ KnownLinks' = KnownLinks /\ Activations' = Activations
      /\ Translatable' = Translatable
      /\ \A f : EmittedBlocks(f)' = EmittedBlocks(f)
      /\ functions' = functions /\ blocks' = blocks /\ phase' = phase
  BY <1>1, TablesStay, LabelsStay DEF vars, cfgVars
<1>7. Emitted'
  BY <1>1, <1>6 DEF Emitted
<1>8. << >> \in Seq(KnownLinks) /\ << >> \in Seq(Nat \ {0}) /\ << >> \in Seq(Activations)
  BY EmptySeq
<1>9. Launched'
  <2>1. Guest!Host \in KnownLinks
    BY ImageAssumption DEF KnownLinks, Guest!Host
  <2>2. QED BY <1>1, <1>2, <1>6, <1>7, <1>8, <2>1 DEF Launched
<1>10. AtWord'
  <2>1. EntryPoint \in EntryPoint..blocks[EntryPoint].last
    BY <1>5, LabelIsWord
  <2>2. fn' = EntryPoint /\ EmittedBlocks(EntryPoint)' = EmittedBlocks(EntryPoint)
    BY <1>1, <1>4, <1>6
  <2>3. EmittedBlocks(fn)' = EmittedBlocks(EntryPoint)'
    BY <2>2
  <2>4. QED BY <1>1, <1>2, <1>3, <1>5, <1>6, <2>1, <2>2, <2>3 DEF AtWord
<1>11. StackHolds(calls)'
  <2>1. \A top, locals, sites : Stacked(<< >>, 0, top, << >>, 0, locals, sites)
    BY DEF Stacked, Depth
  <2>2. calls' = << >> /\ frames' = << >> /\ Len(calls') = 0 /\ Len(frames') = 0
    BY <1>1, <1>2
  <2>3. QED BY <2>1, <2>2 DEF StackHolds
<1>12. MachineInv'
  BY <1>1, <1>6, <1>9, <1>10, <1>11 DEF MachineInv
<1>13. guestPc' = guestPc
  BY <1>1, <1>2, GuestWord, GuestWordNext
<1>14. QED BY <1>12, <1>13

(* The analyzer has stopped when the guest runs, and never changes the     *)
(* image.                                                                  *)
LEMMA AnalyzerStops == phase = "done" => ~(Seeding \/ MainLoop)
BY DEF Seeding, MainLoop, ScanPrologues, DiscoverEntryPoint, ScanDataPointers,
       ScanTextPointers, SeedFrom, PopulateWorklist, SkipAnalyzed, BeginFunction,
       Finish, ScanRun, BeginPass2, SkipBlock, BuildBlock, EndFunction

LEMMA ImageStays == Seeding \/ MainLoop => image' = image
BY DEF Seeding, MainLoop, ScanPrologues, DiscoverEntryPoint, ScanDataPointers,
       ScanTextPointers, SeedFrom, PopulateWorklist, SkipAnalyzed, BeginFunction,
       Finish, ScanRun, BeginPass2, SkipBlock, BuildBlock, EndFunction

(* Where a step of the running code leaves the host, and that what has had *)
(* no translation stays so.                                                *)
LEMMA RunWordMoves ==
    ASSUME RunWord
    PROVE  mode' \in {"run", "return"} /\ (covered' => covered)
<1>1. RunOrdinary => mode' \in {"run", "return"} /\ (covered' => covered)
  BY DEF RunWord, RunOrdinary, RunOff, Goto
<1>2. RunNotTaken => mode' \in {"run", "return"} /\ (covered' => covered)
  BY DEF RunNotTaken, RunOff, Goto, CoveredIf
<1>3. RunReturn => mode' \in {"run", "return"} /\ (covered' => covered)
  BY DEF RunReturn, Goto, ReturnFromBody, CoveredIf
<1>4. RunLocalCall => mode' \in {"run", "return"} /\ (covered' => covered)
  BY DEF RunLocalCall, OpenCall, Goto
<1>5. ASSUME NEW t, RunGoto(t) \/ RunTransfer(t) \/ RunTransferToHost(t)
      PROVE  mode' \in {"run", "return"} /\ (covered' => covered)
  BY <1>5 DEF RunGoto, RunTransfer, RunTransferToHost, CallByAddr, Goto, ReturnFromBody, CoveredIf
<1>6. ASSUME NEW t, RunCall(t) \/ RunCallHost(t)
      PROVE  mode' \in {"run", "return"} /\ (covered' => covered)
  <2>1. CASE RunCall(t)
    BY <2>1 DEF RunCall, CallByAddr, OpenCall, Goto
  <2>2. CASE RunCallHost(t)
    BY <2>2 DEF RunCallHost, RunOff, Goto
  <2>3. QED BY <1>6, <2>1, <2>2
<1>7. QED BY <1>1, <1>2, <1>3, <1>4, <1>5, <1>6 DEF RunWord

(* Every step keeps the invariant, and while the guest does only what has  *)
(* a translation, it is a step of the guest or none.                       *)
LEMMA NextFollows ==
    ASSUME AnalysisInv, MachineInv, [GeneratedNext]_allVars
    PROVE  MachineInv' /\ [covered' => Guest!GuestNext]_(Guest!guestVars)
<1>1. CASE (Seeding \/ MainLoop) /\ UNCHANGED machineVars
  <2>1. mode = "emit"
    BY <1>1, AnalyzerStops DEF MachineInv
  <2>2. mode' = mode /\ at' = at /\ lr' = lr /\ saved' = saved /\ calls' = calls /\ frames' = frames
    BY <1>1 DEF machineVars, position
  <2>3. MachineInv'
    BY <2>1, <2>2 DEF MachineInv, Guest!Host
  <2>4. UNCHANGED Guest!guestVars
    BY <1>1, <2>1, <2>2, ImageStays DEF Guest!guestVars, guestPc
  <2>5. QED BY <2>3, <2>4
<1>2. CASE Emit
  <2>1. CASE covered'
    <3>1. MachineInv' /\ guestPc' = guestPc
      BY <1>2, <2>1, EmitLaunches
    <3>2. UNCHANGED Guest!guestVars
      BY <1>2, <3>1 DEF Emit, vars, Guest!guestVars
    <3>3. QED BY <3>1, <3>2
  <2>2. CASE ~covered'
    <3>1. MachineInv'
      BY <1>2, <2>2, HoldsUncovered DEF Emit
    <3>2. QED BY <2>2, <3>1
  <2>3. QED BY <2>1, <2>2
<1>3. CASE RunWord /\ UNCHANGED vars /\ covered'
  <2>1. AtGuestWord
    <3>1. covered
      BY <1>3, RunWordMoves
    <3>2. QED BY <1>3, <3>1 DEF RunWord, MachineInv, AtGuestWord
  <2>2. guestPc \in Exec
    BY <2>1, WordFacts
  <2>3. MachineInv' /\ GuestStep
    <3>1. CASE RunOrdinary
      BY <2>1, <3>1, OrdinaryFollows DEF GuestStep
    <3>2. CASE RunNotTaken
      BY <1>3, <2>1, <3>2, NotTakenFollows DEF GuestStep
    <3>3. CASE RunReturn
      BY <1>3, <2>1, <3>3, ReturnFollows DEF GuestStep
    <3>4. CASE RunLocalCall
      BY <2>1, <3>4, LocalCallFollows DEF GuestStep
    <3>5. ASSUME NEW t \in Guest!BranchTargets(image, Here, lr),
                 \/ RunGoto(t) \/ RunTransfer(t) \/ RunTransferToHost(t)
                 \/ RunCall(t) \/ RunCallHost(t)
          PROVE  MachineInv' /\ GuestStep
      <4>1. CASE RunGoto(t)
        BY <1>3, <2>1, <4>1, GotoFollows DEF GuestStep
      <4>2. CASE RunTransfer(t)
        BY <1>3, <2>1, <4>2, TransferFollows DEF GuestStep
      <4>3. CASE RunTransferToHost(t)
        BY <1>3, <2>1, <4>3, TransferToHostFollows DEF GuestStep
      <4>4. CASE RunCall(t)
        BY <2>1, <4>4, CallFollows DEF GuestStep
      <4>5. CASE RunCallHost(t)
        BY <2>1, <4>5, CallHostFollows DEF GuestStep
      <4>6. QED BY <3>5, <4>1, <4>2, <4>3, <4>4, <4>5
    <3>6. QED BY <1>3, <3>1, <3>2, <3>3, <3>4, <3>5 DEF RunWord
  <2>4. Guest!GuestNext
    BY <2>2, <2>3 DEF GuestStep, Guest!GuestNext
  <2>5. QED BY <2>3, <2>4
<1>4. CASE Unwind /\ UNCHANGED vars /\ covered'
  <2>1. mode = "return" /\ Launched /\ Returning
    <3>1. mode = "return" /\ covered
      BY <1>4 DEF Unwind
    <3>2. QED BY <3>1 DEF MachineInv
  <2>2. MachineInv' /\ guestPc' = guestPc
    BY <1>4, <2>1, UnwindFollows
  <2>3. UNCHANGED Guest!guestVars
    BY <1>4, <2>2 DEF Unwind, vars, Guest!guestVars
  <2>4. QED BY <2>2, <2>3
<1>5. CASE (RunWord \/ Unwind) /\ UNCHANGED vars /\ ~covered'
  <2>1. mode # "emit" /\ mode' \in {"run", "return", "over"}
    <3>1. CASE RunWord
      BY <3>1, RunWordMoves DEF RunWord
    <3>2. CASE Unwind
      BY <3>2 DEF Unwind, ReturnFromBody, RunOff, Goto
    <3>3. QED BY <1>5, <3>1, <3>2
  <2>2. phase = "done"
    BY <2>1 DEF MachineInv
  <2>3. MachineInv'
    BY <1>5, <2>1, <2>2, HoldsUncovered
  <2>4. QED BY <1>5, <2>3
<1>6. CASE UNCHANGED allVars
  <2>1. /\ UNCHANGED <<vars, labels>> /\ UNCHANGED vars /\ mode' = mode
        /\ fn' = fn /\ blk' = blk /\ at' = at /\ lr' = lr
        /\ saved' = saved /\ calls' = calls /\ frames' = frames /\ covered' = covered
    BY <1>6 DEF allVars, machineVars, position
  <2>2. image' = image
    BY <2>1 DEF vars
  <2>3. guestPc' = guestPc
    BY <2>1 DEF guestPc
  <2>4. UNCHANGED Guest!guestVars
    BY <2>1, <2>2, <2>3 DEF Guest!guestVars
  <2>5. MachineInv'
    <3>1. /\ LocalReturns' = LocalReturns /\ OtherReturns' = OtherReturns
          /\ KnownLinks' = KnownLinks /\ Activations' = Activations
          /\ Emitted => Emitted'
          /\ \A f : EmittedBlocks(f)' = EmittedBlocks(f)
          /\ functions' = functions /\ blocks' = blocks
      BY <2>1, TablesStay, LabelsStay DEF vars, cfgVars
    <3>2. Launched => Launched'
      BY <2>1, <3>1 DEF Launched
    <3>3. AtWord => AtWord'
      <4>1. PICK f : f = fn
        OBVIOUS
      <4>2. f = fn' /\ EmittedBlocks(fn)' = EmittedBlocks(f)' /\ EmittedBlocks(fn) = EmittedBlocks(f)
        BY <2>1, <4>1
      <4>3. QED BY <2>1, <3>1, <4>1, <4>2 DEF AtWord
    <3>4. StackHolds(calls) => StackHolds(calls)'
      BY <2>1, <3>1 DEF StackHolds
    <3>5. Returning => Returning'
      <4>1. Unreturned' = Unreturned
        BY <2>1 DEF Unreturned, Guest!Host
      <4>2. StackHolds(Unreturned) => StackHolds(Unreturned)'
        BY <2>1, <3>1, <4>1 DEF StackHolds
      <4>3. QED BY <2>1, <4>1, <4>2 DEF Returning, Guest!Host
    <3>6. phase' = phase
      BY <2>1 DEF vars
    <3>7. QED BY <2>1, <3>2, <3>3, <3>4, <3>5, <3>6 DEF MachineInv, Guest!Host
  <2>6. QED BY <2>4, <2>5
<1>7. QED BY <1>1, <1>2, <1>3, <1>4, <1>5, <1>6 DEF GeneratedNext

(* Seen from the analyzer, the emitted code does nothing.                  *)
LEMMA AnalyzerRuns == GeneratedSpec => Spec
<1>1. GeneratedInit => Init
  BY DEF GeneratedInit
<1>2. [GeneratedNext]_allVars => [Next]_vars
  BY DEF GeneratedNext, allVars, Emit, Next
<1>3. QED BY <1>1, <1>2, PTL DEF GeneratedSpec, Spec

LEMMA MachineInvHolds == GeneratedSpec => [](AnalysisInv /\ MachineInv)
<1>1. GeneratedInit => MachineInv
  BY DEF GeneratedInit, MachineInit, MachineInv
<1>2. AnalysisInv /\ MachineInv /\ [GeneratedNext]_allVars => MachineInv'
  BY NextFollows
<1>3. QED BY <1>1, <1>2, AnalyzerRuns, AnalysisInvHolds, PTL DEF GeneratedSpec

(* The emitted code is the guest, for every image and every seeding: of    *)
(* translatable output, the words it stands for are those a PowerPC would  *)
(* execute, with the same link register, and the host returns only when    *)
(* the guest has ended, up to a jump that leaves a body with a local call  *)
(* open and to a conditional branch with link.                             *)
THEOREM EmittedCodeFollowsGuest == GeneratedSpec => FollowsGuest
<1>1. GeneratedInit => Guest!GuestInit
  <2>1. Init => image \in ImageType
    BY AnalyzerAssumption DEF Init
  <2>2. Guest!ImageType = ImageType
    BY DEF ImageType, Code, Instruction, InstructionType, Addr, Target,
           Guest!ImageType, Guest!Code, Guest!Instruction, Guest!InstructionType,
           Guest!Addr, Guest!Target
  <2>3. QED BY <2>1, <2>2 DEF GeneratedInit, MachineInit, Guest!GuestInit, guestPc
<1>2. AnalysisInv /\ MachineInv /\ [GeneratedNext]_allVars
      => [covered' => Guest!GuestNext]_(Guest!guestVars)
  BY NextFollows
<1>3. QED BY <1>1, <1>2, MachineInvHolds, PTL DEF GeneratedSpec, FollowsGuest

(* Up to there no open guest call is lost: the activation of the host's    *)
(* stack that made it goes on behind it, or a resume label of the body     *)
(* that made it awaits it.                                                 *)
THEOREM CallsAreAwaited == GeneratedSpec => []OpenCallsAreAwaited
<1>1. AnalysisInv /\ MachineInv => OpenCallsAreAwaited
  <2> SUFFICES ASSUME AnalysisInv, MachineInv, mode = "run", covered, NEW k \in DOMAIN calls
               PROVE  AwaitedByFrame(k) \/ AwaitedByLabel(k)
    BY DEF OpenCallsAreAwaited
  <2>1. /\ Launched /\ AtWord
        /\ Stacked(frames, Len(frames), fn, calls, Len(calls), LocalReturns, OtherReturns)
    BY DEF MachineInv, StackHolds
  <2>2. /\ calls \in Seq(Nat \ {0}) /\ frames \in Seq(Activations)
        /\ labels = [f \in DOMAIN functions |-> EmittedBlocks(f)]
        /\ fn \in DOMAIN functions
    BY <2>1 DEF Launched, Emitted, AtWord
  <2> DEFINE n == Len(frames)
             m == Len(calls)
  <2>3. /\ n \in Nat /\ m \in Nat /\ k \in 1..m /\ DOMAIN frames = 1..n
        /\ Stacked(frames, n, fn, calls, m, LocalReturns, OtherReturns)
    BY <2>1, <2>2
  <2> HIDE DEF n, m
  <2>4. CASE \E i \in 1..n : /\ ~frames[i].tail
                             /\ frames[i].depth = k
                             /\ <<frames[i].fn, frames[i].blk>> \in DOMAIN OtherReturns
                             /\ calls[k] = OtherReturns[<<frames[i].fn, frames[i].blk>>]
    <3>1. PICK i \in 1..n : /\ ~frames[i].tail
                            /\ frames[i].depth = k
                            /\ <<frames[i].fn, frames[i].blk>> \in DOMAIN OtherReturns
                            /\ calls[k] = OtherReturns[<<frames[i].fn, frames[i].blk>>]
      BY <2>4
    <3>2. calls[k] = Continuation(frames[i].blk)
      BY <3>1 DEF OtherReturns
    <3>3. QED BY <2>3, <3>1, <3>2 DEF AwaitedByFrame
  <2>5. CASE \E i \in 1..(n + 1) : /\ Between(frames, n, i, k)
                                   /\ calls[k] \in LocalReturns[BodyAt(frames, n, fn, i)]
    <3>1. PICK i \in 1..(n + 1) : /\ Between(frames, n, i, k)
                                  /\ calls[k] \in LocalReturns[BodyAt(frames, n, fn, i)]
      BY <2>5
    <3>2. OpenAtStart(i) < k /\ (i <= Len(frames) => k < frames[i].depth)
      BY <3>1 DEF Between, Depth, OpenAtStart, n
    <3>3. ActiveBody(i) = BodyAt(frames, n, fn, i)
      BY DEF ActiveBody, BodyAt, n
    <3>4. BodyAt(frames, n, fn, i) \in DOMAIN functions
      <4>1. CASE i <= n
        <5>1. i \in 1..Len(frames)
          BY <2>3, <4>1 DEF n
        <5>2. frames[i] \in Activations
          BY <2>2, <5>1, ElementOfSeq
        <5>3. QED BY <4>1, <5>2 DEF BodyAt, Activations
      <4>2. CASE ~(i <= n)
        BY <2>2, <4>2 DEF BodyAt
      <4>3. QED BY <4>1, <4>2
    <3>5. calls[k] \in LocalResumeTargets(labels[ActiveBody(i)])
      BY <2>2, <3>1, <3>3, <3>4 DEF LocalReturns
    <3>6. i \in 1..(Len(frames) + 1)
      BY DEF n
    <3>7. QED BY <3>2, <3>5, <3>6 DEF AwaitedByLabel
  <2>6. QED BY <2>3, <2>4, <2>5, EveryCallIsAwaited
<1>2. QED BY <1>1, MachineInvHolds, PTL
=============================================================================
