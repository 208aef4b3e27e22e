---------------------------- MODULE LoaderProofs ----------------------------
(***************************************************************************)
(* The region cache, the types of what is loaded and the words that can be *)
(* read, for every command line, set of lookups and width.                 *)
(***************************************************************************)
EXTENDS Loader, WellFoundedInduction, FiniteSetTheorems, SequenceTheorems, TLAPS

LEMMA LessIsWellFounded == IsWellFoundedOn({p \in Nat \X Nat : p[1] < p[2]}, Nat)
  BY NatLessThanWellFounded DEF OpToRel

(* The first region that holds an address exists if any does.              *)
LEMMA LeastExists ==
    ASSUME NEW S \in SUBSET Nat, S # {}
    PROVE  \E i \in S : \A j \in S : i <= j
<1> DEFINE Less == {p \in Nat \X Nat : p[1] < p[2]}
<1>1. \E i \in S : \A j \in S : ~ (<<j, i>> \in Less)
  BY LessIsWellFounded, WFMin, Zenon
<1>2. PICK i \in S : \A j \in S : ~ (<<j, i>> \in Less)
  BY <1>1
<1>3. ASSUME NEW j \in S
      PROVE  i <= j
  <2>1. ~ (j < i)
    BY <1>2
  <2> QED BY <2>1
<1> QED BY <1>3

(* findRegion answers with a region that holds the address, and finds one  *)
(* exactly when there is one, whatever it has cached.                      *)
LEMMA FoundRegionHolds ==
    ASSUME NEW a, Len(mapped) \in Nat
    PROVE  /\ Containing(a) = {} => FindRegion(a) = 0
           /\ Containing(a) # {} => FindRegion(a) \in Containing(a)
<1>1. Containing(a) \in SUBSET Nat
  BY DEF Containing
<1>2. Containing(a) # {} => \E i \in Containing(a) : \A j \in Containing(a) : i <= j
  BY <1>1, LeastExists
<1> QED BY <1>2 DEF FindRegion

(* While a DOL is mapped nothing has been looked up: that is why mapping   *)
(* it need not reset the cache.                                            *)
CacheInv ==
    /\ Len(mapped) \in Nat
    /\ phase \in {"open", "dol"} => last = NoRegion
    /\ CachedRegionIsLive

LEMMA LookupKeepsCacheLive ==
    ASSUME NEW a, CacheInv, last' = CacheAfter(a), UNCHANGED mapped
    PROVE  Len(mapped') \in Nat /\ CachedRegionIsLive'
<1>1. CASE FindRegion(a) = 0
  BY <1>1 DEF CacheInv, CacheAfter, CachedRegionIsLive, NoRegion
<1>2. CASE FindRegion(a) # 0
  <2>1. FindRegion(a) \in 1..Len(mapped)
    BY <1>2, FoundRegionHolds DEF CacheInv, Containing
  <2>2. last' = Pointer(FindRegion(a))
    BY <1>2 DEF CacheAfter
  <2> QED BY <2>1, <2>2 DEF CacheInv, Pointer, CachedRegionIsLive
<1> QED BY <1>1, <1>2

LEMMA CacheInvInit == Init => CacheInv
  BY DEF Init, CacheInv, CachedRegionIsLive, NoRegion

LEMMA CacheInvStep == CacheInv /\ [Next]_vars => CacheInv'
<1> SUFFICES ASSUME CacheInv, [Next]_vars PROVE CacheInv'
  OBVIOUS
<1> USE DEF CacheInv
<1>1. CASE OpenDol
  BY <1>1 DEF OpenDol, GoTo, Fail, binary, CachedRegionIsLive
<1>2. CASE MapSlot
  <2>1. last = NoRegion /\ last' = NoRegion
    BY <1>2 DEF MapSlot
  <2>2. Len(mapped') \in Nat
    BY <1>2 DEF MapSlot
  <2> QED BY <2>1, <2>2 DEF CachedRegionIsLive
<1>3. CASE MapBss
  <2>1. last = NoRegion /\ last' = NoRegion
    BY <1>3 DEF MapBss
  <2>2. Len(mapped') \in Nat
    BY <1>3 DEF MapBss
  <2> QED BY <2>1, <2>2 DEF CachedRegionIsLive
<1>4. CASE CheckEntryPoint
  <2>1. phase' \notin {"open", "dol"}
    BY <1>4 DEF CheckEntryPoint, GoTo, Fail
  <2> QED BY <1>4, <2>1, LookupKeepsCacheLive DEF CheckEntryPoint
<1>5. CASE AppendSection
  <2>1. phase' = "append"
    BY <1>5 DEF AppendSection
  <2>2. CASE sections[at].data = <<>>
    BY <1>5, <2>1, <2>2 DEF AppendSection, AppendMappedSection, CachedRegionIsLive
  <2>3. CASE sections[at].data # <<>>
    BY <1>5, <2>1, <2>3 DEF AppendSection, AppendMappedSection, CachedRegionIsLive,
                            CacheAfterAppend
  <2> QED BY <2>2, <2>3
<1>6. CASE \E a \in Lookups : Lookup(a)
  <2>1. phase' = "read"
    BY <1>6 DEF Lookup
  <2> QED BY <1>6, <2>1, LookupKeepsCacheLive DEF Lookup
<1>7. CASE OpenRel \/ PlaceSection \/ BeginImports \/ EnterImport \/ Relocate \/ GoToSection
           \/ LeaveImport \/ BeginAppend \/ EndRel \/ BeginAnalysis
  <2>1. UNCHANGED <<mapped, last>> /\ phase \notin {"open", "dol"}
    BY <1>7 DEF OpenRel, PlaceSection, BeginImports, EnterImport, Relocate, GoToSection,
                LeaveImport, BeginAppend, EndRel, BeginAnalysis, binary
  <2>2. phase' \notin {"open", "dol"}
    BY <1>7, <2>1 DEF OpenRel, PlaceSection, BeginImports, EnterImport, Relocate, GoToSection,
                LeaveImport, BeginAppend, EndRel, BeginAnalysis, GoTo, Fail
  <2> QED BY <2>1, <2>2 DEF CachedRegionIsLive
<1>8. CASE UNCHANGED vars
  BY <1>8 DEF vars, CachedRegionIsLive
<1> QED
  BY <1>1, <1>2, <1>3, <1>4, <1>5, <1>6, <1>7, <1>8 DEF Next, Load

(* The pointer that findRegion dereferences is never left behind by an     *)
(* append, whatever is loaded and looked up (binary.h's m_lastRegion).     *)
THEOREM CacheIsLive == Spec => []CachedRegionIsLive
<1>1. CacheInv => CachedRegionIsLive
  BY DEF CacheInv
<1> QED BY <1>1, CacheInvInit, CacheInvStep, PTL DEF Spec

-----------------------------------------------------------------------------
(* The binary only ever grows at its end.                                  *)
LEMMA MappedGrows ==
    ASSUME [Next]_vars
    PROVE  mapped' = mapped \/ \E r : mapped' = Append(mapped, r)
<1>1. CASE MapSlot
  BY <1>1 DEF MapSlot
<1>2. CASE MapBss
  BY <1>2 DEF MapBss
<1>3. CASE AppendSection
  BY <1>3 DEF AppendSection, AppendMappedSection
<1>4. CASE OpenDol \/ CheckEntryPoint \/ OpenRel \/ PlaceSection \/ BeginImports
           \/ EnterImport \/ Relocate \/ GoToSection \/ LeaveImport \/ BeginAppend
           \/ EndRel \/ BeginAnalysis
  BY <1>4 DEF OpenDol, CheckEntryPoint, OpenRel, PlaceSection, BeginImports, EnterImport,
              Relocate, GoToSection, LeaveImport, BeginAppend, EndRel, BeginAnalysis, binary
<1>5. CASE \E a \in Lookups : Lookup(a)
  BY <1>5 DEF Lookup
<1>6. CASE UNCHANGED vars
  BY <1>6 DEF vars
<1> QED
  BY <1>1, <1>2, <1>3, <1>4, <1>5, <1>6 DEF Next, Load

LEMMA RegionsStay ==
    ASSUME Len(mapped) \in Nat, [Next]_vars, NEW i \in 1..Len(mapped)
    PROVE  i \in 1..Len(mapped') /\ mapped'[i] = mapped[i]
  BY MappedGrows

LEMMA ReadsStayStep ==
    ASSUME CacheInv, [Next]_vars, NEW a \in Lookups,
           CanRead32(a), Cardinality(Containing(a)') = 1
    PROVE  CanRead32(a)' /\ Read32(a)' = Read32(a)
<1> DEFINE f == FindRegion(a)
<1>1. CacheInv'
  BY CacheInvStep
<1>2. a % 4 = 0 /\ f # 0 /\ Contains(mapped[f], Add(a, 3))
  BY DEF CanRead32
<1>3. f \in Containing(a)
  BY <1>2, FoundRegionHolds DEF CacheInv
<1>4. f \in 1..Len(mapped) /\ Contains(mapped[f], a)
  BY <1>3 DEF Containing
<1>5. f \in 1..Len(mapped') /\ mapped'[f] = mapped[f]
  BY <1>4, RegionsStay DEF CacheInv
<1>6. f \in Containing(a)'
  BY <1>4, <1>5 DEF Containing
<1>7. Containing(a)' = {f}
  <2>1. IsFiniteSet(1..Len(mapped'))
    BY <1>1, FS_Interval DEF CacheInv
  <2>2. IsFiniteSet(Containing(a)')
    BY <2>1, FS_Subset DEF Containing
  <2>3. PICK x : Containing(a)' = {x}
    BY <2>2, FS_Singleton
  <2> QED BY <2>3, <1>6
<1>8. FindRegion(a)' = f
  <2> DEFINE first == CHOOSE i \in {f} : \A j \in {f} : i <= j
  <2>1. f <= f
    BY <1>5, <1>1 DEF CacheInv
  <2>2. first = f
    BY <2>1
  <2>3. FindRegion(a)' = IF last' # NoRegion /\ last'.at \in {f} THEN last'.at
                         ELSE IF {f} = {} THEN 0 ELSE first
    BY <1>7 DEF FindRegion, NoRegion
  <2> QED BY <2>2, <2>3
<1> QED BY <1>2, <1>5, <1>8 DEF CanRead32, Read32

(* What is read at an address that one region alone holds depends on the   *)
(* address alone, not on what was read or loaded in between (findRegion    *)
(* and appendMappedSection).                                               *)
THEOREM ReadsStay == Spec => ReadsAreStable
<1>1. CacheInv /\ [Next]_vars =>
        [\A a \in Lookups :
            CanRead32(a) /\ Cardinality(Containing(a)') = 1
              => CanRead32(a)' /\ Read32(a)' = Read32(a)]_vars
  BY ReadsStayStep
<1> QED BY <1>1, CacheInvInit, CacheInvStep, PTL DEF Spec, ReadsAreStable

-----------------------------------------------------------------------------
(* Words, their digits and what relocations write.                         *)

(* With an even radix, words and half words divide by four.                *)
LEMMA Widths ==
    /\ Modulus \in Nat \ {0} /\ Half \in Nat \ {0} /\ Radix \in Nat \ {0}
    /\ Half % 4 = 0 /\ Modulus % 4 = 0 /\ Modulus % Half = 0
    /\ Modulus = Half * Half /\ Half = Radix * Radix
<1>1. Radix \in Nat \ {0} /\ Radix % 2 = 0
  BY RadixAssumption, EvenRadixAssumption
<1>2. PICK r \in Nat : Radix = 2 * r
  <2>1. Radix = 2 * (Radix \div 2) /\ Radix \div 2 \in Nat
    BY <1>1
  <2> QED BY <2>1
<1>3. Half = 4 * (r * r) /\ Half \in Nat \ {0} /\ r * r \in Nat
  BY <1>1, <1>2 DEF Half
<1>4. Modulus = 4 * (r * r * Half) /\ Modulus \in Nat \ {0} /\ r * r * Half \in Nat
  <2> DEFINE h == Half
             q == r * r
  <2>1. h \in Nat \ {0} /\ q \in Nat /\ h = 4 * q /\ Modulus = h * h
    BY <1>3 DEF Modulus
  <2> HIDE DEF h, q
  <2>2. Modulus = 4 * (q * h) /\ Modulus \in Nat \ {0} /\ q * h \in Nat
    BY <2>1
  <2> QED BY <2>2 DEF h, q
<1>5. \A x \in Nat : (4 * x) % 4 = 0
  OBVIOUS
<1>6. \A x \in Nat \ {0} : (x * x) % x = 0
  <2> SUFFICES ASSUME NEW x \in Nat \ {0} PROVE (x * x) % x = 0
    OBVIOUS
  <2> DEFINE y == (x * x) % x
             z == (x * x) \div x
  <2>1. x * x = x * z + y /\ z \in Int /\ y \in Int /\ 0 <= y /\ y < x
    OBVIOUS
  <2> HIDE DEF y, z
  <2>2. CASE z >= x
    <3>1. x * z >= x * x
      BY <2>1, <2>2
    <3> QED BY <2>1, <3>1 DEF y
  <2>3. CASE z <= x - 1
    <3>1. x * z <= x * (x - 1) /\ x * (x - 1) = x * x - x
      BY <2>1, <2>3
    <3> QED BY <2>1, <3>1
  <2> QED BY <2>1, <2>2, <2>3
<1> QED BY <1>1, <1>3, <1>4, <1>5, <1>6 DEF Half, Modulus

LEMMA WordFacts ==
    /\ 0 \in Word
    /\ \A x \in Int : x % Modulus \in Word
    /\ \A a \in Int, b \in Int : Add(a, b) \in Word /\ Sub(a, b) \in Word
    /\ \A x \in Word : x \in Nat /\ x \in Int
  BY Widths DEF Word, Add, Sub

(* Quotient and remainder.                                                 *)
LEMMA Division ==
    ASSUME NEW x \in Int, NEW c \in Nat \ {0}
    PROVE  /\ x = c * (x \div c) + (x % c)
           /\ x \div c \in Int /\ x % c \in Int /\ 0 <= x % c /\ x % c < c
           /\ x >= 0 => x \div c \in Nat
  OBVIOUS

(* A quotient stays below a bound when the number stays below its multiple.*)
LEMMA QuotientBelow ==
    ASSUME NEW x \in Nat, NEW c \in Nat \ {0}, NEW b \in Nat, x < c * b
    PROVE  x \div c \in 0..(b - 1)
<1> DEFINE q == x \div c
           r == x % c
<1>1. x = c * q + r /\ q \in Nat /\ r \in Nat
  BY Division
<1> HIDE DEF q, r
<1>2. CASE q >= b
  <2>1. c * q >= c * b
    BY <1>1, <1>2
  <2> QED BY <1>1, <2>1
<1>3. CASE q < b
  BY <1>1, <1>3
<1> QED BY <1>1, <1>2, <1>3 DEF q

(* Two digits of any radix.                                                *)
LEMMA TwoDigits ==
    ASSUME NEW R \in Nat \ {0}, NEW x \in 0..(R - 1), NEW y \in 0..(R - 1)
    PROVE  x * R + y \in 0..(R * R - 1)
<1>1. x * R <= (R - 1) * R /\ (R - 1) * R = R * R - R /\ x * R \in Nat /\ R * R \in Nat
  OBVIOUS
<1> QED BY <1>1

(* The word of four digits, and back.                                      *)
LEMMA ValueIsWord ==
    ASSUME NEW b \in Seq(Byte), Len(b) = 4
    PROVE  Value(b) \in Word
<1>1. b[1] \in Byte /\ b[2] \in Byte /\ b[3] \in Byte /\ b[4] \in Byte
  <2>1. 1 \in 1..Len(b) /\ 2 \in 1..Len(b) /\ 3 \in 1..Len(b) /\ 4 \in 1..Len(b)
    OBVIOUS
  <2> QED BY <2>1, ElementOfSeq
<1> DEFINE high == b[1] * Radix + b[2]
           low  == b[3] * Radix + b[4]
<1>2. high \in 0..(Half - 1) /\ low \in 0..(Half - 1)
  <2>1. \A x, y \in Byte : x * Radix + y \in 0..(Radix * Radix - 1)
    BY TwoDigits, Widths DEF Byte
  <2>2. high \in 0..(Radix * Radix - 1) /\ low \in 0..(Radix * Radix - 1)
    BY <1>1, <2>1
  <2> QED BY <2>2, Widths
<1>3. high * Half + b[3] * Radix + b[4] = high * Half + low
  <2> DEFINE h == high * Half
             r == b[3] * Radix
  <2>1. h \in Int /\ r \in Int /\ b[4] \in Int
    <3>1. b[3] \in Int /\ b[4] \in Int /\ Radix \in Int /\ Half \in Int /\ high \in Int
      BY <1>1, <1>2, Widths DEF Byte
    <3> HIDE DEF high
    <3> QED BY <3>1
  <2> HIDE DEF h, r
  <2>2. h + r + b[4] = h + (r + b[4])
    BY <2>1
  <2> QED BY <2>2 DEF h, r
<1> HIDE DEF high, low
<1>4. high * Half + low \in 0..(Half * Half - 1)
  BY <1>2, TwoDigits, Widths
<1>5. Value(b) = high * Half + b[3] * Radix + b[4]
  BY DEF Value, high
<1> QED BY <1>3, <1>4, <1>5, Widths DEF Word

LEMMA EncodeIsBytes ==
    ASSUME NEW v \in Nat, NEW n \in {2, 4}, n = 4 => v \in Word
    PROVE  Encode(v, n) \in Seq(Byte) /\ Len(Encode(v, n)) = n
<1>1. \A x \in Int : x % Radix \in Byte
  BY Widths DEF Byte
<1>2. CASE n = 2
  <2>1. v \div Radix \in Int
    BY Widths
  <2>2. (v \div Radix) % Radix \in Byte /\ v % Radix \in Byte
    BY <1>1, <2>1
  <2> QED BY <1>2, <2>2 DEF Encode
<1>3. CASE n = 4
  <2> DEFINE c == Radix * Half
  <2>1. c \in Nat \ {0} /\ Modulus = c * Radix
    <3> DEFINE h == Half
    <3>1. h \in Nat \ {0} /\ Radix \in Nat \ {0} /\ h = Radix * Radix /\ Modulus = h * h
      BY Widths
    <3> HIDE DEF h
    <3>2. Radix * h \in Nat \ {0} /\ h * h = (Radix * h) * Radix
      BY <3>1
    <3> QED BY <3>1, <3>2 DEF h
  <2>2. v < Modulus
    BY <1>3, Widths DEF Word
  <2> HIDE DEF c
  <2>3. v \div c \in 0..(Radix - 1)
    BY <2>1, <2>2, QuotientBelow, Widths
  <2>4. v \div Half \in Int /\ v \div Radix \in Int
    BY Widths
  <2>5. /\ v \div c \in Byte /\ (v \div Half) % Radix \in Byte
        /\ (v \div Radix) % Radix \in Byte /\ v % Radix \in Byte
    BY <1>1, <2>3, <2>4 DEF Byte
  <2>6. Encode(v, n) = <<v \div c, (v \div Half) % Radix, (v \div Radix) % Radix, v % Radix>>
    BY <1>3 DEF Encode, c
  <2>7. \A x, y, z, w \in Byte :
            <<x, y, z, w>> \in Seq(Byte) /\ Len(<<x, y, z, w>>) = 4
    OBVIOUS
  <2> QED BY <1>3, <2>5, <2>6, <2>7
<1> QED BY <1>2, <1>3

(* A field that ends at a word boundary is replaced inside the word.       *)
LEMMA MergeIsWord ==
    ASSUME NEW word \in Word, NEW value \in Word,
           NEW f \in Nat \ {0}, f % 4 = 0, Modulus % f = 0
    PROVE  Merge(word, value, f) \in Word
<1> DEFINE wr == word % f
           wq == word \div f
           vr == value % f
           vq == value \div f
           m  == Modulus \div f
           f4 == f \div 4
<1>1. word \in Nat /\ value \in Nat /\ word < Modulus /\ Modulus \in Nat
  BY Widths DEF Word
<1>2. /\ word = f * wq + wr /\ wq \in Nat /\ wr \in Nat /\ wr < f
      /\ value = f * vq + vr /\ vq \in Nat /\ vr \in Nat /\ vr < f
      /\ Modulus = f * m /\ m \in Nat
      /\ f = 4 * f4 /\ f4 \in Nat
  BY <1>1, Division
<1>3. value % 4 = vr % 4 /\ vr % 4 \in 0..3 /\ word % 4 \in 0..3
  <2> HIDE DEF vq, vr, f4
  <2>1. f * vq = 4 * (f4 * vq) /\ f4 * vq \in Int
    BY <1>2
  <2> DEFINE k == f4 * vq
  <2>2. value = 4 * k + vr /\ k \in Int
    BY <1>2, <2>1
  <2> HIDE DEF k
  <2> QED BY <1>1, <1>2, <2>2
<1>4. vr - (vr % 4) \in Nat /\ vr - (vr % 4) <= f - 4
  <2> HIDE DEF vr, f4
  <2> QED BY <1>2
<1>5. f * wq \in Nat /\ f * wq + f <= Modulus
  <2> HIDE DEF wq, wr, m
  <2>1. wq < m
    <3>1. CASE wq >= m
      <4>1. f * wq >= f * m
        BY <1>2, <3>1
      <4> QED BY <1>1, <1>2, <4>1
    <3> QED BY <1>2, <3>1
  <2>2. f * wq + f <= f * m
    <3>1. wq + 1 <= m
      BY <1>2, <2>1
    <3>2. f * (wq + 1) <= f * m
      BY <1>2, <3>1
    <3> QED BY <1>2, <3>2
  <2> QED BY <1>2, <2>2
<1>6. word - wr = f * wq
  BY <1>1, <1>2
<1>7. Merge(word, value, f) = (word - wr) + vr - (vr % 4) + (word % 4)
  BY <1>3 DEF Merge
<1> HIDE DEF wr, wq, vr, vq, m, f4
<1>8. (f * wq) + vr - (vr % 4) + (word % 4) \in 0..(Modulus - 1)
  <2> DEFINE x == vr % 4
             y == word % 4
             z == f * wq
  <2>1. x \in 0..3 /\ y \in 0..3 /\ z \in Nat /\ z + f <= Modulus /\ vr - x \in Nat /\ vr - x <= f - 4
        /\ vr \in Nat
    BY <1>2, <1>3, <1>4, <1>5
  <2> HIDE DEF x, y, z
  <2>2. z + vr - x + y \in 0..(Modulus - 1)
    BY <1>1, <2>1
  <2> QED BY <2>2 DEF x, y, z
<1> QED BY <1>6, <1>7, <1>8 DEF Word

(* What applyRelocation writes fits its place.                             *)
LEMMA PatchedFits ==
    ASSUME NEW type, NEW word \in Word, NEW value \in Word, NEW p \in Word
    PROVE  /\ type \in WordTypes => Patched(type, word, value, p) \in Word
           /\ type \in HalfTypes => Patched(type, word, value, p) \in Nat
<1>1. /\ Half \in Nat \ {0} /\ Half % 4 = 0 /\ Modulus % Half = 0
      /\ FieldLI \in Nat \ {0} /\ FieldLI % 4 = 0 /\ Modulus % FieldLI = 0
  BY Widths, FieldAssumption
<1>2. Sub(value, p) \in Word
  BY WordFacts
<1>3. type \in WordTypes => Patched(type, word, value, p) \in
        {value, Merge(word, value, FieldLI), Merge(word, value, Half),
         Merge(word, Sub(value, p), FieldLI), Merge(word, Sub(value, p), Half)}
  BY DEF Patched, WordTypes
<1>4. type \in WordTypes => Patched(type, word, value, p) \in Word
  BY <1>1, <1>2, <1>3, MergeIsWord
<1>5. type \in HalfTypes => Patched(type, word, value, p) \in
        {value % Half, value \div Half,
         (value \div Half + (IF value % Half >= Half \div 2 THEN 1 ELSE 0)) % Half}
  BY DEF Patched, HalfTypes
<1>6. /\ value % Half \in Nat /\ value \div Half \in Nat
      /\ \A x \in Int : x % Half \in Nat
  <2>1. value \in Nat
    BY WordFacts
  <2>2. value \div Half \in Nat
    BY <1>1, <2>1, Division
  <2>3. \A x \in Int : x % Half \in Nat
    BY <1>1
  <2> QED BY <2>1, <2>2, <2>3
<1>7. value \div Half + (IF value % Half >= Half \div 2 THEN 1 ELSE 0) \in Int
  BY <1>6
<1> QED BY <1>4, <1>5, <1>6, <1>7

-----------------------------------------------------------------------------
(* Sequences of bytes.                                                     *)

(* What is cut out of bytes, filled with zeros or written over is bytes.   *)
LEMMA BytesOf ==
    ASSUME NEW d \in Seq(Byte), NEW o \in Nat, NEW n \in Nat, o + n <= Len(d)
    PROVE  Bytes(d, o, n) \in Seq(Byte) /\ Len(Bytes(d, o, n)) = n
BY DEF Bytes

LEMMA ZerosAreBytes ==
    ASSUME NEW n \in Nat
    PROVE  Zeros(n) \in Seq(Byte)
<1>1. 0 \in Byte
  BY Widths DEF Byte
<1>2. Zeros(n) \in [1..n -> Byte]
  BY <1>1 DEF Zeros
<1> QED BY <1>2

LEMMA OverwriteIsBytes ==
    ASSUME NEW d \in Seq(Byte), NEW new \in Seq(Byte), NEW o \in Int
    PROVE  Overwrite(d, o, new) \in Seq(Byte)
<1>1. \A k \in 1..Len(d) : (IF k - o \in 1..Len(new) THEN new[k - o] ELSE d[k]) \in Byte
  OBVIOUS
<1>2. Overwrite(d, o, new) \in [1..Len(d) -> Byte] /\ Len(d) \in Nat
  BY <1>1 DEF Overwrite
<1> QED BY <1>2

(* alignUp masks a u32.                                                    *)
LEMMA AlignUpIsWord ==
    ASSUME NEW v \in Word, NEW align \in Word
    PROVE  AlignUp(v, align) \in Word
<1>1. CASE align <= 1
  BY <1>1 DEF AlignUp
<1>2. CASE ~(align <= 1)
  <2> DEFINE w == Add(v, align - 1)
  <2>1. w \in Word /\ align \in Nat \ {0} /\ v \in Nat
    <3>1. align \in Nat /\ v \in Nat
      BY WordFacts
    <3> QED BY <1>2, <3>1, WordFacts
  <2>2. w \in Nat /\ w % align \in Nat /\ w - (w % align) \in Nat
    <3>1. w \in Nat
      BY <2>1, WordFacts
    <3> HIDE DEF w
    <3>2. /\ w = align * (w \div align) + (w % align) /\ w \div align \in Nat
          /\ w % align \in Int /\ 0 <= w % align
      BY <2>1, <3>1, Division
    <3>3. align * (w \div align) \in Nat
      BY <2>1, <3>2
    <3> QED BY <3>1, <3>2, <3>3
  <2> HIDE DEF w
  <2>3. w - (w % align) \in Word
    BY <2>1, <2>2, Widths DEF Word
  <2>4. AlignUp(v, align) = w - (w % align)
    BY <1>2 DEF AlignUp, w
  <2> QED BY <2>3, <2>4
<1> QED BY <1>1, <1>2

(* A region and its fields.                                                *)
LEMMA RegionParts ==
    ASSUME NEW r \in Region
    PROVE  /\ r.start \in Word /\ r.start \in Int
           /\ r.data \in Seq(Byte) /\ Len(r.data) \in Nat
<1>1. r.start \in Word /\ r.data \in Seq(Byte)
  BY DEF Region, Byte
<1>2. \A d \in Seq(Byte) : Len(d) \in Nat
  OBVIOUS
<1>3. r.start \in Int
  BY <1>1, WordFacts
<1> QED BY <1>1, <1>2, <1>3

LEMMA BssAlignIsWord ==
    ASSUME NEW file \in RelFile
    PROVE  BssAlign(file) \in Word
<1>1. file.bssAlign \in Word
  BY DEF RelFile
<1>2. Radix >= 2 /\ Radix \in Nat
  BY RadixAssumption
<1>3. Half >= 2 /\ Half \in Nat
  BY <1>2 DEF Half
<1>4. Modulus >= 2 /\ Modulus \in Nat
  BY <1>3 DEF Modulus
<1> QED BY <1>1, <1>4 DEF BssAlign, Word

LEMMA WithData ==
    ASSUME NEW r \in Region, NEW d \in Seq(Byte)
    PROVE  [r EXCEPT !.data = d] \in Region
BY DEF Region, Byte

-----------------------------------------------------------------------------
(* The place of a relocation lies inside one section.                      *)
LEMMA SiteIsInside ==
    ASSUME sections \in Seq(Region), NEW a \in Word, NEW n \in Nat, Site(a, n) # 0
    PROVE  /\ Site(a, n) \in 1..Len(sections)
           /\ a - sections[Site(a, n)].start \in Nat
           /\ a - sections[Site(a, n)].start + n <= Len(sections[Site(a, n)].data)
<1> DEFINE i == CHOOSE i \in Holding(a) : \A j \in Holding(a) : i <= j
<1>1. Holding(a) # {} /\ Holding(a) \in SUBSET Nat
  <2>1. Len(sections) \in Nat
    OBVIOUS
  <2> QED BY <2>1 DEF Site, Holding
<1>2. \E k \in Holding(a) : \A j \in Holding(a) : k <= j
  BY <1>1, LeastExists
<1>3. i \in Holding(a)
  BY <1>2
<1>4. Site(a, n) = i /\ a - sections[i].start + n <= Len(sections[i].data)
  BY <1>1 DEF Site
<1> HIDE DEF i
<1>5. i \in 1..Len(sections) /\ a >= sections[i].start
  BY <1>3 DEF Holding, Contains
<1>6. sections[i].start \in Int /\ a \in Int
  <2>1. sections[i] \in Region
    BY <1>5
  <2> QED BY <2>1, WordFacts, RegionParts
<1> QED BY <1>4, <1>5, <1>6

(* A relocation leaves regions with bytes, applied or skipped.             *)
LEMMA ApplyKeepsSections ==
    ASSUME sections \in Seq(Region), NEW e \in Entry, NEW p \in Word, NEW target \in Word,
           ApplyRelocation(e, p, target)
    PROVE  sections' \in Seq(Region)
<1> DEFINE n    == IF e.type \in HalfTypes THEN 2 ELSE 4
           i    == Site(p, n)
           o    == p - sections[i].start
           word == Value(Bytes(sections[i].data, o, n))
           new  == Encode(Patched(e.type, word, Add(target, e.addend), p), n)
<1>1. CASE ~(e.type \in WordTypes \cup HalfTypes /\ i # 0)
  BY <1>1 DEF ApplyRelocation
<1>2. CASE e.type \in WordTypes \cup HalfTypes /\ i # 0
  <2>1. /\ i \in 1..Len(sections) /\ o \in Nat /\ o + n <= Len(sections[i].data)
        /\ n \in {2, 4} /\ n \in Nat
    BY <1>2, SiteIsInside
  <2>2. sections[i] \in Region /\ sections[i].data \in Seq(Byte)
    <3>1. sections[i] \in Region
      BY <2>1
    <3> HIDE DEF i
    <3> QED BY <3>1, RegionParts
  <2>3. /\ Bytes(sections[i].data, o, n) \in Seq(Byte)
        /\ Len(Bytes(sections[i].data, o, n)) = n
    BY <2>1, <2>2, BytesOf
  <2>4. Add(target, e.addend) \in Word
    <3>1. e.addend \in Word
      BY DEF Entry
    <3> QED BY <3>1, WordFacts
  <2>5. new \in Seq(Byte)
    <3>1. CASE e.type \in HalfTypes
      <4>1. e.type \notin WordTypes /\ n = 2
        BY <3>1 DEF WordTypes, HalfTypes
      <4>2. Patched(e.type, word, Add(target, e.addend), p)
              = Patched(e.type, 0, Add(target, e.addend), p)
        BY <3>1 DEF Patched, HalfTypes
      <4>3. Patched(e.type, word, Add(target, e.addend), p) \in Nat
        BY <2>4, <3>1, <4>2, PatchedFits, WordFacts
      <4> HIDE DEF word, n
      <4> QED BY <4>1, <4>3, EncodeIsBytes
    <3>2. CASE e.type \in WordTypes /\ e.type \notin HalfTypes
      <4>1. n = 4
        BY <3>2
      <4>2. word \in Word
        BY <2>3, <4>1, ValueIsWord
      <4>3. Patched(e.type, word, Add(target, e.addend), p) \in Word
        BY <2>4, <3>2, <4>2, PatchedFits
      <4> HIDE DEF word, n
      <4> QED BY <4>1, <4>3, EncodeIsBytes, WordFacts
    <3> QED BY <1>2, <3>1, <3>2
  <2>6. sections' = [sections EXCEPT ![i].data = Overwrite(@, o, new)]
    BY <1>2 DEF ApplyRelocation
  <2> HIDE DEF new, o, i
  <2>7. Overwrite(sections[i].data, o, new) \in Seq(Byte)
    <3>1. o \in Int
      BY <2>1
    <3> QED BY <2>2, <2>5, <3>1, OverwriteIsBytes
  <2>8. [sections[i] EXCEPT !.data = Overwrite(sections[i].data, o, new)] \in Region
    BY <2>2, <2>7, WithData
  <2>9. sections' = [sections EXCEPT ![i] =
                        [sections[i] EXCEPT !.data = Overwrite(sections[i].data, o, new)]]
    BY <2>6
  <2>10. \A r \in Region : [sections EXCEPT ![i] = r] \in Seq(Region)
    BY <2>1
  <2> QED BY <2>8, <2>9, <2>10
<1> QED BY <1>1, <1>2

-----------------------------------------------------------------------------
(* What the loaders go over is there: the loops' counters are in step with *)
(* the phases, and every region has a start and bytes.                     *)
LoadInv ==
    /\ input \in Inputs
    /\ mapped \in Seq(Region) /\ sections \in Seq(Region)
    /\ phase \in Phases
    /\ rel \in 0..Len(input.rels) /\ at \in Nat /\ imp \in Nat
    /\ base \in Word /\ bssCursor \in Word /\ patch \in Word
    /\ phase \in {"dol", "place", "list", "append"} => at >= 1
    /\ phase \in {"place", "import", "list", "append"} => rel >= 1
    /\ phase \in {"import", "list"} => imp >= 1
    /\ phase = "list" => imp <= Len(File.imports)

(* The fields of the headers are u32.                                      *)
LEMMA FieldTypes ==
    /\ \A s \in SlotInfo : /\ s.offset \in Nat /\ s.size \in Nat /\ s.offset \in Int /\ s.size \in Int
                          /\ s.address \in Word /\ s.isText \in BOOLEAN
    /\ \A s \in SectionInfo : /\ s.offset \in Nat /\ s.size \in Nat
                             /\ s.offset \in Int /\ s.size \in Int /\ s.isText \in BOOLEAN
    /\ \A e \in Entry : e.delta \in Int /\ e.section \in Int /\ e.addend \in Int
<1>1. /\ \A s \in SlotInfo : /\ s.offset \in Word /\ s.size \in Word
                            /\ s.address \in Word /\ s.isText \in BOOLEAN
      /\ \A s \in SectionInfo : s.offset \in Word /\ s.size \in Word /\ s.isText \in BOOLEAN
      /\ \A e \in Entry : e.delta \in Word /\ e.section \in Nat /\ e.addend \in Word
  BY DEF SlotInfo, SectionInfo, Entry
<1>2. \A n \in Nat : n \in Int
  OBVIOUS
<1> QED BY <1>1, <1>2, WordFacts

LEMMA InputIsTyped ==
    ASSUME input \in Inputs
    PROVE  /\ Dol \in DolFile
           /\ \A i \in 1..Len(input.rels) :
                 /\ input.rels[i].file \in RelFile
                 /\ input.rels[i].textBase \in Word
           /\ Len(input.rels) \in Nat
<1>1. input \in [dol : DolFile, rels : Seq(RelSpec)]
  BY InputsAssumption
<1>2. Dol \in DolFile /\ input.rels \in Seq(RelSpec)
  BY <1>1 DEF Dol
<1>3. \A i \in 1..Len(input.rels) : input.rels[i] \in RelSpec
  BY <1>2
<1>4. \A x \in RelSpec : x.file \in RelFile /\ x.textBase \in Word
  BY DEF RelSpec
<1>5. \A q \in Seq(RelSpec) : Len(q) \in Nat
  OBVIOUS
<1> QED BY <1>2, <1>3, <1>4, <1>5

LEMMA LoadInit == Init => LoadInv
<1>1. Init => input.rels \in Seq(RelSpec)
  BY InputsAssumption DEF Init
<1>2. Init => Len(input.rels) \in Nat
  BY <1>1
<1> QED BY <1>2, WordFacts DEF Init, LoadInv, Phases

LEMMA MapSlotKeeps == LoadInv /\ MapSlot => LoadInv'
<1> SUFFICES ASSUME LoadInv, MapSlot PROVE LoadInv'
  OBVIOUS
<1> DEFINE s == Dol.slots[at]
           r == [start |-> s.address, isText |-> s.isText, data |-> Bytes(Dol.bytes, s.offset, s.size)]
<1>1. /\ input \in Inputs /\ at \in 1..Len(Dol.slots) /\ phase = "dol"
      /\ Dol.slots \in Seq(SlotInfo)
      /\ Dol.bytes \in Seq(Byte)
  <2>1. Dol \in DolFile /\ at \in Nat /\ at >= 1
    BY InputIsTyped DEF LoadInv, MapSlot
  <2>2. /\ Dol.slots \in Seq(SlotInfo)
        /\ Dol.bytes \in Seq(Byte)
    BY <2>1 DEF DolFile
  <2>3. at <= Len(Dol.slots) /\ Len(Dol.slots) \in Nat
    BY <2>2 DEF MapSlot
  <2> QED BY <2>1, <2>2, <2>3 DEF LoadInv, MapSlot
<1>2. s \in SlotInfo
  BY <1>1
<1>3. s.offset + s.size < Modulus
  BY <1>1, SlotsEndInAddressSpace DEF Dol
<1>4. UNCHANGED <<last, input, rel, module, imp, patch>>
  BY DEF MapSlot
<1>7. s.offset \in Nat /\ s.size \in Nat
  BY <1>2, FieldTypes
<1>8. /\ Add(s.offset, s.size) \in Int /\ Len(Dol.bytes) \in Int
      /\ (s.size > 0 => Add(s.offset, s.size) <= Len(Dol.bytes))
            <=> ~(s.size > 0 /\ Add(s.offset, s.size) > Len(Dol.bytes))
  <2> DEFINE x == Add(s.offset, s.size)
             y == Len(Dol.bytes)
             z == s.size
  <2>1. x \in Int /\ y \in Int /\ z \in Nat
    BY <1>1, <1>7, Widths DEF Add
  <2> HIDE DEF x, y, z
  <2>2. (z > 0 => x <= y) <=> ~(z > 0 /\ x > y)
    BY <2>1
  <2> QED BY <2>1, <2>2 DEF x, y, z
<1>5. CASE s.size > 0 /\ Add(s.offset, s.size) > Len(Dol.bytes)
  <2>1. phase' = "failed" /\ UNCHANGED <<at, mapped>>
    BY <1>8, <1>5 DEF MapSlot, Fail
  <2> HIDE DEF s
  <2> QED BY <1>1, <1>4, <2>1 DEF LoadInv, module, Phases
<1>6. CASE s.size > 0 => Add(s.offset, s.size) <= Len(Dol.bytes)
  <2>1. mapped' \in Seq(Region)
    <3>1. CASE s.size = 0
      BY <1>6, <3>1 DEF MapSlot, LoadInv
    <3>2. CASE s.size # 0
      <4>1. s.offset \in Nat /\ s.size \in Nat /\ s.size > 0
        <5>1. s.offset \in Nat /\ s.size \in Nat
          BY <1>2, FieldTypes
        <5> HIDE DEF s
        <5> QED BY <3>2, <5>1
      <4>2. Add(s.offset, s.size) = s.offset + s.size
        BY <1>3, <4>1, Widths DEF Add
      <4>3. Bytes(Dol.bytes, s.offset, s.size) \in Seq(Byte)
        BY <1>1, <1>6, <4>1, <4>2, BytesOf
      <4>4. r \in Region
        <5>1. s.address \in Word /\ s.isText \in BOOLEAN
          BY <1>2, FieldTypes
        <5> HIDE DEF s
        <5> QED BY <4>3, <5>1 DEF Region, Byte
      <4>5. mapped' = Append(mapped, r)
        <5>1. ~(s.size > 0 /\ Add(s.offset, s.size) > Len(Dol.bytes))
          BY <1>6, <1>8
        <5> QED BY <3>2, <5>1 DEF MapSlot
      <4> HIDE DEF r
      <4> QED BY <4>4, <4>5 DEF LoadInv
    <3> QED BY <3>1, <3>2
  <2>2. at' = at + 1 /\ phase' = phase
    BY <1>6, <1>8 DEF MapSlot
  <2> HIDE DEF s
  <2> QED BY <1>1, <1>4, <2>1, <2>2 DEF LoadInv, module, File
<1> QED BY <1>5, <1>6, <1>8

LEMMA MapBssKeeps == LoadInv /\ MapBss => LoadInv'
<1> SUFFICES ASSUME LoadInv, MapBss PROVE LoadInv'
  OBVIOUS
<1> DEFINE r == [start |-> Dol.bss.address, isText |-> FALSE, data |-> Zeros(Dol.bss.size)]
<1>1. Dol.bss \in [address : Word, size : Word]
  BY InputIsTyped DEF LoadInv, DolFile
<1>2. Zeros(Dol.bss.size) \in Seq(Byte)
  BY <1>1, WordFacts, ZerosAreBytes
<1>3. r \in Region
  BY <1>1, <1>2 DEF Region, Byte
<1>4. mapped' = mapped \/ mapped' = Append(mapped, r)
  BY DEF MapBss
<1> HIDE DEF r
<1>5. mapped' \in Seq(Region)
  BY <1>3, <1>4 DEF LoadInv
<1>6. /\ at' = at + 1 /\ UNCHANGED <<last, input, phase, rel, module, imp, patch>>
      /\ phase = "dol"
  BY DEF MapBss
<1> QED BY <1>5, <1>6 DEF LoadInv, module, File

LEMMA OpenRelKeeps == LoadInv /\ OpenRel => LoadInv'
<1> SUFFICES ASSUME LoadInv, OpenRel PROVE LoadInv'
  OBVIOUS
<1> DEFINE spec == input.rels[rel + 1]
           b    == IF spec.file.valid THEN ModuleBase(spec.file, spec.textBase) ELSE 0
<1>1. rel + 1 \in 1..Len(input.rels) /\ rel \in Nat /\ Len(input.rels) \in Nat
  BY InputIsTyped DEF LoadInv, OpenRel
<1>2. spec.file \in RelFile /\ spec.textBase \in Word
  BY <1>1, InputIsTyped DEF LoadInv
<1>3. ASSUME NEW file \in RelFile, NEW t \in Word
      PROVE  ModuleBase(file, t) \in Word
  <2> DEFINE code == {i \in 1..Len(file.sections) :
                         file.sections[i].isText /\ file.sections[i].size # 0}
             first == CHOOSE i \in code : \A j \in code : i <= j
  <2>1. file.sections \in Seq(SectionInfo)
    BY <1>3 DEF RelFile
  <2>2. CASE code = {}
    BY <2>2, WordFacts DEF ModuleBase
  <2>3. CASE code # {}
    <3>1. code \in SUBSET Nat
      BY <2>1
    <3>2. \E i \in code : \A j \in code : i <= j
      <4> HIDE DEF code
      <4> QED BY <2>3, <3>1, LeastExists
    <3>3. first \in code
      BY <3>2
    <3>4. file.sections[first] \in SectionInfo
      <4>1. first \in 1..Len(file.sections)
        BY <3>3
      <4> HIDE DEF first
      <4> QED BY <2>1, <4>1
    <3>5. file.sections[first].offset \in Int /\ t \in Int
      BY <3>4, FieldTypes, WordFacts
    <3>6. ModuleBase(file, t) = Sub(t, file.sections[first].offset)
      BY <2>3 DEF ModuleBase
    <3> QED BY <3>5, <3>6, WordFacts
  <2> QED BY <2>2, <2>3
<1>4. b \in Word
  BY <1>2, <1>3, WordFacts
<1>5. BssAlign(spec.file) \in Word /\ Len(spec.file.bytes) \in Nat
  <2>1. spec.file.bssAlign \in Word /\ spec.file.bytes \in Seq(Byte)
    BY <1>2 DEF RelFile
  <2> QED BY <1>2, <2>1, BssAlignIsWord
<1>6. AlignUp(Add(b, Len(spec.file.bytes)), BssAlign(spec.file)) \in Word
  <2>1. Add(b, Len(spec.file.bytes)) \in Word
    <3>1. b \in Int
      BY <1>4, WordFacts
    <3>2. Len(spec.file.bytes) \in Int
      BY <1>5
    <3> HIDE DEF b, spec
    <3> QED BY <3>1, <3>2, WordFacts
  <2> HIDE DEF b
  <2> QED BY <1>5, <2>1, AlignUpIsWord
<1>7. base' \in Word /\ bssCursor' \in Word
  BY <1>4, <1>6 DEF OpenRel
<1>8. /\ sections' = <<>> /\ rel' = rel + 1 /\ mapped' = mapped /\ input' = input
      /\ imp' = imp /\ patch' = patch
      /\ \/ phase' = "place" /\ at' = 1
         \/ phase' = "failed" /\ at' = at
  BY DEF OpenRel, binary, GoTo, Fail
<1> HIDE DEF b
<1> QED BY <1>1, <1>7, <1>8 DEF LoadInv, Phases

LEMMA PlaceSectionKeeps == LoadInv /\ PlaceSection => LoadInv'
<1> SUFFICES ASSUME LoadInv, PlaceSection PROVE LoadInv'
  OBVIOUS
<1> DEFINE s       == File.sections[at]
           address == IF InFile(s) THEN Add(base, s.offset)
                      ELSE IF s.size = 0 THEN 0
                      ELSE AlignUp(bssCursor, BssAlign(File))
           data    == IF InFile(s) THEN Bytes(File.bytes, s.offset, s.size)
                      ELSE Zeros(s.size)
           r       == [start |-> address, isText |-> s.isText, data |-> data]
<1>1. rel \in 1..Len(input.rels) /\ phase = "place"
  BY InputIsTyped DEF LoadInv, PlaceSection
<1>2. File \in RelFile
  BY <1>1, InputIsTyped DEF LoadInv, File
<1>3. /\ File.bytes \in Seq(Byte) /\ File.bssAlign \in Word
      /\ File.sections \in Seq(SectionInfo)
  BY <1>2 DEF RelFile
<1>4. at \in 1..Len(File.sections)
  BY <1>1, <1>3 DEF LoadInv, PlaceSection
<1>5. s \in SectionInfo
  BY <1>3, <1>4
<1>6. /\ s.offset \in Nat /\ s.size \in Nat /\ s.offset \in Int /\ s.size \in Int
      /\ base \in Int /\ s.isText \in BOOLEAN
  BY <1>5, FieldTypes, WordFacts DEF LoadInv
<1>7. CASE InFile(s) /\ ~CheckedRange(File, s.offset, s.size)
  <2>1. phase' = "failed" /\ at' = at /\ UNCHANGED <<sections, bssCursor>>
    BY <1>7 DEF PlaceSection, Fail
  <2>2. UNCHANGED <<binary, input, rel, base, imp, patch>>
    BY DEF PlaceSection
  <2> HIDE DEF s
  <2> QED BY <2>1, <2>2 DEF LoadInv, Phases, binary
<1>8. CASE InFile(s) => CheckedRange(File, s.offset, s.size)
  <2>1. address \in Word
    <3>1. Add(base, s.offset) \in Word /\ 0 \in Word
      BY <1>6, WordFacts
    <3>2. BssAlign(File) \in Word
      BY <1>2, BssAlignIsWord
    <3>3. AlignUp(bssCursor, BssAlign(File)) \in Word
      BY <3>2, AlignUpIsWord DEF LoadInv
    <3> QED BY <3>1, <3>3
  <2>2. data \in Seq(Byte)
    <3>1. CASE InFile(s)
      <4>1. s.offset + s.size <= Len(File.bytes)
        BY <1>8, <3>1 DEF CheckedRange
      <4>2. Bytes(File.bytes, s.offset, s.size) \in Seq(Byte)
        BY <1>3, <1>6, <4>1, BytesOf
      <4> QED BY <3>1, <4>2
    <3>2. CASE ~InFile(s)
      BY <1>6, <3>2, ZerosAreBytes
    <3> QED BY <3>1, <3>2
  <2>3. sections' = Append(sections, r) /\ at' = at + 1 /\ phase' = phase
    BY <1>8 DEF PlaceSection
  <2>4. bssCursor' = bssCursor \/ bssCursor' = Add(address, s.size)
    BY <1>8 DEF PlaceSection
  <2> HIDE DEF address, data
  <2>5. r \in Region
    BY <1>6, <2>1, <2>2 DEF Region, Byte
  <2>6. Add(address, s.size) \in Word
    BY <1>6, <2>1, WordFacts
  <2> HIDE DEF r, s
  <2>7. sections' \in Seq(Region)
    BY <2>3, <2>5 DEF LoadInv
  <2>8. bssCursor' \in Word
    BY <2>4, <2>6 DEF LoadInv
  <2>9. UNCHANGED <<binary, input, rel, base, imp, patch>>
    BY DEF PlaceSection
  <2> QED BY <1>1, <2>3, <2>7, <2>8, <2>9 DEF LoadInv, binary
<1> QED BY <1>7, <1>8 DEF PlaceSection

LEMMA ListFacts ==
    ASSUME LoadInv, phase = "list"
    PROVE  Entries \in Seq(Entry) /\ at \in Nat /\ at >= 1 /\ File \in RelFile
<1>1. rel \in 1..Len(input.rels) /\ at \in Nat /\ at >= 1
  BY InputIsTyped DEF LoadInv
<1>2. File \in RelFile
  BY <1>1, InputIsTyped DEF LoadInv, File
<1>3. File.imports \in Seq(ImportInfo)
  BY <1>2 DEF RelFile
<1>4. imp \in 1..Len(File.imports)
  BY <1>3 DEF LoadInv
<1>5. File.imports[imp] \in ImportInfo
  BY <1>3, <1>4
<1>6. \A x \in ImportInfo : x.list \in Seq(Entry)
  BY DEF ImportInfo
<1> QED BY <1>1, <1>2, <1>5, <1>6 DEF Entries

LEMMA SectionAddressIsWord ==
    ASSUME sections \in Seq(Region), NEW n \in Int
    PROVE  SectionAddress(n) \in Word
<1>1. CASE Present(n + 1)
  <2>1. n + 1 \in 1..Len(sections)
    BY <1>1 DEF Present
  <2>2. sections[n + 1] \in Region
    BY <2>1
  <2> QED BY <1>1, <2>2, RegionParts DEF SectionAddress
<1>2. CASE ~Present(n + 1)
  BY <1>2, WordFacts DEF SectionAddress
<1> QED BY <1>1, <1>2

LEMMA RelocateKeeps == LoadInv /\ Relocate => LoadInv'
<1> SUFFICES ASSUME LoadInv, Relocate PROVE LoadInv'
  OBVIOUS
<1> DEFINE e == Entries[at]
           p == Add(patch, e.delta)
           target == IF File.imports[imp].id = 0 THEN 0 ELSE SectionAddress(e.section)
<1>1. phase = "list" /\ Entries \in Seq(Entry) /\ at \in 1..Len(Entries)
  BY ListFacts DEF Relocate
<1>2. e \in Entry
  BY <1>1
<1>3. e.delta \in Int /\ e.section \in Int
  BY <1>2, FieldTypes
<1>4. p \in Word
  BY <1>3, WordFacts DEF LoadInv
<1>5. target \in Word
  BY <1>3, SectionAddressIsWord, WordFacts DEF LoadInv
<1>6. patch' = p /\ (sections' = sections \/ ApplyRelocation(e, p, target))
  BY DEF Relocate, ApplyRelocation
<1> HIDE DEF e, p, target
<1>7. sections' \in Seq(Region)
  BY <1>2, <1>4, <1>5, <1>6, ApplyKeepsSections DEF LoadInv
<1>8. at' = at + 1 /\ UNCHANGED <<binary, input, phase, rel, base, bssCursor, imp>>
  BY DEF Relocate
<1> QED BY <1>1, <1>4, <1>6, <1>7, <1>8 DEF LoadInv, binary, File

LEMMA GoToSectionKeeps == LoadInv /\ GoToSection => LoadInv'
<1> SUFFICES ASSUME LoadInv, GoToSection PROVE LoadInv'
  OBVIOUS
<1>1. phase = "list" /\ Entries \in Seq(Entry) /\ at \in 1..Len(Entries)
  BY ListFacts DEF GoToSection
<1>2. Entries[at] \in Entry
  BY <1>1
<1>3. Entries[at].section \in Int
  BY <1>2 DEF Entry
<1>4. patch' \in Word
  BY <1>3, SectionAddressIsWord DEF GoToSection, LoadInv
<1>5. /\ UNCHANGED <<binary, input, rel, module, imp>>
      /\ \/ phase' = "failed" /\ at' = at
         \/ phase' = phase /\ at' = at + 1
  BY DEF GoToSection, Fail
<1> QED BY <1>1, <1>4, <1>5 DEF LoadInv, binary, module, File, Phases

LEMMA AppendSectionKeeps == LoadInv /\ AppendSection => LoadInv'
<1> SUFFICES ASSUME LoadInv, AppendSection PROVE LoadInv'
  OBVIOUS
<1>1. phase = "append" /\ at \in 1..Len(sections)
  BY DEF LoadInv, AppendSection
<1>2. sections[at] \in Region
  BY <1>1 DEF LoadInv
<1>3. mapped' = mapped \/ mapped' = Append(mapped, sections[at])
  BY DEF AppendSection, AppendMappedSection
<1>4. mapped' \in Seq(Region)
  BY <1>2, <1>3 DEF LoadInv
<1>5. at' = at + 1 /\ UNCHANGED <<input, phase, rel, module, imp, patch>>
  BY DEF AppendSection
<1> QED BY <1>1, <1>4, <1>5 DEF LoadInv, module, File

LEMMA EnterImportKeeps == LoadInv /\ EnterImport => LoadInv'
<1> SUFFICES ASSUME LoadInv, EnterImport PROVE LoadInv'
  OBVIOUS
<1>1. /\ phase = "import" /\ imp <= Len(File.imports)
      /\ \/ phase' = "list" /\ at' = 1
         \/ phase' = "failed" /\ at' = at
      /\ patch' = 0
      /\ UNCHANGED <<binary, input, rel, module, imp>>
  BY DEF EnterImport, GoTo, Fail
<1>2. 0 \in Word /\ 1 \in Nat
  BY WordFacts
<1>3. CASE phase' = "list" /\ at' = 1
  BY <1>1, <1>2, <1>3 DEF LoadInv, binary, module, File, Phases
<1>4. CASE phase' = "failed" /\ at' = at
  BY <1>1, <1>2, <1>4 DEF LoadInv, binary, module, Phases
<1> QED BY <1>1, <1>3, <1>4

(* One lemma for each step that changes more than the phase; the others    *)
(* here.                                                                   *)
LEMMA LoadStep == LoadInv /\ [Next]_vars => LoadInv'
<1> SUFFICES ASSUME LoadInv, [Next]_vars PROVE LoadInv'
  OBVIOUS
<1>1. CASE OpenDol
  BY <1>1 DEF OpenDol, GoTo, Fail, binary, module, LoadInv, Phases, File
<1>2. CASE CheckEntryPoint
  BY <1>2 DEF CheckEntryPoint, GoTo, Fail, module, LoadInv, Phases, File
<1>3. CASE BeginImports
  BY <1>3 DEF BeginImports, GoTo, binary, module, LoadInv, Phases, File
<1>4. CASE LeaveImport
  BY <1>4 DEF LeaveImport, GoTo, binary, module, LoadInv, Phases, File
<1>5. CASE BeginAppend
  BY <1>5 DEF BeginAppend, GoTo, binary, module, LoadInv, Phases, File
<1>6. CASE EndRel \/ BeginAnalysis
  BY <1>6 DEF EndRel, BeginAnalysis, GoTo, binary, module, LoadInv, Phases, File
<1>7. CASE \E a \in Lookups : Lookup(a)
  BY <1>7 DEF Lookup, module, LoadInv, File
<1>8. CASE UNCHANGED vars
  BY <1>8 DEF vars, LoadInv, File
<1> QED
  BY <1>1, <1>2, <1>3, <1>4, <1>5, <1>6, <1>7, <1>8, MapSlotKeeps, MapBssKeeps, OpenRelKeeps,
     PlaceSectionKeeps, RelocateKeeps, GoToSectionKeeps, AppendSectionKeeps, EnterImportKeeps
  DEF Next, Load

LEMMA LoadHolds == Spec => []LoadInv
  BY LoadInit, LoadStep, PTL DEF Spec

(* Whatever the files say, loading ends within the types it began with:    *)
(* every region and section starts at a u32 and holds bytes, also after    *)
(* relocations wrote into them (loadRelModuleIntoBinary, applyRelocation). *)
THEOREM LoaderTypeCorrect == Spec => []TypeOK
<1>1. LoadInv => TypeOK
  <2> SUFFICES ASSUME LoadInv PROVE TypeOK
    OBVIOUS
  <2>1. ASSUME NEW q \in Seq(Region), NEW i \in 1..Len(q)
        PROVE  q[i].start \in Word /\ \A k \in 1..Len(q[i].data) : q[i].data[k] \in 0..(Radix - 1)
    <3>1. q[i] \in Region
      BY <2>1
    <3>2. q[i].start \in Word /\ q[i].data \in Seq(Byte)
      BY <3>1, RegionParts
    <3>3. \A d \in Seq(Byte) : \A k \in 1..Len(d) : d[k] \in Byte
      OBVIOUS
    <3> QED BY <3>2, <3>3 DEF Byte
  <2> QED BY <2>1 DEF LoadInv, TypeOK
<1> QED BY <1>1, LoadHolds, PTL

(* The last byte of an executable word is in the region that answers for   *)
(* the first, whatever was loaded and looked up before: the analyzer and   *)
(* the disassembler test isExecutable, and then read32 succeeds.           *)
THEOREM ExecutableWordsRead == Spec => []ExecutableWordsAreReadable
<1>1. LoadInv => ExecutableWordsAreReadable
  <2> SUFFICES ASSUME LoadInv, NEW a \in WordAddresses, IsExecutable(a),
                      \A i \in Containing(a) : WordAligned(mapped[i])
               PROVE  CanRead32(a)
    BY DEF ExecutableWordsAreReadable
  <2> DEFINE f == FindRegion(a)
             start == mapped[f].start
             n     == Len(mapped[f].data)
             end   == (start + n) % Modulus
  <2>1. Len(mapped) \in Nat
    BY DEF LoadInv
  <2>2. f \in Containing(a)
    BY <2>1, FoundRegionHolds DEF IsExecutable
  <2>3. f \in 1..Len(mapped) /\ Contains(mapped[f], a) /\ WordAligned(mapped[f])
    BY <2>2 DEF Containing
  <2>4. start \in Nat /\ n \in Nat /\ a \in Nat /\ a < Modulus /\ a % 4 = 0
    <3>1. mapped[f] \in Region
      BY <2>3 DEF LoadInv
    <3>2. a \in Word /\ a % 4 = 0
      BY DEF WordAddresses
    <3>3. mapped[f].start \in Nat /\ n \in Nat
      BY <3>1, RegionParts, WordFacts
    <3>4. a \in Nat /\ a < Modulus
      BY <3>2, Widths DEF Word
    <3> QED BY <3>2, <3>3, <3>4
  <2>5. start <= a /\ a < end /\ start % 4 = 0 /\ n % 4 = 0
    BY <2>3 DEF Contains, Add, WordAligned
  <2>6. end \in Nat /\ end < Modulus /\ end % 4 = 0
    <3> HIDE DEF start, n
    <3>1. end \in Nat /\ end < Modulus
      BY <2>4, Widths
    <3>2. (start + n) % 4 = 0
      BY <2>4, <2>5
    <3>3. start + n = Modulus * ((start + n) \div Modulus) + end /\ (start + n) \div Modulus \in Int
      <4>1. start + n \in Int
        BY <2>4
      <4> QED BY <4>1, Division, Widths DEF end
    <3>4. PICK m \in Nat : Modulus = 4 * m
      <4>1. Modulus = 4 * (Modulus \div 4) /\ Modulus \div 4 \in Nat
        BY Widths
      <4> QED BY <4>1
    <3> DEFINE k == (start + n) \div Modulus
    <3>5. Modulus * k = 4 * (m * k) /\ m * k \in Int
      <4> HIDE DEF k
      <4> QED BY <3>3, <3>4 DEF k
    <3> DEFINE j == m * k
    <3>6. start + n = 4 * j + end /\ j \in Int
      BY <3>3, <3>5
    <3> HIDE DEF j, k, end
    <3> QED BY <2>4, <3>1, <3>2, <3>6
  <2> HIDE DEF end, start, n
  <2>7. a + 3 < end /\ Add(a, 3) = a + 3
    <3>1. a + 4 <= end
      BY <2>4, <2>5, <2>6
    <3>2. a + 3 < Modulus /\ a + 3 \in Nat
      BY <2>4, <2>6, <3>1, Widths
    <3> QED BY <2>4, <2>6, <3>1, <3>2, Widths DEF Add
  <2>8. Contains(mapped[f], Add(a, 3))
    BY <2>4, <2>5, <2>6, <2>7 DEF Contains, Add, start, n, end
  <2>9. f # 0
    BY <2>1, <2>3
  <2> QED BY <2>4, <2>8, <2>9 DEF CanRead32
<1> QED BY <1>1, LoadHolds, PTL
=============================================================================
