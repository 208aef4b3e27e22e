------------------------------- MODULE Binary -------------------------------
(***************************************************************************)
(* What the loaders build and everything else reads: the mapped regions,   *)
(* in the order they were appended, and the cache of the region found      *)
(* last.  Binary::m_regions and m_sections grow together, so one sequence  *)
(* stands for both.                                                        *)
(***************************************************************************)
EXTENDS MachineWords

VARIABLES
    mapped,   \* the regions
    last      \* m_lastRegion: none, or a pointer into the vector of that length

(* Appending may move the vector's elements: a pointer is into the vector  *)
(* as it was, known by its length.                                         *)
NoRegion == [at |-> 0, of |-> 0]
Pointer(i) == [at |-> i, of |-> Len(mapped)]

Containing(a) == {i \in 1..Len(mapped) : Contains(mapped[i], a)}

BadFindRegion(a) ==
    IF last # NoRegion THEN last.at
    ELSE IF Containing(a) = {} THEN 0
    ELSE CHOOSE i \in Containing(a) : \A j \in Containing(a) : i <= j

(* The index of the region that answers for address a, 0 if none does.     *)
FindRegion(a) ==
    LET found == Containing(a)
    IN  IF last # NoRegion /\ last.at \in found THEN last.at
        ELSE IF found = {} THEN 0
        ELSE CHOOSE i \in found : \A j \in found : i <= j

(* A search that fails leaves the cache alone.                             *)
CacheAfter(a) == LET i == FindRegion(a) IN IF i = 0 THEN last ELSE Pointer(i)

IsValidAddress(a) == FindRegion(a) # 0

WordAddresses == {a \in Word : a % 4 = 0}

IsExecutable(a) == \E i \in Containing(a) : mapped[i].isText

CanRead32(a) ==
    /\ a % 4 = 0
    /\ LET i == FindRegion(a) IN i # 0 /\ Contains(mapped[i], Add(a, 3))

Read32(a) ==
    LET r == mapped[FindRegion(a)] IN Value(Bytes(r.data, a - r.start, 4))

BadCacheAfterAppend == last

CacheAfterAppend == NoRegion

(* appendMappedSection *)
AppendMappedSection(r) ==
    IF r.data = <<>>
      THEN UNCHANGED <<mapped, last>>
      ELSE mapped' = Append(mapped, r) /\ last' = CacheAfterAppend

-----------------------------------------------------------------------------
(* The cached pointer is null or points into the vector as it is: no       *)
(* append left it behind (appendMappedSection resets it; a DOL is mapped   *)
(* before anything was looked up).                                         *)
CachedRegionIsLive ==
    \/ last = NoRegion
    \/ last.of = Len(mapped) /\ last.at \in 1..Len(mapped)

(* Every word-aligned address the text predicate accepts can be read: the  *)
(* analyzer and the disassembler test isExecutable and then read32, which  *)
(* may be answered by another region than the one the predicate saw.  All  *)
(* that is asked of the files is that sections begin and end at words.     *)
WordAligned(r) == r.start % 4 = 0 /\ Len(r.data) % 4 = 0

ExecutableWordsAreReadable ==
    \A a \in WordAddresses :
        /\ IsExecutable(a)
        /\ \A i \in Containing(a) : WordAligned(mapped[i])
        => CanRead32(a)
=============================================================================
