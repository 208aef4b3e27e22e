------------------------------- MODULE Loader -------------------------------
(***************************************************************************)
(* Loading a program: the DOL, then each REL module that main names, then  *)
(* the reads of the analysis.  One action is one iteration of the loaders' *)
(* loops.  A DOL maps its sections as it goes; of a REL nothing reaches    *)
(* the binary before all its relocations were applied.                     *)
(*                                                                         *)
(* A file is its parsed header beside its bytes:                           *)
(*   DOL  [valid, slots, bss, entry, bytes]: the section slots, text       *)
(*        first, as [offset, address, size, isText], bss [address, size];  *)
(*   REL  [valid, id, bssAlign, sections, imports, bytes]: sections as     *)
(*        [offset, isText, size] and imports as [id, inFile, list], where  *)
(*        list holds the entries up to the end of the file and inFile      *)
(*        says whether there is room for a first one.                      *)
(* "valid" is false when the file is missing or unreadable, when parsing   *)
(* its header fails, or when main cannot parse the text base given to it.  *)
(***************************************************************************)
EXTENDS Binary, FiniteSets

CONSTANTS
    Inputs,     \* command lines: [dol |-> a DOL, rels |-> seq of [file, textBase]]
    FieldLI,    \* the words that a branch's LI field tells apart, 2^26 in the code
    Lookups     \* the addresses the analysis may ask for

ASSUME FieldAssumption ==
    FieldLI \in 4..Modulus /\ FieldLI % 4 = 0 /\ Modulus % FieldLI = 0

(* A word has four bytes of an even radix, so addresses wrap at a word.    *)
ASSUME EvenRadixAssumption == Radix % 2 = 0

(* What the header structs and read_be32 make of a file's bytes.           *)
Byte == 0..(Radix - 1)

SlotInfo == [offset : Word, address : Word, size : Word, isText : BOOLEAN]

DolFile ==
    [valid : BOOLEAN, slots : Seq(SlotInfo), bss : [address : Word, size : Word],
     entry : Word, bytes : Seq(Byte)]

SectionInfo == [offset : Word, isText : BOOLEAN, size : Word]

Entry == [delta : Word, type : STRING, section : Nat, addend : Word]

ImportInfo == [id : Nat, inFile : BOOLEAN, list : Seq(Entry)]

RelFile ==
    [valid : BOOLEAN, id : Nat, bssAlign : Word, bytes : Seq(Byte),
     sections : Seq(SectionInfo), imports : Seq(ImportInfo)]

RelSpec == [file : RelFile, textBase : Word]

ASSUME InputsAssumption == Inputs \subseteq [dol : DolFile, rels : Seq(RelSpec)]

(* alignUp masks, which rounds up only to powers of two.                   *)
ASSUME AlignAssumption ==
    \A in \in Inputs : \A i \in 1..Len(in.rels) :
        in.rels[i].file.bssAlign \in {0} \cup {2^k : k \in 0..30}

ASSUME LookupsAssumption == Lookups \subseteq WordAddresses

(* Slots whose u32 end wraps around pass the DOL's bounds check and read   *)
(* outside the file; there is nothing to say about what follows.           *)
ASSUME SlotsEndInAddressSpace ==
    \A in \in Inputs : \A i \in 1..Len(in.dol.slots) :
        in.dol.slots[i].offset + in.dol.slots[i].size < Modulus

VARIABLES
    input,      \* the command line
    phase,      \* "open", "dol", "next", "place", "import", "list", "append", "read", "failed"
    rel,        \* the REL taken up last
    at,         \* counter of the loop the phase is in
    base,       \* moduleBase
    sections,   \* the sections placed so far
    bssCursor,
    imp,        \* the import whose list is read
    patch       \* patchAddress

vars == <<mapped, last, input, phase, rel, at, base, sections, bssCursor, imp, patch>>

module == <<base, sections, bssCursor>>
binary == <<mapped, last>>

Dol     == input.dol
File    == input.rels[rel].file
Entries == File.imports[imp].list

Phases == {"open", "dol", "next", "place", "import", "list", "append", "read", "failed"}

Init ==
    /\ mapped = <<>> /\ last = NoRegion
    /\ input \in Inputs
    /\ phase = "open" /\ rel = 0 /\ at = 0
    /\ base = 0 /\ sections = <<>> /\ bssCursor = 0
    /\ imp = 0 /\ patch = 0

GoTo(p) == phase' = p /\ at' = 1

Fail == phase' = "failed" /\ UNCHANGED at

-----------------------------------------------------------------------------
(* DolBinary::load                                                         *)

OpenDol ==
    /\ phase = "open"
    /\ IF Dol.valid THEN GoTo("dol") ELSE Fail
    /\ UNCHANGED <<binary, input, rel, module, imp, patch>>

MapSlot ==
    /\ phase = "dol" /\ at <= Len(Dol.slots)
    /\ LET s == Dol.slots[at] IN
       \/ /\ s.size > 0 => Add(s.offset, s.size) <= Len(Dol.bytes)
          /\ mapped' = IF s.size = 0 THEN mapped
                       ELSE Append(mapped, [start |-> s.address, isText |-> s.isText,
                                            data |-> Bytes(Dol.bytes, s.offset, s.size)])
          /\ at' = at + 1 /\ UNCHANGED phase
       \/ /\ s.size > 0 /\ Add(s.offset, s.size) > Len(Dol.bytes)
          /\ Fail /\ UNCHANGED mapped
    /\ UNCHANGED <<last, input, rel, module, imp, patch>>

Zeros(n) == [i \in 1..n |-> 0]

MapBss ==
    /\ phase = "dol" /\ at = Len(Dol.slots) + 1
    /\ mapped' = IF Dol.bss.size = 0 THEN mapped
                 ELSE Append(mapped, [start |-> Dol.bss.address, isText |-> FALSE,
                                      data |-> Zeros(Dol.bss.size)])
    /\ at' = at + 1
    /\ UNCHANGED <<last, input, phase, rel, module, imp, patch>>

(* An entry point outside the text sections only draws a warning.          *)
CheckEntryPoint ==
    /\ phase = "dol" /\ at = Len(Dol.slots) + 2
    /\ last' = CacheAfter(Dol.entry)
    /\ IF IsValidAddress(Dol.entry) THEN GoTo("next") ELSE Fail
    /\ UNCHANGED <<mapped, input, rel, module, imp, patch>>

-----------------------------------------------------------------------------
(* loadRelModuleIntoBinary                                                 *)

AlignUp(value, align) ==
    IF align <= 1 THEN value
    ELSE LET v == Add(value, align - 1) IN v - (v % align)

BssAlign(file) == IF file.bssAlign = 0 THEN 1 ELSE file.bssAlign

CheckedRange(file, offset, size) == offset + size <= Len(file.bytes)

(* moduleBase such that the first code section starts at the text base;    *)
(* 0 when there is none.                                                   *)
ModuleBase(file, textBase) ==
    LET code == {i \in 1..Len(file.sections) :
                    file.sections[i].isText /\ file.sections[i].size # 0}
        first == CHOOSE i \in code : \A j \in code : i <= j
    IN  IF code = {} THEN 0 ELSE Sub(textBase, file.sections[first].offset)

OpenRel ==
    /\ phase = "next" /\ rel < Len(input.rels)
    /\ LET spec == input.rels[rel + 1]
           b    == IF spec.file.valid THEN ModuleBase(spec.file, spec.textBase) ELSE 0
       IN  /\ base' = b
           /\ IF b = 0 THEN Fail ELSE GoTo("place")
           /\ bssCursor' = AlignUp(Add(b, Len(spec.file.bytes)), BssAlign(spec.file))
    /\ rel' = rel + 1 /\ sections' = <<>>
    /\ UNCHANGED <<binary, input, imp, patch>>

InFile(s) == s.offset # 0 \/ s.isText

(* A section without file bytes is bss, behind what bss was placed before; *)
(* an empty one is never present.                                          *)
PlaceSection ==
    /\ phase = "place" /\ at <= Len(File.sections)
    /\ LET s       == File.sections[at]
           address == IF InFile(s) THEN Add(base, s.offset)
                      ELSE IF s.size = 0 THEN 0
                      ELSE AlignUp(bssCursor, BssAlign(File))
           data    == IF InFile(s) THEN Bytes(File.bytes, s.offset, s.size)
                      ELSE Zeros(s.size)
       IN  \/ /\ InFile(s) /\ ~CheckedRange(File, s.offset, s.size)
              /\ Fail /\ UNCHANGED <<sections, bssCursor>>
           \/ /\ InFile(s) => CheckedRange(File, s.offset, s.size)
              /\ sections' = Append(sections,
                     [start |-> address, isText |-> s.isText, data |-> data])
              /\ bssCursor' = IF InFile(s) \/ s.size = 0 THEN bssCursor
                              ELSE Add(address, s.size)
              /\ at' = at + 1 /\ UNCHANGED phase
    /\ UNCHANGED <<binary, input, rel, base, imp, patch>>

BeginImports ==
    /\ phase = "place" /\ at > Len(File.sections)
    /\ GoTo("import") /\ imp' = 1
    /\ UNCHANGED <<binary, input, rel, module, patch>>

EnterImport ==
    /\ phase = "import" /\ imp <= Len(File.imports)
    /\ IF File.imports[imp].inFile THEN GoTo("list") ELSE Fail
    /\ patch' = 0
    /\ UNCHANGED <<binary, input, rel, module, imp>>

Present(i) == i \in 1..Len(sections) /\ sections[i].data # <<>>

(* Section indices count from 0; 0 for a section that is not present.      *)
SectionAddress(index) == IF Present(index + 1) THEN sections[index + 1].start ELSE 0

Holding(a) == {i \in 1..Len(sections) : Present(i) /\ Contains(sections[i], a)}

(* addressToSectionOffset and the check that n bytes are left behind a:    *)
(* the first section that holds a, 0 if that has not as many.              *)
Site(a, n) ==
    LET i == CHOOSE i \in Holding(a) : \A j \in Holding(a) : i <= j
    IN  IF Holding(a) = {} THEN 0
        ELSE IF a - sections[i].start + n <= Len(sections[i].data) THEN i ELSE 0

(* The digits of a word or a half word, first the most significant one.    *)
Encode(v, n) ==
    IF n = 2 THEN <<(v \div Radix) % Radix, v % Radix>>
    ELSE <<v \div (Radix * Half), (v \div Half) % Radix, (v \div Radix) % Radix, v % Radix>>

WordTypes == {"ADDR32", "ADDR24", "ADDR14", "REL24", "REL14"}
HalfTypes == {"ADDR16", "ADDR16_LO", "ADDR16_HI", "ADDR16_HA"}

(* (word & ~mask) | (value & mask), for the mask of the bits below field   *)
(* but the two lowest.                                                     *)
Merge(word, value, field) ==
    (word - (word % field)) + (value % field) - (value % 4) + (word % 4)

BadPatched(type, word, value, p) ==
    CASE type = "ADDR32" -> value
      [] type = "ADDR24" -> Merge(word, value, FieldLI)
      [] type = "ADDR14" -> Merge(word, value, Half)
      [] type = "REL24"  -> Merge(word, Sub(value, p), FieldLI)
      [] type = "REL14"  -> Merge(word, Sub(value, p), Half)
      [] type \in {"ADDR16", "ADDR16_LO"} -> value % Half
      [] type \in {"ADDR16_HI", "ADDR16_HA"} -> value \div Half

(* What applyRelocation writes for the target value at p over word.        *)
Patched(type, word, value, p) ==
    CASE type = "ADDR32" -> value
      [] type = "ADDR24" -> Merge(word, value, FieldLI)
      [] type = "ADDR14" -> Merge(word, value, Half)
      [] type = "REL24"  -> Merge(word, Sub(value, p), FieldLI)
      [] type = "REL14"  -> Merge(word, Sub(value, p), Half)
      [] type \in {"ADDR16", "ADDR16_LO"} -> value % Half
      [] type = "ADDR16_HI" -> value \div Half
      [] type = "ADDR16_HA" ->
            (value \div Half + (IF value % Half >= Half \div 2 THEN 1 ELSE 0)) % Half

Overwrite(data, o, new) ==
    [k \in 1..Len(data) |-> IF k - o \in 1..Len(new) THEN new[k - o] ELSE data[k]]

(* applyRelocation: a relocation of an unknown type, or one whose place is *)
(* not inside one section, changes nothing; it is counted as skipped.      *)
ApplyRelocation(e, p, target) ==
    LET n    == IF e.type \in HalfTypes THEN 2 ELSE 4
        i    == Site(p, n)
        o    == p - sections[i].start
        word == Value(Bytes(sections[i].data, o, n))
    IN  IF e.type \in WordTypes \cup HalfTypes /\ i # 0
          THEN sections' = [sections EXCEPT ![i].data =
                   Overwrite(@, o, Encode(Patched(e.type, word, Add(target, e.addend), p), n))]
          ELSE UNCHANGED sections

(* Imports of other modules are skipped, but their section entries count.  *)
Supported == File.imports[imp].id \in {0, File.id}

IsTarget(e) == File.imports[imp].id = 0 \/ SectionAddress(e.section) # 0

Relocate ==
    /\ phase = "list" /\ at <= Len(Entries) /\ Entries[at].type \notin {"SECTION", "END"}
    /\ LET e == Entries[at]
           p == Add(patch, e.delta)
           target == IF File.imports[imp].id = 0 THEN 0 ELSE SectionAddress(e.section)
       IN  /\ patch' = p
           /\ IF Supported /\ IsTarget(e) THEN ApplyRelocation(e, p, target)
              ELSE UNCHANGED sections
    /\ at' = at + 1
    /\ UNCHANGED <<binary, input, phase, rel, base, bssCursor, imp>>

GoToSection ==
    /\ phase = "list" /\ at <= Len(Entries) /\ Entries[at].type = "SECTION"
    /\ patch' = SectionAddress(Entries[at].section)
    /\ IF patch' = 0 THEN Fail ELSE at' = at + 1 /\ UNCHANGED phase
    /\ UNCHANGED <<binary, input, rel, module, imp>>

LeaveImport ==
    /\ phase = "list" /\ (at <= Len(Entries) => Entries[at].type = "END")
    /\ GoTo("import") /\ imp' = imp + 1
    /\ UNCHANGED <<binary, input, rel, module, patch>>

BeginAppend ==
    /\ phase = "import" /\ imp > Len(File.imports)
    /\ GoTo("append")
    /\ UNCHANGED <<binary, input, rel, module, imp, patch>>

AppendSection ==
    /\ phase = "append" /\ at <= Len(sections)
    /\ AppendMappedSection(sections[at])
    /\ at' = at + 1
    /\ UNCHANGED <<input, phase, rel, module, imp, patch>>

EndRel ==
    /\ phase = "append" /\ at > Len(sections)
    /\ GoTo("next")
    /\ UNCHANGED <<binary, input, rel, module, imp, patch>>

-----------------------------------------------------------------------------
(* main goes on to the analysis, which reads in an order of its own.       *)

BeginAnalysis ==
    /\ phase = "next" /\ rel = Len(input.rels)
    /\ GoTo("read")
    /\ UNCHANGED <<binary, input, rel, module, imp, patch>>

Lookup(a) ==
    /\ phase = "read"
    /\ last' = CacheAfter(a)
    /\ UNCHANGED <<mapped, input, phase, rel, at, module, imp, patch>>

Load ==
    \/ OpenDol \/ MapSlot \/ MapBss \/ CheckEntryPoint
    \/ OpenRel \/ PlaceSection \/ BeginImports \/ EnterImport
    \/ Relocate \/ GoToSection \/ LeaveImport \/ BeginAppend \/ AppendSection \/ EndRel
    \/ BeginAnalysis

Next == Load \/ \E a \in Lookups : Lookup(a)

Spec == Init /\ [][Next]_vars

FairSpec == Spec /\ WF_vars(Load)

-----------------------------------------------------------------------------
TypeOK ==
    /\ \A i \in 1..Len(mapped) :
          mapped[i].start \in Word /\ \A k \in 1..Len(mapped[i].data) :
              mapped[i].data[k] \in 0..(Radix - 1)
    /\ phase \in Phases
    /\ rel \in 0..Len(input.rels)
    /\ {base, bssCursor, patch} \subseteq Word
    /\ \A i \in 1..Len(sections) :
          sections[i].start \in Word /\ \A k \in 1..Len(sections[i].data) :
              sections[i].data[k] \in 0..(Radix - 1)

(* What a word reads as changes with nothing that is read before it, nor   *)
(* with a module loaded behind it, as long as one region alone holds it    *)
(* (findRegion's cache, and appendMappedSection).                          *)
ReadsAreStable ==
    [][\A a \in Lookups :
          CanRead32(a) /\ Cardinality(Containing(a)') = 1
            => CanRead32(a)' /\ Read32(a)' = Read32(a)]_vars

(* What the rest of the program can have seen: a module only as a whole.   *)
Visible ==
    IF phase \in {"open", "dol"} THEN <<>>
    ELSE IF phase # "append" THEN mapped
    ELSE SubSeq(mapped, 1, Len(mapped) - Cardinality({i \in 1..(at - 1) : Present(i)}))

Linked == INSTANCE LinkedImage WITH
    mapped  <- Visible,
    linked  <- IF phase \in {"next", "read"} THEN rel + 1 ELSE rel,
    outcome <- IF phase = "failed" THEN "failed"
               ELSE IF phase = "read" THEN "ready" ELSE "loading"

(* Loading links each file as a whole, with every relocation meaning its   *)
(* target, or fails there and leaves the image as it was; and it ends      *)
(* (dol.cpp, rel.cpp and main's loop over the RELs).                       *)
LinksImages == Linked!Spec
=============================================================================
