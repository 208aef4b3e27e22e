---------------------------- MODULE LinkedImage ----------------------------
(***************************************************************************)
(* What loading promises: file after file, the image grows by exactly what *)
(* the file describes, or loading ends there and the image is as it was.   *)
(* A REL is linked when its sections lie where its text base and its bss   *)
(* alignment put them and every place its relocations name means their     *)
(* target, in the sense the processor gives to that kind of place.         *)
(***************************************************************************)
EXTENDS MachineWords, FiniteSets

CONSTANT FieldLI

Seqs == INSTANCE SequencesExt

VARIABLES
    input,     \* the command line, as in Loader
    mapped,    \* the image
    linked,    \* files linked so far, the DOL being the first
    outcome    \* "loading", "ready", "failed"

vars == <<input, mapped, linked, outcome>>

-----------------------------------------------------------------------------
(* A DOL: one region for each slot in use, and the bss.                    *)

SlotsUsed(dol) == {i \in 1..Len(dol.slots) : dol.slots[i].size > 0}

IsDolImage(dol, regions) ==
    LET place(i) == Cardinality({j \in SlotsUsed(dol) : j <= i})
        files    == Cardinality(SlotsUsed(dol))
        bss      == IF dol.bss.size > 0 THEN 1 ELSE 0
    IN  /\ Len(regions) = files + bss
        /\ \A i \in SlotsUsed(dol) :
              LET s == dol.slots[i]  r == regions[place(i)] IN
              /\ r.start = s.address /\ r.isText = s.isText /\ Len(r.data) = s.size
              /\ \A k \in 1..s.size : r.data[k] = dol.bytes[s.offset + k]
        /\ bss = 1 =>
              LET r == regions[Len(regions)] IN
              /\ r.start = dol.bss.address /\ ~r.isText
              /\ r.data = [k \in 1..dol.bss.size |-> 0]

DolIsSound(dol) ==
    /\ dol.valid
    /\ \A i \in SlotsUsed(dol) : dol.slots[i].offset + dol.slots[i].size <= Len(dol.bytes)
    /\ \/ \E i \in SlotsUsed(dol) :
             dol.entry - dol.slots[i].address \in 0..(dol.slots[i].size - 1)
       \/ dol.entry - dol.bss.address \in 0..(dol.bss.size - 1)

-----------------------------------------------------------------------------
(* A REL                                                                   *)

InFile(s)      == s.offset # 0 \/ s.isText
Indices(file)  == 1..Len(file.sections)
Used(file)     == {i \in Indices(file) : file.sections[i].size > 0}
Code(file)     == {i \in Used(file) : file.sections[i].isText}
FirstCode(file) == CHOOSE i \in Code(file) : \A j \in Code(file) : i <= j

(* The entries of an import's list that count: those before its end mark.  *)
Live(list) == {k \in 1..Len(list) : \A j \in 1..k : list[j].type # "END"}

RelIsSound(spec) ==
    LET file == spec.file IN
    /\ file.valid
    /\ Code(file) # {} /\ spec.textBase # file.sections[FirstCode(file)].offset
    /\ \A i \in Indices(file) : InFile(file.sections[i]) =>
          file.sections[i].offset + file.sections[i].size <= Len(file.bytes)
    /\ \A m \in 1..Len(file.imports) :
          /\ file.imports[m].inFile
          /\ \A k \in Live(file.imports[m].list) :
                LET e == file.imports[m].list[k] IN
                e.type = "SECTION" => e.section + 1 \in Used(file)

(* The region of section i among the regions of the module.                *)
RegionOf(file, new, i) == new[Cardinality({j \in Used(file) : j <= i})]

AreSections(spec, new) ==
    LET file   == spec.file
        region(i) == RegionOf(file, new, i)
        first  == FirstCode(file)
        fileAt == Sub(spec.textBase, file.sections[first].offset)
        align  == IF file.bssAlign = 0 THEN 1 ELSE file.bssAlign
    IN  /\ Len(new) = Cardinality(Used(file))
        /\ \A i \in Used(file) :
              LET s == file.sections[i]  r == region(i) IN
              /\ r.isText = s.isText /\ Len(r.data) = s.size
              /\ InFile(s) => Sub(r.start, spec.textBase)
                                = Sub(s.offset, file.sections[first].offset)
              /\ ~InFile(s) =>
                    /\ r.start % align = 0
                    /\ \A a \in r.start..(r.start + s.size - 1) :
                          /\ Sub(a, fileAt) >= Len(file.bytes)
                          /\ \A j \in Used(file) \ {i} : ~Contains(region(j), a)

(* Where the entries of a list point: the address of the section named     *)
(* last, and the distances since.                                          *)
PlaceOf(file, new, list) ==
    LET place[k \in 0..Len(list)] ==
            IF k = 0 THEN 0
            ELSE IF list[k].type = "SECTION"
                   THEN IF list[k].section + 1 \in Used(file)
                          THEN RegionOf(file, new, list[k].section + 1).start ELSE 0
            ELSE Add(place[k - 1], list[k].delta)
    IN  place

Width(type) == IF type \in {"ADDR16", "ADDR16_LO", "ADDR16_HI", "ADDR16_HA"} THEN 2 ELSE 4

Known == {"ADDR32", "ADDR24", "ADDR14", "REL24", "REL14",
          "ADDR16", "ADDR16_LO", "ADDR16_HI", "ADDR16_HA"}

(* The region that a place belongs to: the first one that holds it.        *)
Holders(regions, a) == {i \in 1..Len(regions) : Contains(regions[i], a)}
HolderOf(regions, a) ==
    CHOOSE i \in Holders(regions, a) : \A j \in Holders(regions, a) : i <= j

(* The relocations that can be carried out, in the order of the file: of a *)
(* known type, in an import of the module itself or of absolute addresses, *)
(* with a target that is there and a place inside one section.             *)
RelocationsOf(file, new, import) ==
    LET list   == import.list
        places == PlaceOf(file, new, list)
        isThere(e) == import.id = 0 \/ e.section + 1 \in Used(file)
        fits(p, n) ==
            /\ Holders(new, p) # {}
            /\ Contains(new[HolderOf(new, p)], Add(p, n - 1))
        can(k) ==
            /\ import.id \in {0, file.id} /\ k \in Live(list)
            /\ list[k].type \in Known /\ isThere(list[k])
            /\ fits(places[k], Width(list[k].type))
        carried == SelectSeq([k \in 1..Len(list) |-> k], can)
        target(e) == Add(IF import.id = 0 THEN 0 ELSE RegionOf(file, new, e.section + 1).start,
                         e.addend)
    IN  [n \in 1..Len(carried) |->
            LET k == carried[n] IN
            [place |-> places[k], type |-> list[k].type, target |-> target(list[k])]]

Relocations(file, new) ==
    Seqs!FlattenSeq([m \in 1..Len(file.imports) |-> RelocationsOf(file, new, file.imports[m])])

Signed(v, m) == IF v < m \div 2 THEN v ELSE v - m

(* A branch word: its displacement field, sign extended, is disp where     *)
(* disp fits (and disp without its upper digits where it does not), and    *)
(* the rest of the word is as it was.                                      *)
Displaces(word, old, field, disp) ==
    LET li   == (word % field) - (word % 4)
        fits == \E d \in -(field \div 2)..(field \div 2 - 1) : d % 4 = 0 /\ d % Modulus = disp
    IN  /\ word \div field = old \div field /\ word % 4 = old % 4
        /\ IF fits THEN Signed(li, field) % Modulus = disp
                   ELSE (disp - li) % field \in 0..3

(* What the processor makes of the word or half word v at a place that     *)
(* held old: the target.  A high half goes with the target's low half,     *)
(* which addi and the displacements of loads sign extend (HA) and ori does *)
(* not (HI).                                                               *)
Means(q, v, old) ==
    CASE q.type = "ADDR32" -> v = q.target
      [] q.type = "ADDR24" -> Displaces(v, old, FieldLI, q.target)
      [] q.type = "ADDR14" -> Displaces(v, old, Half, q.target)
      [] q.type = "REL24"  -> Displaces(v, old, FieldLI, Sub(q.target, q.place))
      [] q.type = "REL14"  -> Displaces(v, old, Half, Sub(q.target, q.place))
      [] q.type \in {"ADDR16", "ADDR16_LO"} -> (v - q.target) % Half = 0
      [] q.type = "ADDR16_HI" -> v * Half + (q.target % Half) = q.target
      [] q.type = "ADDR16_HA" ->
            (v * Half + Signed(q.target % Half, Half)) % Modulus = q.target

(* A relocation changes its own bytes, so that they mean the target.       *)
Link(regions, q) ==
    LET i == HolderOf(regions, q.place)
        o == q.place - regions[i].start
        n == Width(q.type)
        old == Value(Bytes(regions[i].data, o, n))
        value == CHOOSE v \in 0..(Radix^n - 1) : Means(q, v, old)
        digit(k) == (value \div Radix^(n - k)) % Radix
    IN  [regions EXCEPT ![i].data =
            [k \in DOMAIN @ |-> IF k - o \in 1..n THEN digit(k - o) ELSE @[k]]]

(* The bytes of the file, then one relocation after the other: where some  *)
(* overlap, each finds what those before it left, and the last one counts. *)
Unlinked(file, new) ==
    [r \in 1..Len(new) |->
        LET i == CHOOSE i \in Used(file) : Cardinality({j \in Used(file) : j <= i}) = r
            s == file.sections[i]
        IN  [new[r] EXCEPT !.data = IF InFile(s) THEN Bytes(file.bytes, s.offset, s.size)
                                    ELSE [k \in 1..s.size |-> 0]]]

IsPatched(file, new) ==
    new = Seqs!FoldLeft(Link, Unlinked(file, new), Relocations(file, new))

-----------------------------------------------------------------------------
Init ==
    /\ mapped = <<>> /\ linked = 0 /\ outcome = "loading"

LinkDol ==
    /\ outcome = "loading" /\ linked = 0
    /\ linked' = 1 /\ UNCHANGED <<input, outcome>>
    /\ DolIsSound(input.dol)
    /\ IsDolImage(input.dol, mapped')

(* main gives up on a DOL half mapped.                                     *)
RejectDol ==
    /\ outcome = "loading" /\ linked = 0
    /\ outcome' = "failed" /\ UNCHANGED <<input, linked>>
    /\ ~DolIsSound(input.dol)

LinkRel ==
    /\ outcome = "loading" /\ linked \in 1..Len(input.rels)
    /\ linked' = linked + 1 /\ UNCHANGED <<input, outcome>>
    /\ RelIsSound(input.rels[linked])
    /\ SubSeq(mapped', 1, Len(mapped)) = mapped
    /\ LET new == SubSeq(mapped', Len(mapped) + 1, Len(mapped'))
       IN  AreSections(input.rels[linked], new) /\ IsPatched(input.rels[linked].file, new)

RejectRel ==
    /\ outcome = "loading" /\ linked \in 1..Len(input.rels)
    /\ outcome' = "failed" /\ UNCHANGED <<input, mapped, linked>>
    /\ ~RelIsSound(input.rels[linked])

Finish ==
    /\ outcome = "loading" /\ linked = Len(input.rels) + 1
    /\ outcome' = "ready" /\ UNCHANGED <<input, mapped, linked>>

Next == LinkDol \/ RejectDol \/ LinkRel \/ RejectRel \/ Finish

(* Loading is a program of its own: it goes on until it is ready or fails. *)
Spec == Init /\ [][Next]_vars /\ <>(outcome # "loading")
=============================================================================
