------------------------------ MODULE MCLoader ------------------------------
(***************************************************************************)
(* Small files in radix 4: 256 addresses, half words of 16 values.         *)
(***************************************************************************)
EXTENDS Loader

Pattern(n) == [k \in 1..n |-> (k * k + k \div 3) % 4]

Slot(o, a, n, t) == [offset |-> o, address |-> a, size |-> n, isText |-> t]

(* One code and one data section and a bss, which in real DOLs lies over   *)
(* the data sections or behind them.                                       *)
DolWith(slots, bss, entry) ==
    [valid |-> TRUE, slots |-> slots, bss |-> bss, entry |-> entry, bytes |-> Pattern(16)]

Plain == <<Slot(4, 8, 4, TRUE), Slot(0, 0, 0, TRUE), Slot(8, 12, 8, FALSE)>>

BssAt(a, n) == [address |-> a, size |-> n]

GoodDol == DolWith(Plain, BssAt(20, 4), 8)

Dols ==
    {DolWith(<<Slot(4, 8, 4, TRUE), Slot(8, a, n, t), Slot(12, b, 4, FALSE)>>, bss, e) :
        a \in {12, 10, 252}, n \in {0, 4, 8, 12}, t \in BOOLEAN, b \in {20, 12},
        bss \in {BssAt(12, 8), BssAt(24, 4), BssAt(0, 0)}, e \in {8, 28}}
    \cup {[GoodDol EXCEPT !.valid = FALSE]}

(* A module of 20 bytes whose code starts at its text base: section 0 is   *)
(* empty as always, 1 is code, 2 data, 3 and 4 bss.                        *)
Section(o, t, n) == [offset |-> o, isText |-> t, size |-> n]

Sections == <<Section(0, FALSE, 0), Section(4, TRUE, 8), Section(12, FALSE, 6),
              Section(0, FALSE, 3), Section(0, FALSE, 4)>>

Rel(ss, imports) ==
    [valid |-> TRUE, id |-> 1, bssAlign |-> 4, sections |-> ss, imports |-> imports,
     bytes |-> Pattern(18)]

Import(id, list) == [id |-> id, inFile |-> TRUE, list |-> list]

E(delta, type, section, addend) ==
    [delta |-> delta, type |-> type, section |-> section, addend |-> addend]

In(s)  == E(0, "SECTION", s, 0)
End    == E(0, "END", 0, 0)

Types == WordTypes \cup HalfTypes \cup {"NOP", "OTHER"}

TextBase == 68
Module(imports) == [file |-> Rel(Sections, imports), textBase |-> TextBase]

(* Each type at each place, against each target; absolute addresses, and   *)
(* what names another module.                                              *)
Single ==
    {Module(<<Import(1, <<In(s), E(d, t, g, a), End>>)>>) :
        s \in {1, 2}, d \in {0, 2, 6}, t \in Types, g \in {0, 1, 3}, a \in {7, 244}}
    \cup {Module(<<Import(id, <<In(1), E(4, t, 1, a), End>>)>>) :
        id \in {0, 2}, t \in Types, a \in {0, 7, 100, 244}}

(* Two relocations, in one list or in two, with and without an end mark.   *)
Double ==
    {Module(imports) :
        imports \in UNION {
            {<<Import(1, <<In(s), E(0, t, 1, 5), E(d, u, 2, 8), End, E(0, t, 2, 0)>>)>>,
             <<Import(1, <<E(2, "NOP", 0, 0), In(s), E(d, t, 4, 20)>>),
               Import(0, <<In(2), E(0, u, 0, 77)>>)>>,
             <<Import(2, <<In(s), E(0, t, 1, 0), End>>), Import(1, <<In(s), E(d, u, 1, 0)>>)>>} :
            s \in {1, 3}, d \in {0, 2}, t \in Types, u \in {"REL24", "ADDR16_HA"}}}

(* Files that must be rejected, early or after relocations were applied.   *)
Broken ==
    {Module(<<Import(1, <<In(1), E(0, "ADDR32", 2, 0), In(s), End>>)>>) : s \in {0, 7}}
    \cup {Module(<<Import(1, <<In(2), E(0, "ADDR32", 2, 0), End>>),
                   [id |-> 2, inFile |-> FALSE, list |-> <<>>]>>)}
    \cup {[file |-> Rel(ss, <<>>), textBase |-> b] :
             ss \in {<<Section(0, FALSE, 0)>>, <<Section(4, TRUE, 0), Section(12, FALSE, 7)>>,
                     <<Section(4, TRUE, 4), Section(20, FALSE, 0)>>,
                     <<Section(4, TRUE, 16)>>, <<Section(0, TRUE, 4), Section(0, FALSE, 4)>>},
             b \in {4, TextBase}}
    \cup {[file |-> [Rel(Sections, <<>>) EXCEPT !.valid = FALSE], textBase |-> TextBase]}

(* A second module behind the first, over it, or broken.                   *)
Plainly == Module(<<Import(1, <<In(1), E(4, "REL24", 1, 0), End>>)>>)

Seconds == {[Plainly EXCEPT !.textBase = b] : b \in {TextBase, TextBase + 4, 100}} \cup Broken

(* An address of each region, of each overlap, and one outside.            *)
SomeAddresses == {8, 12, 72, 88}

LoaderInputs ==
    {[dol |-> d, rels |-> <<>>] : d \in Dols}
    \cup {[dol |-> GoodDol, rels |-> <<r>>] : r \in Single \cup Double \cup Broken}
    \cup {[dol |-> GoodDol, rels |-> <<Plainly, r>>] : r \in Seconds}
=============================================================================
