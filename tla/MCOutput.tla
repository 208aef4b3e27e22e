------------------------------ MODULE MCOutput ------------------------------
(***************************************************************************)
(* Two programs, of one and of three functions, over directories with one  *)
(* patched text of each kind.                                              *)
(***************************************************************************)
EXTENDS OutputDir

TwoPrograms == {1, 2}
Sizes == <<1, 3>>

Nothing == [f \in PatchedNames |-> NoText]

With(f, anchors) == [Nothing EXCEPT ![f] = NewText(f, anchors)]

(* Nothing at all, stubs of an earlier tool, or one source of the host     *)
(* library with any of the anchors that the patches look for.              *)
Directories ==
    {Nothing}
    \cup {With("hle_stubs", S) : S \in {{}, {1}, {2}, {1, 2}, {1, 2, 3}, {3, 4}, {1, 2, 3, 4}}}
    \cup {With("shader", S) : S \in {{1, 2, 3, 4, 5}, {1, 2, 3}, {2, 5}}}
    \cup {With("gx", S) : S \in {1..6, {2, 4}}}
    \cup {With("pad", S) : S \in {1..4, {2, 3}, {3, 4}}}
    \cup {With("texture", {1, 2}), With("mtx", {1}), With("internal", {1, 2}),
          With("internal", {2})}
=============================================================================
