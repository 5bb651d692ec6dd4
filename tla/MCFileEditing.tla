---------------------------- MODULE MCFileEditing ----------------------------
(***************************************************************************)
(* Instances of FileEditing for TLC.                                       *)
(***************************************************************************)
EXTENDS FileEditing, TLC

CONSTANTS u1, u2, w1, w2, f1, f2, d1

\* One file at the root of the drive; two files; and one of two in a folder.
AtRoot == f1 :> Root
BothAtRoot == f1 :> Root @@ f2 :> Root
OneInFolder == f1 :> Root @@ f2 :> d1

\* Two users, or two workers, are interchangeable.
Symmetry1 == Permutations({u1, u2})

Symmetry2 == Permutations({u1, u2}) \cup Permutations({w1, w2})

=============================================================================
