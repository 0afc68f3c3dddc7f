----------------------------- MODULE MCBESCache3 -----------------------------
(* Small instances of BESCache3 for TLC. *)
EXTENDS BESCache3, TLC

CONSTANTS l1, l2, l3, f1, f2, f3, c1, c2, i1, i2, i3, i4

\* One container per file, named by the file.
OneContainerPerFile == [f \in Files |-> f]

\* Two containers of one file and one of another.
TwoOfOne == [c \in Containers |-> IF c = f2 THEN f2 ELSE f1]

\* f1 is larger than the others.
Sizes == [f \in Files |-> IF f = f1 THEN 2 ELSE 1]

UnitSizes == [f \in Files |-> 1]

Symmetry == Permutations(Listeners) \cup Permutations(Inodes)

\* One listener can do what the others cannot.
InodeSymmetry == Permutations(Inodes)

\* A process that dies in every purge it starts leaves the recorded size to
\* grow without end.
InfoSizeBound == infoSize <= 2
=============================================================================
