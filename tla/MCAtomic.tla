------------------------------ MODULE MCAtomic ------------------------------
(* Two writers of one file, in one process or in two.                            *)
EXTENDS AtomicIO, TLC

CONSTANTS i1, i2, i3, i4

InodeSymmetry == Permutations(Inode)

=============================================================================
