----------------------------- MODULE MCSharedBuffer -----------------------------
(* Instances of SharedBuffer for TLC.  Readers are interchangeable.        *)
EXTENDS SharedBuffer, TLC

ReaderSymmetry == Permutations(Readers)
=============================================================================
