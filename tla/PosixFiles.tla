------------------------------- MODULE PosixFiles -------------------------------
(***************************************************************************)
(* The host's file operations as host/src/file_io.cpp uses them: what read *)
(* and write do to the contents of a file, with contents as sequences of   *)
(* bytes, and maps as functions whose domain is the set of their keys.     *)
(***************************************************************************)
EXTENDS Integers, Sequences

(* write: the bytes replace or extend the contents, a gap reads as zeros. *)
Larger(a, b) == IF a >= b THEN a ELSE b
Overlay(contents, offset, data) ==
    [i \in 1..Larger(Len(contents), offset + Len(data)) |->
        IF i \in (offset + 1)..(offset + Len(data)) THEN data[i - offset]
        ELSE IF i <= Len(contents) THEN contents[i] ELSE 0]

(* read: at most count bytes, none at or after the end of the file. *)
Smaller(a, b) == IF a <= b THEN a ELSE b
Slice(contents, offset, count) ==
    SubSeq(contents, offset + 1, Smaller(offset + count, Len(contents)))

(* The blocks of at most n bytes. *)
Blocks(Byte, n) == UNION {[1..k -> Byte] : k \in 0..n}

(* emplace and erase on a map. *)
With(f, x, y) == [z \in DOMAIN f \cup {x} |-> IF z = x THEN y ELSE f[z]]
Without(f, x) == [z \in DOMAIN f \ {x} |-> f[z]]
=============================================================================
