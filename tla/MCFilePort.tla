------------------------------ MODULE MCFilePort ------------------------------
(* FilePort on a memory of 40 bytes: addresses at 0, at the last place of a  *)
(* request and of a name, at the end, behind it, and where a sum wraps.      *)
EXTENDS FilePort

MCCounts == {-1, 0, 4, 24}
MCResults == {-1, 0, 1}
=============================================================================
