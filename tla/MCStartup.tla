------------------------------- MODULE MCStartup -------------------------------
(* Two paths have the same name, "a"; no name that begins with a digit is     *)
(* valid.                                                                     *)
EXTENDS Startup

MCFileName == [w \in Words |-> IF w \in {"a", "d/a"} THEN "a" ELSE w]
=============================================================================
