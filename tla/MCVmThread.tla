------------------------------ MODULE MCVmThread ------------------------------
(* Two VMs: the first may open two descriptors, of one shared file, of two or *)
(* of a local one, and write through one of them, or send a line and the      *)
(* beginning of another; the second competes for the console and the input.   *)
EXTENDS VmThread

MCMaxExits == [v \in VMs |-> IF v = 0 THEN 3 ELSE 1]
=============================================================================
