------------------------------ MODULE MCHypervisor ------------------------------
(* Instances of Hypervisor: the writer first, then the readers. *)
EXTENDS Hypervisor

CONSTANTS w, r1, r2

TwoVms == <<w, r1>>
ThreeVms == <<w, r1, r2>>

(* Nothing, less than the buffer, more than the buffer holds. *)
SomeTexts == {<<>>, <<1>>, <<1, 0>>}
OneText == {<<1>>}
NoFile == {<<>>}
OldFile == {<<0, 0>>}
=============================================================================
