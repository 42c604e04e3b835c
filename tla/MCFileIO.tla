-------------------------------- MODULE MCFileIO --------------------------------
(* Instances of FileIO with one shared file, "s". *)
EXTENDS FileIO, TLC

Shared == "s" :> <<HostDir, "s">>
OneByte == <<HostDir, "s">> :> <<1>>

(* The open flags worth telling apart. *)
AllFlags == {{"READ"}, {"WRITE"}, {"READ_WRITE", "CREATE"}, {"READ", "OTHER"}, {"READ", "WRITE"}}
FewFlags == {{"READ"}, {"READ_WRITE", "CREATE"}}
OneFlag == {{"READ_WRITE", "CREATE"}}

(* -f vm_files/vm_0/s: the shared file is a local file of one of the VMs. *)
Owner == CHOOSE v \in VMs : TRUE
OwnedShared == "s" :> <<Owner, "s">>
OwnedByte == <<Owner, "s">> :> <<1>>

(* How many descriptors the VMs are given: 3, or 3 and 4. *)
OneEach == [v \in VMs |-> 3]
TwoEach == [v \in VMs |-> 4]
TwoForOwner == [v \in VMs |-> IF v = Owner THEN 4 ELSE 3]

FileSymmetry == Permutations(FileIds)
=============================================================================
