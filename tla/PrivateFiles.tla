------------------------------ MODULE PrivateFiles ------------------------------
(***************************************************************************)
(* What the file interface promises a guest: a file system of its own.     *)
(* Every VM starts with its local files and a copy of every shared file;   *)
(* what it reads is what it wrote itself or what was there at the start;   *)
(* nothing another VM does is visible, and neither is copy-on-write.       *)
(* A request that fails changes nothing, with two exceptions the code      *)
(* makes: Close and Seek.                                                  *)
(***************************************************************************)
EXTENDS PosixFiles

CONSTANTS
    VMs, Names,     \* the virtual machines, and the names files can have
    Byte,           \* values of one byte
    IntMax,         \* std::numeric_limits<int>::max()
    MaxCount,       \* bound: bytes of one request
    MaxSize         \* bound: length of a file

VARIABLES
    files,      \* files[v]: name -> contents, of the files v can open
    table,      \* table[v]: descriptor -> name, flags and offset
    next,       \* next[v]: the descriptor v gets next
    answer      \* answer[v]: result of v's last request, and the bytes of a read

vars == <<files, table, next, answer>>

Answer(v, result, data) == answer' = [answer EXCEPT ![v] = [result |-> result, data |-> data]]

Init ==
    /\ DOMAIN files = VMs
    /\ \A v \in VMs : /\ DOMAIN files[v] \subseteq Names
                       /\ \A n \in DOMAIN files[v] : files[v][n] \in Seq(Byte)
    /\ table = [v \in VMs |-> <<>>]
    /\ next = [v \in VMs |-> 3]
    /\ answer = [v \in VMs |-> [result |-> 0, data |-> <<>>]]
---------------------------------------------------------------------------
(* Any request may be refused; a refused request changes nothing. *)
Refuse(v) ==
    /\ Answer(v, -1, <<>>)
    /\ UNCHANGED <<files, table, next>>

Open(v, name, flags) ==
    /\ name \in DOMAIN files[v] \/ "CREATE" \in flags
    /\ files' = [files EXCEPT ![v] = IF name \in DOMAIN @ THEN @ ELSE With(@, name, <<>>)]
    /\ table' = [table EXCEPT ![v] =
                    With(@, next[v], [name |-> name, flags |-> flags, offset |-> 0])]
    /\ next' = [next EXCEPT ![v] = @ + 1]
    /\ Answer(v, next[v], <<>>)

(* The descriptor goes even when the host's close reports an error. *)
Close(v, d) ==
    /\ d \in DOMAIN table[v]
    /\ table' = [table EXCEPT ![v] = Without(@, d)]
    /\ \E result \in {0, -1} : Answer(v, result, <<>>)
    /\ UNCHANGED <<files, next>>

Read(v, d, count) ==
    /\ d \in DOMAIN table[v]
    /\ table[v][d].flags \cap {"READ", "READ_WRITE"} # {}
    /\ LET data == Slice(files[v][table[v][d].name], table[v][d].offset, count)
       IN /\ Answer(v, Len(data), data)
          /\ table' = [table EXCEPT ![v][d].offset = @ + Len(data)]
    /\ UNCHANGED <<files, next>>

Write(v, d, data) ==
    /\ d \in DOMAIN table[v]
    /\ table[v][d].flags \cap {"WRITE", "READ_WRITE"} # {}
    /\ files' = IF data = <<>> THEN files
                ELSE [files EXCEPT ![v][table[v][d].name] = Overlay(@, table[v][d].offset, data)]
    /\ table' = [table EXCEPT ![v][d].offset = @ + Len(data)]
    /\ Answer(v, Len(data), <<>>)
    /\ UNCHANGED next

(* A position that does not fit an int is reached, but the guest is told   *)
(* of a failure; every other position is reached and reported.             *)
Seek(v, d, position) ==
    /\ d \in DOMAIN table[v]
    /\ table' = [table EXCEPT ![v][d].offset = position]
    /\ Answer(v, IF position <= IntMax THEN position ELSE -1, <<>>)
    /\ UNCHANGED <<files, next>>

(* The VM has ended: its descriptors are closed. *)
CloseAll(v) ==
    /\ table' = [table EXCEPT ![v] = <<>>]
    /\ UNCHANGED <<files, next, answer>>

Step(v) ==
    \/ Refuse(v)
    \/ \E name \in Names, flags \in SUBSET {"READ", "WRITE", "READ_WRITE", "CREATE"} :
            Open(v, name, flags)
    \/ \E d \in DOMAIN table[v] :
            \/ Close(v, d)
            \/ \E count \in 0..MaxCount : Read(v, d, count)
            \/ \E data \in Blocks(Byte, MaxCount) : Write(v, d, data)
            \/ \E position \in 0..MaxSize : Seek(v, d, position)
    \/ CloseAll(v)

Next == \E v \in VMs : Step(v)

Spec == Init /\ [][Next]_vars
=============================================================================
