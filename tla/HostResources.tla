----------------------------- MODULE HostResources -----------------------------
(***************************************************************************)
(* What the thread of a VM holds in the host: the descriptors and mappings *)
(* of struct vm (host/src/vm.c), the guest image while it is read, and the *)
(* host descriptors of the guest's files (host/src/file_io.cpp).           *)
(*                                                                         *)
(* allocated is the kernel's side, the other variables are what the        *)
(* program remembers.  Descriptor numbers are shared by all threads and    *)
(* are used again, so closing what is not allocated may close a descriptor *)
(* of another VM: that is what stray records.                              *)
(***************************************************************************)
EXTENDS VmSet

CONSTANTS
    Descriptors,    \* guest descriptors a VM may have open
    SharedNames     \* names of shared files

ASSUME NamesAssumption == SharedNames \cap {"closed", "local", "copied", None} = {}

VARIABLES
    allocated,  \* allocated[v]: the resources the kernel keeps for v
    fields,     \* fields[v]: the fields of struct vm that are not -1 or MAP_FAILED
    openFiles,  \* openFiles[v][d]: state of an entry of FileState.openFiles; an entry
                \* that is shared is in the state of the name it was opened with
    copying,    \* copying[v]: the name whose descriptors are being reopened, or None
    reopened,   \* reopened[v]: the vector reopenedFiles of a copy on write
    stray       \* history: something was closed that was not allocated

resourceVars == <<allocated, fields, openFiles, copying, reopened, stray>>

VmFields == {"kvm_fd", "vm_fd", "vcpu_fd", "mem", "run"}
FileStates == {"closed", "local", "copied"} \cup SharedNames

(* Host descriptors of guest descriptor d: the one of open, and the one a  *)
(* copy on write puts in its place.                                        *)
First(d) == <<"first", d>>
Second(d) == <<"second", d>>
HostDescriptor(v, d) == IF openFiles[v][d] = "copied" THEN Second(d) ELSE First(d)
IsOpen(v, d) == openFiles[v][d] # "closed"
Shared(v) == {d \in Descriptors : openFiles[v][d] \in SharedNames}
HostDescriptors(v) == {HostDescriptor(v, d) : d \in {e \in Descriptors : IsOpen(v, e)}}

Resources ==
    {<<f>> : f \in VmFields} \cup {<<"image">>}
        \cup {First(d) : d \in Descriptors} \cup {Second(d) : d \in Descriptors}

ResourceInit ==
    /\ allocated = [v \in VMs |-> {}]
    /\ fields = [v \in VMs |-> {}]
    /\ openFiles = [v \in VMs |-> [d \in Descriptors |-> "closed"]]
    /\ copying = [v \in VMs |-> None]
    /\ reopened = [v \in VMs |-> {}]
    /\ stray = FALSE

Allocate(v, r) == allocated' = [allocated EXCEPT ![v] = @ \cup {r}]
Release(v, closed) ==
    /\ allocated' = [allocated EXCEPT ![v] = @ \ closed]
    /\ stray' = (stray \/ ~(closed \subseteq allocated[v]))
---------------------------------------------------------------------------
(* vm_init: one more field of struct vm is valid. *)
AcquireField(v, f) ==
    /\ Allocate(v, <<f>>)
    /\ fields' = [fields EXCEPT ![v] = @ \cup {f}]
    /\ UNCHANGED <<openFiles, copying, reopened, stray>>

(* vm_destroy: every field that is valid is closed or unmapped, and is     *)
(* marked as invalid.                                                      *)
DestroyVm(v) ==
    /\ Release(v, {<<f>> : f \in fields[v]})
    /\ fields' = [fields EXCEPT ![v] = {}]
    /\ UNCHANGED <<openFiles, copying, reopened>>

(* load_guest_image: fopen, and fclose on every path after it. *)
OpenImage(v) ==
    Allocate(v, <<"image">>) /\ UNCHANGED <<fields, openFiles, copying, reopened, stray>>
CloseImage(v) ==
    Release(v, {<<"image">>}) /\ UNCHANGED <<fields, openFiles, copying, reopened>>
---------------------------------------------------------------------------
(* openFile, when the host opens the file. *)
OpenHostFile(v, d, state) ==
    /\ Allocate(v, First(d))
    /\ openFiles' = [openFiles EXCEPT ![v][d] = state]
    /\ UNCHANGED <<fields, copying, reopened, stray>>

(* closeFile: the entry goes whatever close returns. *)
CloseHostFile(v, d) ==
    /\ Release(v, {HostDescriptor(v, d)})
    /\ openFiles' = [openFiles EXCEPT ![v][d] = "closed"]
    /\ UNCHANGED <<fields, copying, reopened>>

(* prepareFileForWrite, for the name that descriptor d is shared under. *)
BeginCopy(v, d) ==
    /\ copying' = [copying EXCEPT ![v] = openFiles[v][d]]
    /\ UNCHANGED <<allocated, fields, openFiles, reopened, stray>>

(* The filter of reopenSharedFiles: the shared descriptors of that name. *)
Copied(v) == {d \in Shared(v) : openFiles[v][d] = copying[v]}

(* reopenSharedFiles, first loop: one more descriptor of the file is open  *)
(* on the private copy.                                                    *)
ReopenOne(v, d) ==
    /\ Allocate(v, Second(d))
    /\ reopened' = [reopened EXCEPT ![v] = @ \cup {d}]
    /\ UNCHANGED <<fields, openFiles, copying, stray>>

(* Mutant: what was opened so far stays open. *)
ClosesNothing(v) == {}

(* lseek or open fails for one of them, whose own new descriptor, if any,  *)
(* is closed at once: closeReopenedFiles.                                  *)
Unwound(v) == {Second(d) : d \in reopened[v]}
CloseReopenedFiles(v) ==
    /\ Release(v, Unwound(v))
    /\ reopened' = [reopened EXCEPT ![v] = {}]
    /\ copying' = [copying EXCEPT ![v] = None]
    /\ UNCHANGED <<fields, openFiles>>

(* Second loop: the new descriptors take the place of the old ones. *)
AdoptReopenedFiles(v) ==
    /\ Release(v, {First(d) : d \in reopened[v]})
    /\ openFiles' = [openFiles EXCEPT ![v] =
         [d \in Descriptors |-> IF d \in reopened[v] THEN "copied" ELSE @[d]]]
    /\ reopened' = [reopened EXCEPT ![v] = {}]
    /\ copying' = [copying EXCEPT ![v] = None]
    /\ UNCHANGED fields

(* closeGuestFiles. *)
CloseGuestFiles(v) ==
    /\ Release(v, HostDescriptors(v))
    /\ openFiles' = [openFiles EXCEPT ![v] = [d \in Descriptors |-> "closed"]]
    /\ UNCHANGED <<fields, copying, reopened>>
=============================================================================
