-------------------------------- MODULE VmThread --------------------------------
(***************************************************************************)
(* The thread of each VM from vm_init to closeGuestFiles                   *)
(* (host/src/vm_runner.cpp, vm.c, file_io.cpp): the resources it takes and *)
(* gives back, and what it does on the console it shares with the other    *)
(* VMs.  todo[v] is what the thread has to do before the guest runs (again)*)
(* or the thread ends; it is <<>> while the guest runs.                    *)
(*                                                                         *)
(* Exits to the shared buffer are in SharedBuffer and Hypervisor; here     *)
(* they only may be refused.  Of main, which is in Hypervisor, there are   *)
(* only the two errors it prints while VMs run.                            *)
(***************************************************************************)
EXTENDS HostResources, Console, Naturals

CONSTANTS
    FileVMs,    \* bound: the VMs whose guests open files
    MaxExits    \* bound, for each VM: exits after which its guest only stops

ASSUME ExitsAssumption == MaxExits \in [VMs -> Nat]

VARIABLES
    todo,       \* todo[v]: steps ahead of the thread
    exits,      \* exits[v]: exits counted against MaxExits
    abandoned   \* history: abandoned[v], v was left without a flush

vars == <<resourceVars, consoleVars, todo, exits, abandoned>>

(* vm_init, then runVirtualMachine up to its loop.  Steps that are fields  *)
(* of struct vm acquire them; "open image" and "read image" are            *)
(* load_guest_image; the others are calls that may fail.                   *)
SetUp == <<"kvm_fd", "KVM_GET_API_VERSION", "vm_fd", "mem", "KVM_SET_USER_MEMORY_REGION",
           "vcpu_fd", "KVM_GET_VCPU_MMAP_SIZE", "run", "KVM_GET_SREGS", "KVM_SET_SREGS",
           "open image", "read image", "KVM_SET_REGS">>
SetUpSteps == {SetUp[i] : i \in 1..Len(SetUp)}

(* Those of vm.c, which prints its own error when one of them fails. *)
VmCSteps == SetUpSteps \ {"KVM_GET_SREGS", "KVM_SET_SREGS", "KVM_SET_REGS"}

(* A message on a stream, vm_destroy, and runGuest returns. *)
Leave(message) == <<message, "vm_destroy", "return">>

(* Mutant: the line is not printed. *)
LeaveUnflushed(message) == Leave(message)
LeaveFlushed(message) == <<"flush">> \o Leave(message)

Has(v, step) == todo[v] # <<>> /\ Head(todo[v]) = step
Ahead(v, steps) == todo' = [todo EXCEPT ![v] = steps]
Advance(v) == Ahead(v, Tail(todo[v]))
Ended(v) == todo[v] = <<"ended">>
Leaving(v) == todo[v] # <<>> /\ todo[v][Len(todo[v])] = "return"
Copying(v) == Has(v, "reopen")

Init ==
    /\ ResourceInit /\ ConsoleInit
    /\ todo = [v \in VMs |-> SetUp]
    /\ exits = [v \in VMs |-> 0]
    /\ abandoned = [v \in VMs |-> FALSE]
---------------------------------------------------------------------------
(* Set-up. *)
SetUpSucceeds(v) ==
    /\ todo[v] # <<>> /\ Head(todo[v]) \in SetUpSteps
    /\ LET step == Head(todo[v]) IN
        \/ step \in VmFields /\ AcquireField(v, step)
        \/ step = "open image" /\ OpenImage(v)
        \/ step = "read image" /\ CloseImage(v)
        \/ step \notin VmFields \cup {"open image", "read image"} /\ UNCHANGED resourceVars
    /\ Advance(v)
    /\ UNCHANGED <<consoleVars, exits, abandoned>>

(* vm.c prints what failed, without the lock; runVirtualMachine prints an  *)
(* error of its own, with it.                                              *)
SetUpFails(v) ==
    /\ todo[v] # <<>> /\ Head(todo[v]) \in SetUpSteps
    /\ IF Has(v, "read image") THEN CloseImage(v) ELSE UNCHANGED resourceVars
    /\ IF Head(todo[v]) \in VmCSteps THEN PrintUnlocked(v) ELSE UNCHANGED consoleVars
    /\ Ahead(v, Leave("cerr"))
    /\ UNCHANGED <<exits, abandoned>>
---------------------------------------------------------------------------
(* The console, and the end of the thread. *)
StartMessage(v) ==
    /\ writing[v] = None
    /\ \/ \E stream \in Streams : Has(v, stream) /\ BeginMessage(v, stream)
       \/ Has(v, "flush") /\ line[v] # <<>> /\ BeginMessage(v, "cout")
    /\ UNCHANGED <<resourceVars, todo, exits, abandoned>>

FinishMessage(v) ==
    /\ writing[v] # None
    /\ IF Has(v, "flush") THEN EndFlush(v) ELSE EndMessage(v)
    /\ Advance(v)
    /\ UNCHANGED <<resourceVars, exits, abandoned>>

FlushNothing(v) ==
    /\ Has(v, "flush") /\ line[v] = <<>>
    /\ Advance(v)
    /\ UNCHANGED <<resourceVars, consoleVars, exits, abandoned>>

VmDestroy(v) ==
    /\ Has(v, "vm_destroy")
    /\ DestroyVm(v)
    /\ Advance(v)
    /\ UNCHANGED <<consoleVars, exits, abandoned>>

(* runGuest: closeGuestFiles, and the thread ends. *)
RunGuestReturns(v) ==
    /\ Has(v, "return")
    /\ CloseGuestFiles(v)
    /\ Ahead(v, <<"ended">>)
    /\ UNCHANGED <<consoleVars, exits, abandoned>>
---------------------------------------------------------------------------
(* Exits of the guest after which it runs again. *)
Exit(v) ==
    /\ todo[v] = <<>>
    /\ exits[v] < MaxExits[v]
    /\ exits' = [exits EXCEPT ![v] = @ + 1]
    /\ UNCHANGED abandoned

SerialOut(v) ==
    /\ Exit(v)
    /\ \E character \in Characters :
        /\ PushBack(v, character)
        /\ Ahead(v, IF character = Newline THEN <<"flush">> ELSE <<>>)
    /\ UNCHANGED resourceVars

(* Mutant: what is in the buffer is printed later. *)
PromptLater == <<"input">>

(* handleSerialIo, IN: flushSerialOutput comes before serialInputMutex. *)
InputSteps == <<"flush", "input">>
SerialIn(v) ==
    /\ Exit(v)
    /\ Ahead(v, InputSteps)
    /\ UNCHANGED <<resourceVars, consoleVars>>

WaitForInput(v) ==
    /\ Has(v, "input") /\ inputMutex # v
    /\ LockInput(v)
    /\ UNCHANGED <<resourceVars, todo, exits, abandoned>>

InputArrives(v) ==
    /\ Has(v, "input") /\ inputMutex = v
    /\ GetCharacter(v)
    /\ Advance(v)
    /\ UNCHANGED <<resourceVars, exits, abandoned>>

InputFails(v) ==
    /\ Has(v, "input") /\ inputMutex = v
    /\ EndOfInput
    /\ Ahead(v, <<"cerr", "unlock">> \o LeaveFlushed("cerr"))
    /\ UNCHANGED <<resourceVars, exits, abandoned>>

Unlock(v) ==
    /\ Has(v, "unlock")
    /\ UnlockInput(v)
    /\ Advance(v)
    /\ UNCHANGED <<resourceVars, exits, abandoned>>

(* Descriptors are given out in one order; which of them is of no account. *)
NextDescriptor(v) == CHOOSE d \in Descriptors : ~IsOpen(v, d)
OpenFile(v) ==
    /\ Exit(v) /\ v \in FileVMs
    /\ \E d \in Descriptors, state \in {"local"} \cup SharedNames :
        ~IsOpen(v, d) /\ d = NextDescriptor(v) /\ OpenHostFile(v, d, state)
    /\ UNCHANGED <<consoleVars, todo>>

CloseFile(v) ==
    /\ Exit(v)
    /\ \E d \in Descriptors : IsOpen(v, d) /\ CloseHostFile(v, d)
    /\ UNCHANGED <<consoleVars, todo>>

(* A write through a descriptor that is shared: prepareFileForWrite has    *)
(* made the copy, if it could, and calls reopenSharedFiles.                *)
WriteShared(v) ==
    /\ Exit(v)
    /\ \E d \in Shared(v) : BeginCopy(v, d)
    /\ Ahead(v, <<"reopen">>)
    /\ UNCHANGED consoleVars

Reopen(v) ==
    /\ Copying(v)
    /\ \/ \E d \in Copied(v) \ reopened[v] : ReopenOne(v, d) /\ UNCHANGED todo
       \/ Copied(v) # reopened[v] /\ CloseReopenedFiles(v) /\ Advance(v)
       \/ Copied(v) = reopened[v] /\ AdoptReopenedFiles(v) /\ Advance(v)
    /\ UNCHANGED <<consoleVars, exits, abandoned>>
---------------------------------------------------------------------------
(* Exits after which the guest does not run again. *)
Stop(v, steps, flushes) ==
    /\ todo[v] = <<>>
    /\ Ahead(v, steps)
    /\ abandoned' = [abandoned EXCEPT ![v] = ~flushes]
    /\ UNCHANGED <<resourceVars, exits>>

(* Hlt, with the transfer completed or not, shutdown, or another exit. *)
Halts(v) ==
    /\ \E stream \in Streams : Stop(v, LeaveFlushed(stream), TRUE)
    /\ UNCHANGED consoleVars

(* Mutant: handleSerialIo prints its error without the lock. *)
RefusedUnlocked(v) == Stop(v, LeaveFlushed("cerr"), TRUE) /\ PrintUnlocked(v)

(* An access that a handler refuses; handleSerialIo prints an error first. *)
AccessRefused(v) ==
    /\ \E message \in {<<>>, <<"cerr">>} : Stop(v, message \o LeaveFlushed("cerr"), TRUE)
    /\ UNCHANGED consoleVars

(* KVM_RUN or KVM_INTERRUPT fails: the line is not flushed, and inject_irq *)
(* prints an error without the lock.                                       *)
KvmFails(v) ==
    /\ Stop(v, Leave("cerr"), FALSE)
    /\ UNCHANGED consoleVars \/ PrintUnlocked(v)

(* main: a thread cannot be created or joined.  It matters here while a VM *)
(* is in the middle of a message.                                          *)
MainFails ==
    /\ \E v \in VMs : writing[v] # None
    /\ PrintUnlocked(Main)
    /\ UNCHANGED <<resourceVars, todo, exits, abandoned>>
---------------------------------------------------------------------------
HostStep(v) ==
    \/ SetUpSucceeds(v) \/ SetUpFails(v)
    \/ StartMessage(v) \/ FinishMessage(v) \/ FlushNothing(v)
    \/ VmDestroy(v) \/ RunGuestReturns(v)
    \/ WaitForInput(v) \/ Unlock(v) \/ Reopen(v)

GuestExit(v) ==
    \/ SerialOut(v) \/ SerialIn(v)
    \/ OpenFile(v) \/ CloseFile(v) \/ WriteShared(v)
    \/ Halts(v) \/ AccessRefused(v) \/ KvmFails(v)

(* All threads have ended. *)
Terminated == (\A v \in VMs : Ended(v)) /\ UNCHANGED vars

Next ==
    \/ \E v \in VMs : HostStep(v) \/ GuestExit(v) \/ InputArrives(v) \/ InputFails(v)
    \/ MainFails
    \/ Terminated

(* A thread goes on with what it has to do, and a read of an input that    *)
(* has ended returns; nothing makes a guest exit or a user type.           *)
Spec ==
    /\ Init /\ [][Next]_vars
    /\ \A v \in VMs : WF_vars(HostStep(v) \/ (inputEnded /\ InputFails(v)))
---------------------------------------------------------------------------
(* Type correctness; a thread in the middle of a message has consoleMutex. *)
TypeOK ==
    /\ allocated \in [VMs -> SUBSET Resources]
    /\ fields \in [VMs -> SUBSET VmFields]
    /\ openFiles \in [VMs -> [Descriptors -> FileStates]]
    /\ copying \in [VMs -> SharedNames \cup {None}]
    /\ reopened \in [VMs -> SUBSET Descriptors]
    /\ consoleMutex \in VMs \cup {None} /\ inputMutex \in VMs \cup {None}
    /\ writing \in [VMs -> Streams \cup {None}]
    /\ intruders \in [VMs -> SUBSET (VMs \cup {Main})]
    /\ \A v \in VMs : exits[v] \in 0..MaxExits[v] /\ Len(line[v]) <= exits[v]
    /\ \A v \in VMs : writing[v] # None => consoleMutex = v

(* At every moment, whatever has failed before, the kernel keeps exactly   *)
(* what the program remembers: no path of vm_init, load_guest_image,       *)
(* reopenSharedFiles or vm_destroy loses a descriptor or a mapping or      *)
(* closes one twice, and a thread that has ended holds nothing.            *)
HandlesOwned ==
    /\ ~stray
    /\ \A v \in VMs :
        /\ allocated[v] = {<<f>> : f \in fields[v]} \cup HostDescriptors(v)
                \cup {Second(d) : d \in reopened[v]}
                \cup {r \in {<<"image">>} : Has(v, "read image")}
        /\ Ended(v) => allocated[v] = {}

(* What may fall into a message of a VM, between its prefix and its end:   *)
(* an error of main, or the one line that vm.c prints when the thread of   *)
(* another VM fails.  That thread prints nothing else before the message   *)
(* is over, so no output of a guest and no error of a handler ever does.   *)
OnlyFailuresIntrude ==
    \A v \in VMs : \A w \in intruders[v] :
        w = Main \/ (w # v /\ todo[w] = Leave("cerr") /\ writing[w] = None)

(* Every character a guest sends is printed once and in order, or is still *)
(* in its buffer; when its thread has ended it is printed, unless KVM      *)
(* failed, and then only an unfinished line is lost.                       *)
OutputIsPrinted ==
    \A v \in VMs :
        /\ sent[v] = printed[v] \o line[v]
        /\ Ended(v) =>
             IF abandoned[v] THEN Newline \notin {line[v][i] : i \in 1..Len(line[v])}
                             ELSE line[v] = <<>>

(* What a guest has written is on the console before its thread waits for  *)
(* serialInputMutex or for a character: a prompt is never held back.       *)
PromptIsShown == \A v \in VMs : Has(v, "input") => line[v] = <<>>

(* A VM that has failed or halted ends its thread, whatever the input of   *)
(* the other VMs does: nobody keeps consoleMutex while he waits, and the   *)
(* error for an ended input, printed under both mutexes, cannot deadlock.  *)
LeavingEnds == \A v \in VMs : Leaving(v) ~> Ended(v)

(* An input that has ended fails every VM that waits for a character, one  *)
(* after the other, and their threads end.                                 *)
EndOfInputReachesAll == \A v \in VMs : (inputEnded /\ Has(v, "input")) ~> Ended(v)
=============================================================================
