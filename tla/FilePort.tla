-------------------------------- MODULE FilePort --------------------------------
(***************************************************************************)
(* Port 0x278 of one VM: the guest's file library (guest/src/file.c)       *)
(* against handleFileIo (host/src/file_io.cpp).  A call of the library is  *)
(* an OUT of the address of a request, which the host carries out at once, *)
(* and an IN of its result.  Between the two the host may inject an        *)
(* interrupt, whose handler may call the library too, as irq0_handler of   *)
(* guest/src/interrupts.c does; the host keeps the results on a stack.     *)
(*                                                                         *)
(* The guest is any program that enters the port through the library only, *)
(* and that may enable interrupts anywhere, in a handler as well.  What    *)
(* processFileRequest does is FileIO's; here it only has a result.         *)
(***************************************************************************)
EXTENDS GuestMemory, Sequences

CONSTANTS
    Addresses,  \* the 32-bit addresses worth telling apart
    Counts,     \* the counts guests ask for
    Lengths,    \* distances from a name's address to the next zero byte
    Results     \* what a request that is carried out may return

IRQ_COUNT == 2

ASSUME PortAssumption ==
    /\ Addresses \subseteq Nat /\ Counts \subseteq Int /\ Lengths \subseteq Nat
    /\ Results \subseteq Int /\ -1 \in Results

VARIABLES
    pendingResults, \* FileState.pendingResults
    frames,         \* the guest's activations: _start, then interrupt handlers
    interruptCount, \* the interrupts the host has still to inject
    running,        \* FALSE once a handler has returned false
    answer,         \* history: result of the last call, and what its caller got
    touched         \* history: guest memory the last step used, as <<address, size>>

vars == <<pendingResults, frames, interruptCount, running, answer, touched>>

(* An activation: whether it is between an OUT and its IN, whether         *)
(* interrupts are enabled and, as history, the result of its last OUT and  *)
(* the place it was pushed to.                                             *)
FrameType == [outstanding : BOOLEAN, enabled : BOOLEAN, result : Results, place : Nat]
NewFrame == [outstanding |-> FALSE, enabled |-> FALSE, result |-> -1, place |-> 0]
Requests == [operation : {"OPEN", "CLOSE", "READ", "WRITE", "LSEEK"},
             buffer : Addresses, count : Counts, length : Lengths, lettered : BOOLEAN]

Init ==
    /\ pendingResults = <<>>
    /\ frames = <<NewFrame>>
    /\ interruptCount = IRQ_COUNT
    /\ running = TRUE
    /\ answer = [asked |-> -1, got |-> -1]
    /\ touched = {}

Top == frames[Len(frames)]
SetTop(frame) == frames' = [frames EXCEPT ![Len(frames)] = frame]
---------------------------------------------------------------------------
(* processFileRequest: the guest memory a request makes the host use, once *)
(* flags, descriptor and access mode are accepted, and whether it is       *)
(* refused for its count, its name or its place in memory.                 *)
UsedMemory(request) ==
    CASE request.operation = "OPEN" /\ getGuestMemory(request.buffer, 1) ->
            {NameRange(request.buffer, request.length)}
      [] request.operation \in {"READ", "WRITE"} /\ request.count > 0
            /\ getGuestMemory(request.buffer, request.count) ->
            {<<request.buffer, request.count>>}
      [] OTHER -> {}

Refused(request) ==
    \/ /\ request.operation = "OPEN"
       /\ ~readGuestFileName(request.buffer, request.length, request.lettered)
    \/ /\ request.operation \in {"READ", "WRITE"}
       /\ \/ request.count < 0
          \/ request.count > 0 /\ ~getGuestMemory(request.buffer, request.count)

(* handleFileIo, OUT: whatever comes of it, one result is pushed. *)
HandleOut(address, request, result) ==
    /\ \/ /\ ~getGuestMemory(address, RequestSize)
          /\ result = -1 /\ touched' = {}
       \/ /\ getGuestMemory(address, RequestSize)
          /\ result = -1 /\ touched' = {<<address, RequestSize>>}
       \/ /\ getGuestMemory(address, RequestSize)
          /\ Refused(request) => result = -1
          /\ touched' = {<<address, RequestSize>>} \cup UsedMemory(request)
    /\ pendingResults' = Append(pendingResults, result)

(* Mutants: the oldest result is taken; the result is not removed. *)
OldestResult == IF pendingResults = <<>> THEN -1 ELSE pendingResults[1]
KeepResults == pendingResults

(* handleFileIo, IN: the latest result, or -1 when there is none. *)
LastResult == IF pendingResults = <<>> THEN -1 ELSE pendingResults[Len(pendingResults)]
PopResult ==
    IF pendingResults = <<>> THEN <<>>
    ELSE SubSeq(pendingResults, 1, Len(pendingResults) - 1)
---------------------------------------------------------------------------
(* The library refuses a null pointer before it uses the port. *)
NullPointer(request) ==
    \/ request.operation = "OPEN" /\ request.buffer = 0
    \/ request.operation \in {"READ", "WRITE"} /\ request.buffer = 0 /\ request.count > 0

(* open, close, read, write or lseek up to the OUT of submit_file_request. *)
Submit ==
    /\ ~Top.outstanding
    /\ \E request \in Requests, address \in Addresses, result \in Results :
        /\ ~NullPointer(request)
        /\ HandleOut(address, request, result)
        /\ SetTop([Top EXCEPT !.outstanding = TRUE, !.result = result,
                               !.place = Len(pendingResults) + 1])
    /\ UNCHANGED <<interruptCount, running, answer>>

RefuseNull ==
    /\ ~Top.outstanding
    /\ \E request \in Requests : NullPointer(request)
    /\ answer' = [asked |-> -1, got |-> -1]
    /\ touched' = {}
    /\ UNCHANGED <<pendingResults, frames, interruptCount, running>>

(* The IN of submit_file_request, and the call returns. *)
Return ==
    /\ Top.outstanding
    /\ answer' = [asked |-> Top.result, got |-> LastResult]
    /\ pendingResults' = PopResult
    /\ SetTop([Top EXCEPT !.outstanding = FALSE, !.result = -1, !.place = 0])
    /\ touched' = {}
    /\ UNCHANGED <<interruptCount, running>>

(* An IN by a program that waits for no result: there is none to give. *)
StrayIn ==
    /\ \A i \in 1..Len(frames) : ~frames[i].outstanding
    /\ answer' = [asked |-> -1, got |-> LastResult]
    /\ pendingResults' = PopResult
    /\ touched' = {}
    /\ UNCHANGED <<frames, interruptCount, running>>

(* An access of another size, or a string instruction: the VM is ended. *)
BadAccess ==
    /\ running' = FALSE
    /\ touched' = {}
    /\ UNCHANGED <<pendingResults, frames, interruptCount, answer>>

(* Mutant: the count of interrupts is not looked at. *)
InjectAlways ==
    /\ Top.enabled
    /\ interruptCount' = interruptCount - 1
    /\ frames' = Append(frames, NewFrame)
    /\ touched' = {}
    /\ UNCHANGED <<pendingResults, running, answer>>

(* KVM_EXIT_IRQ_WINDOW_OPEN: inject_irq, and the interrupt gate disables   *)
(* interrupts.                                                             *)
InjectIrq ==
    /\ interruptCount > 0 /\ Top.enabled
    /\ interruptCount' = interruptCount - 1
    /\ frames' = Append(frames, NewFrame)
    /\ touched' = {}
    /\ UNCHANGED <<pendingResults, running, answer>>

(* sti, in _start or in a handler. *)
EnableInterrupts ==
    /\ ~Top.enabled
    /\ SetTop([Top EXCEPT !.enabled = TRUE])
    /\ touched' = {}
    /\ UNCHANGED <<pendingResults, interruptCount, running, answer>>

(* The handler returns to the activation it interrupted. *)
ReturnFromInterrupt ==
    /\ Len(frames) > 1 /\ ~Top.outstanding
    /\ frames' = SubSeq(frames, 1, Len(frames) - 1)
    /\ touched' = {}
    /\ UNCHANGED <<pendingResults, interruptCount, running, answer>>

Next ==
    /\ running
    /\ \/ Submit \/ RefuseNull \/ Return \/ StrayIn \/ BadAccess
       \/ InjectIrq \/ EnableInterrupts \/ ReturnFromInterrupt

Spec == Init /\ [][Next]_vars
---------------------------------------------------------------------------
(* Type correctness; no more interrupts are injected than there are. *)
TypeOK ==
    /\ pendingResults \in Seq(Results)
    /\ frames \in Seq(FrameType) /\ frames # <<>>
    /\ interruptCount \in 0..IRQ_COUNT
    /\ running \in BOOLEAN
    /\ answer \in [asked : Results, got : Results]

(* A call of the library returns the result of its own request, however    *)
(* interrupts and the calls of their handlers fall between its OUT and its *)
(* IN.                                                                     *)
OwnResult == answer.got = answer.asked

(* The stack holds one result for each call that is outstanding, in the    *)
(* order of the activations: none outlives its call, and there are never   *)
(* more than one for _start and one for each interrupt.                    *)
ResultsAreAwaited ==
    /\ Len(frames) + interruptCount <= IRQ_COUNT + 1
    /\ \A i \in 1..Len(frames) : frames[i].outstanding =>
         /\ frames[i].place \in 1..Len(pendingResults) /\ frames[i].place <= i
         /\ pendingResults[frames[i].place] = frames[i].result
    /\ \A i, j \in 1..Len(frames) :
         frames[i].outstanding /\ frames[j].outstanding /\ i < j
             => frames[i].place < frames[j].place
    /\ \A k \in 1..Len(pendingResults) :
         \E i \in 1..Len(frames) : frames[i].outstanding /\ frames[i].place = k

(* Whatever addresses and counts a guest sends, the host reads and writes  *)
(* inside guest memory only.                                               *)
InsideGuestMemory == \A range \in touched : range[1] + range[2] <= MemSize
=============================================================================
