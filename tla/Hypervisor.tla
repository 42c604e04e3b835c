------------------------------- MODULE Hypervisor -------------------------------
(***************************************************************************)
(* A whole run of the hypervisor with the shipped guest: main creates and  *)
(* joins one thread per VM (host/src/main.cpp); every thread runs its VM   *)
(* (host/src/vm_runner.cpp), injects two interrupts and serves the exits;  *)
(* every guest runs guest/src/main.c with the interrupt handler of         *)
(* guest/src/interrupts.c.  The shared buffer is that of SharedBuffer: an  *)
(* access of a guest to ports 0x510 and 0x520 is the Handle step of the    *)
(* I/O the guest program issues at that point.                             *)
(*                                                                         *)
(* Faults names what may go wrong: thread creation ("create") and joining  *)
(* ("join"), the set-up of a VM or an exit the runner does not expect      *)
(* ("vm"), a file request ("file"), the end of the serial input ("input"). *)
(***************************************************************************)
EXTENDS SharedBuffer, PosixFiles

CONSTANTS
    Order,      \* the VMs in the order of the -g option
    Texts,      \* what guest.txt of the writer may hold
    OldFiles,   \* what reader.txt of a reader may hold before the run
    Faults      \* the faults that may happen

IRQ_COUNT == 2

ASSUME HypervisorAssumption ==
    /\ Order \in Seq(VMs) /\ Order[1] = Writer
    /\ \A v \in VMs : \E i \in 1..Len(Order) : Order[i] = v
    /\ \A i, j \in 1..Len(Order) : Order[i] = Order[j] => i = j
    /\ Texts \subseteq Seq(Byte) /\ OldFiles \subseteq Seq(Byte)
    /\ MaxRequest >= BufferSize + 1 /\ MaxGeneration >= 1

VARIABLES
    main,       \* main's progress: phase, threads created and joined, allGuestsSucceeded
    guest,      \* guest[v]: the guest program of v and the host's interruptCount
    guestTxt,   \* guest.txt of the writer
    readerTxt   \* readerTxt[r]: reader.txt of r

hvVars == <<vars, main, guest, guestTxt, readerTxt>>

(* pc names the point the guest has reached:                               *)
(*   new     its thread does not exist                                     *)
(*   boot    _start before sti: GDT, IDT, test_file_io                     *)
(*   spin    waiting for communication_finished, interrupts enabled        *)
(*   mode    irq0_handler, first interrupt: inb(0x510)                     *)
(*   load, size, send, final   write_shared_buffer                         *)
(*   fetch, recv, giveup, ack, save   read_shared_buffer                   *)
(*   report, input, halt   _start after the loop                           *)
GuestType ==
    [pc : {"new", "boot", "spin", "mode", "load", "size", "send", "final",
           "fetch", "recv", "giveup", "ack", "save", "report", "input", "halt"},
     interruptCount : 0..IRQ_COUNT, mode_initialized : BOOLEAN, vm_mode : Nat,
     transfer_finished : BOOLEAN, transfer_succeeded : BOOLEAN,
     buffer : Seq(Byte), count : Nat, sent : Nat, fileOk : BOOLEAN]

HvInit ==
    /\ Init
    /\ main = [phase |-> "create", created |-> 0, joined |-> 0, ok |-> TRUE]
    /\ guest = [v \in VMs |->
                  [pc |-> "new", interruptCount |-> IRQ_COUNT, mode_initialized |-> FALSE,
                   vm_mode |-> 0, transfer_finished |-> FALSE,
                   transfer_succeeded |-> FALSE, buffer |-> <<>>, count |-> 0, sent |-> 0, fileOk |-> TRUE]]
    /\ guestTxt \in Texts
    /\ readerTxt \in [Readers -> OldFiles]
---------------------------------------------------------------------------
(* main *)
CreateThread ==
    LET v == Order[main.created + 1] IN
    /\ main.phase = "create"
    /\ main' = [main EXCEPT !.created = @ + 1,
                            !.phase = IF main.created + 1 = Len(Order) THEN "join" ELSE @]
    /\ guest' = [guest EXCEPT ![v].pc = "boot"]
    /\ UNCHANGED <<vars, guestTxt, readerTxt>>

AbortByMain ==
    /\ Abort
    /\ UNCHANGED <<ctx, thread, exit, reply, sent, received, guest, guestTxt, readerTxt>>

CreateThreadFails ==
    /\ "create" \in Faults /\ main.phase = "create"
    /\ main' = [main EXCEPT !.phase = "join", !.ok = FALSE]
    /\ AbortByMain

Joining(v) == main.phase = "join" /\ main.joined < main.created /\ v = Order[main.joined + 1]

(* Mutant: the result of a thread is not looked at. *)
JoinIgnoresResult(v) ==
    /\ Joining(v)
    /\ thread[v] \in {"failed", "succeeded"}
    /\ main' = [main EXCEPT !.joined = @ + 1]
    /\ UNCHANGED <<vars, guest, guestTxt, readerTxt>>
JoinThread(v) ==
    /\ Joining(v)
    /\ thread[v] \in {"failed", "succeeded"}
    /\ main' = [main EXCEPT !.joined = @ + 1, !.ok = @ /\ thread[v] = "succeeded"]
    /\ UNCHANGED <<vars, guest, guestTxt, readerTxt>>

JoinThreadFails(v) ==
    /\ "join" \in Faults /\ Joining(v)
    /\ main' = [main EXCEPT !.joined = @ + 1, !.ok = FALSE]
    /\ AbortByMain

MainReturns ==
    /\ main.phase = "join" /\ main.joined = main.created
    /\ main' = [main EXCEPT !.phase = "exited"]
    /\ UNCHANGED <<vars, guest, guestTxt, readerTxt>>
---------------------------------------------------------------------------
(* The steps of v's guest that do not leave KVM_RUN, or whose exit concerns *)
(* neither the buffer nor the VM's end.                                     *)
InGuest(v, pc) == thread[v] = "guest" /\ guest[v].pc = pc
Move(v, g) == guest' = [guest EXCEPT ![v] = g]

Boot(v) ==
    /\ InGuest(v, "boot")
    /\ Move(v, [guest[v] EXCEPT !.pc = "spin"])
    /\ UNCHANGED <<vars, guestTxt, readerTxt>>

(* KVM_EXIT_IRQ_WINDOW_OPEN.  The handler runs behind an interrupt gate,   *)
(* so a window opens only outside it.                                      *)
InjectIrq(v) ==
    /\ InGuest(v, "spin") /\ guest[v].interruptCount > 0
    /\ Move(v, [guest[v] EXCEPT
                  !.interruptCount = @ - 1,
                  !.pc = IF ~guest[v].mode_initialized THEN "mode"
                         ELSE IF guest[v].vm_mode = 1 THEN "load" ELSE "fetch"])
    /\ UNCHANGED <<vars, guestTxt, readerTxt>>

FileOutcomes == {TRUE} \cup {"file" \notin Faults}

(* open, read and close of guest.txt: at most BUFFER_SIZE + 1 bytes, none  *)
(* when open or read failed.                                               *)
LoadGuestTxt(v) ==
    /\ InGuest(v, "load")
    /\ \E ok \in FileOutcomes, readOk \in FileOutcomes :
        LET text == IF readOk THEN Slice(guestTxt, 0, BufferSize + 1) ELSE <<>> IN
        Move(v, [guest[v] EXCEPT !.pc = "size", !.buffer = text, !.count = Len(text),
                                 !.fileOk = ok /\ readOk])
    /\ UNCHANGED <<vars, guestTxt, readerTxt>>

(* open, lseek, write and close of reader.txt, which is not truncated. *)
SaveReaderTxt(v) ==
    /\ InGuest(v, "save")
    /\ \E ok \in FileOutcomes, writeOk \in FileOutcomes :
        /\ readerTxt' = IF writeOk /\ guest[v].buffer # <<>>
                        THEN [readerTxt EXCEPT ![v] = Overlay(@, 0, guest[v].buffer)]
                        ELSE readerTxt
        /\ Move(v, [guest[v] EXCEPT !.pc = "spin", !.transfer_finished = TRUE,
                                    !.transfer_succeeded = ok /\ writeOk])
    /\ UNCHANGED <<vars, guestTxt>>

LeaveLoop(v) ==
    /\ InGuest(v, "spin") /\ guest[v].transfer_finished
    /\ Move(v, [guest[v] EXCEPT !.pc = "report"])
    /\ UNCHANGED <<vars, guestTxt, readerTxt>>

Report(v) ==
    /\ InGuest(v, "report") /\ guest[v].transfer_succeeded
    /\ Move(v, [guest[v] EXCEPT !.pc = "input"])
    /\ UNCHANGED <<vars, guestTxt, readerTxt>>

ReadInput(v) ==
    /\ InGuest(v, "input")
    /\ Move(v, [guest[v] EXCEPT !.pc = "halt"])
    /\ UNCHANGED <<vars, guestTxt, readerTxt>>
---------------------------------------------------------------------------
(* The accesses of irq0_handler to the shared buffer.                      *)
NextIo(g) ==
    CASE g.pc = "mode" -> In("data", 1)
      [] g.pc = "size" -> Out("data", 4, g.count)
      [] g.pc = "send" -> Out("data", 1, g.buffer[g.sent + 1])
      [] g.pc = "final" -> In("status", 4)
      [] g.pc = "fetch" -> In("data", 4)
      [] g.pc = "recv" -> In("data", 1)
      [] g.pc = "giveup" -> Out("status", 4, 0)
      [] g.pc = "ack" -> Out("status", 4, g.count)

(* The guest after the access at g.pc, which gave it value. *)
AfterIo(g, value) ==
    CASE g.pc = "mode" ->
            [g EXCEPT !.pc = "spin", !.mode_initialized = TRUE, !.vm_mode = value]
      [] g.pc = "size" -> [g EXCEPT !.pc = IF g.count = 0 THEN "final" ELSE "send"]
      [] g.pc = "send" -> [g EXCEPT !.sent = @ + 1,
                                    !.pc = IF g.sent + 1 = g.count THEN "final" ELSE "send"]
      [] g.pc = "final" -> [g EXCEPT !.pc = "spin", !.transfer_finished = TRUE,
                                     !.transfer_succeeded =
                                        g.fileOk /\ value = Smaller(g.count, BufferSize)]
      [] g.pc = "fetch" -> [g EXCEPT !.count = value,
                                     !.pc = CASE value > BufferSize -> "giveup"
                                              [] value = 0 -> "ack"
                                              [] OTHER -> "recv"]
      [] g.pc = "recv" -> [g EXCEPT !.buffer = Append(@, value),
                                    !.pc = IF Len(g.buffer) + 1 = g.count THEN "ack" ELSE "recv"]
      [] g.pc = "giveup" -> [g EXCEPT !.pc = "spin", !.transfer_finished = TRUE]
      [] g.pc = "ack" -> [g EXCEPT !.pc = "save"]

BufferIo(v) ==
    /\ guest[v].pc \in {"mode", "size", "send", "final", "fetch", "recv", "giveup", "ack"}
    /\ Handle(v, NextIo(guest[v]))
    /\ Move(v, IF thread'[v] = "guest" THEN AfterIo(guest[v], reply'[v]) ELSE guest[v])
    /\ UNCHANGED <<main, guestTxt, readerTxt>>
---------------------------------------------------------------------------
(* The end of a VM.                                                        *)
Ends(v, step) == step /\ UNCHANGED <<main, guest, guestTxt, readerTxt>>

Halt(v) == guest[v].pc = "halt" /\ Ends(v, GuestHalts(v))

(* ud2 after a failed transfer: no handler is installed, so the VM shuts   *)
(* down.                                                                   *)
Crash(v) ==
    /\ guest[v].pc = "report" /\ ~guest[v].transfer_succeeded
    /\ Ends(v, GuestFails(v))

InputEnds(v) == "input" \in Faults /\ guest[v].pc = "input" /\ Ends(v, GuestFails(v))

(* Mutant: a thread that fails returns without aborting the buffer. *)
VmFailsSilently(v) ==
    /\ "vm" \in Faults /\ guest[v].pc # "new" /\ thread[v] = "guest"
    /\ thread' = [thread EXCEPT ![v] = "failed"]
    /\ UNCHANGED <<state, ctx, exit, reply, waiting, sent, received>>
    /\ UNCHANGED <<main, guest, guestTxt, readerTxt>>
VmFails(v) == "vm" \in Faults /\ guest[v].pc # "new" /\ Ends(v, GuestFails(v))

(* What v's thread does of itself, and what may happen to it. *)
GuestStep(v) ==
    /\ UNCHANGED main
    /\ \/ Boot(v) \/ InjectIrq(v) \/ LoadGuestTxt(v) \/ SaveReaderTxt(v)
       \/ LeaveLoop(v) \/ Report(v) \/ ReadInput(v)

VmStep(v) ==
    \/ GuestStep(v)
    \/ BufferIo(v)
    \/ Halt(v)
    \/ Crash(v)
    \/ Ends(v, AbortSharedBuffer(v))

Disturb(v) ==
    \/ InputEnds(v)
    \/ VmFails(v)
    \/ Ends(v, SpuriousWakeup(v))

MainStep ==
    \/ CreateThread
    \/ \E v \in VMs : JoinThread(v)
    \/ MainReturns

MainDisturbed ==
    \/ CreateThreadFails
    \/ \E v \in VMs : JoinThreadFails(v)

(* The process ends with main, whatever threads are left. *)
Returned == main.phase = "exited" /\ UNCHANGED hvVars

HvNext ==
    \/ /\ main.phase # "exited"
       /\ \/ \E v \in VMs : VmStep(v) \/ Disturb(v)
          \/ MainStep
          \/ MainDisturbed
    \/ Returned

HvSpec == HvInit /\ [][HvNext]_hvVars

(* Every thread is scheduled, KVM runs the guest, and a read of the serial *)
(* input returns: a character or the end of the input.                     *)
HvFairness ==
    /\ \A v \in VMs : WF_hvVars(main.phase # "exited" /\ VmStep(v))
    /\ WF_hvVars(MainStep)

HvFairSpec == HvSpec /\ HvFairness
---------------------------------------------------------------------------
HvTypeOK ==
    /\ TypeOK
    /\ main \in [phase : {"create", "join", "exited"}, created : 0..Len(Order),
                 joined : 0..Len(Order), ok : BOOLEAN]
    /\ guest \in [VMs -> GuestType]
    /\ guestTxt \in Texts
    /\ readerTxt \in [Readers -> Seq(Byte)]

(* What the writer sends is what a reader should end up with. *)
WrittenText == Slice(guestTxt, 0, BufferSize)

(* EXIT_SUCCESS means that every VM was created and halted after its       *)
(* transfer, and that every reader holds what the writer read from         *)
(* guest.txt, cut to BUFFER_SIZE.                                          *)
SuccessIsComplete ==
    main.phase = "exited" /\ main.ok =>
        /\ \A v \in VMs : thread[v] = "succeeded"
        /\ \A r \in Readers : guest[r].buffer = WrittenText

(* transferCompleted is set once and never reset, and hlt looks at nothing *)
(* else; with the shipped guest that is enough: a writer that has          *)
(* succeeded leaves no round open, and a reader no generation unread or    *)
(* unacknowledged, so nobody is left waiting for it.                       *)
SuccessOwesNothing ==
    /\ thread[Writer] = "succeeded" => ~state.roundInProgress
    /\ \A r \in Readers : thread[r] = "succeeded" =>
         ~UnfinishedRead(r) /\ ctx[r].lastReadGeneration = state.generation

(* The shipped guests under the runner are one of the guests OrderedSpec   *)
(* allows, so every theorem about OrderedSpec holds of a real run.         *)
ImplementsSharedBuffer == OrderedSpec

(* Without faults the two sides of the port protocol never disagree: no    *)
(* access of the shipped guest is refused by a handler, however the VMs    *)
(* interleave.                                                             *)
NoRefusal == Faults = {} => \A v \in VMs : thread[v] \notin {"failing", "failed"}

(* README: the received data is saved as reader.txt. *)
ReaderTxtIsReceived ==
    \A r \in Readers : thread[r] = "succeeded" => readerTxt[r] = guest[r].buffer

(* Whatever fails, main returns: no VM waits for a VM that is gone. *)
MainEventuallyReturns == <>(main.phase = "exited")

(* Without faults main returns EXIT_SUCCESS. *)
CleanRunSucceeds == <>(main.phase = "exited" /\ main.ok)
=============================================================================
