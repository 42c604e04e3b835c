---------------------------- MODULE HypervisorProofs ----------------------------
(***************************************************************************)
(* Proofs about Hypervisor, for any number of VMs, any buffer size, any    *)
(* texts and any of the faults.  The inductive invariant follows the guest *)
(* program: at each point of irq0_handler it says what the host holds of   *)
(* the VM (Writing, Reading), which is why the shipped guest keeps to the  *)
(* order that OrderedSpec asks of a guest, and starts a single round.      *)
(***************************************************************************)
EXTENDS Hypervisor, BroadcastProofs

USE DEF VMs

(* How far a guest has come: before its mode, between the two interrupts,  *)
(* at a point of the second one, after it.                                 *)
NoMode(g) ==
    /\ ~g.mode_initialized /\ ~g.transfer_finished
    /\ \/ g.pc \in {"new", "boot", "spin"} /\ g.interruptCount = 2
       \/ g.pc = "mode" /\ g.interruptCount = 1
Idle(g) ==
    g.mode_initialized /\ ~g.transfer_finished /\ g.pc = "spin" /\ g.interruptCount = 1
Busy(g, pc) ==
    g.mode_initialized /\ ~g.transfer_finished /\ g.pc = pc /\ g.interruptCount = 0
Done(g) ==
    /\ g.mode_initialized /\ g.transfer_finished /\ g.interruptCount = 0
    /\ g.pc \in {"spin", "report", "input", "halt"}
    /\ g.pc \in {"input", "halt"} => g.transfer_succeeded

(* The writer's guest g, and what the host has of its round. *)
NoRound == state.generation = 0 /\ ~state.dataReady /\ ~state.roundInProgress
Announced(g) == state.roundInProgress /\ state.expectedBytes = g.count
Published == state.generation = 1 /\ state.dataReady
Loaded(g) ==
    /\ g.count = Len(g.buffer) /\ g.count <= BufferSize + 1
    /\ g.fileOk => g.buffer = Slice(guestTxt, 0, BufferSize + 1)
    /\ Faults = {} => g.fileOk
NotSending(g) == (NoMode(g) \/ Idle(g) \/ Busy(g, "load")) /\ g.sent = 0 /\ NoRound
Announcing(g) == Busy(g, "size") /\ g.sent = 0 /\ Loaded(g) /\ NoRound
Sending(g) ==
    /\ Busy(g, "send") /\ Loaded(g) /\ Announced(g)
    /\ state.generation = 0 /\ ~state.dataReady
    /\ state.receivedBytes = g.sent /\ g.sent < g.count
    /\ sent = SubSeq(g.buffer, 1, g.sent)
Finishing(g, c) ==
    /\ Busy(g, "final") /\ Loaded(g) /\ Announced(g) /\ Published
    /\ sent = g.buffer /\ c.writeGeneration = 1
HasSent(g, c) ==
    /\ Done(g) /\ Loaded(g) /\ Published /\ ~state.roundInProgress
    /\ sent = g.buffer /\ c.transferCompleted
    /\ g.transfer_succeeded => g.fileOk
    /\ Faults = {} => g.transfer_succeeded
Writing(g, c) ==
    NotSending(g) \/ Announcing(g) \/ Sending(g) \/ Finishing(g, c) \/ HasSent(g, c)

(* The guest g of reader r, and what the host has of its read. *)
NotReading(g, c) ==
    /\ NoMode(g) \/ Idle(g) \/ Busy(g, "fetch")
    /\ g.buffer = <<>> /\ c.activeReadGeneration = 0 /\ c.lastReadGeneration = 0
HasSize(r, g, c) ==
    /\ Published
    /\ c.activeReadGeneration = 1 /\ c.lastReadGeneration = 0 /\ ~c.readCompleted
    /\ g.count = state.size /\ Len(g.buffer) = c.readOffset /\ g.buffer = received[r]
Receiving(r, g, c) == Busy(g, "recv") /\ HasSize(r, g, c) /\ c.readOffset < g.count
Acknowledging(r, g, c) == Busy(g, "ack") /\ HasSize(r, g, c) /\ c.readOffset = g.count
HasRead(r, g, c) ==
    /\ Busy(g, "save") \/ Done(g)
    /\ Published /\ c.activeReadGeneration = 1 /\ c.lastReadGeneration = 1
    /\ c.readCompleted /\ c.transferCompleted /\ g.buffer = received[r]
    /\ Faults = {} /\ Done(g) => g.transfer_succeeded
Reading(r, g, c) ==
    NotReading(g, c) \/ Receiving(r, g, c) \/ Acknowledging(r, g, c) \/ HasRead(r, g, c)

(* The mode a guest has is the one the host delivered. *)
Mode(v, g, c) ==
    /\ c.modeDelivered = g.mode_initialized
    /\ g.mode_initialized => g.vm_mode = IF v = Writer THEN 1 ELSE 0
Modes == \A v \in VMs : Mode(v, guest[v], ctx[v])
Readings == \A r \in Readers : Reading(r, guest[r], ctx[r])
Guests == Modes /\ Writing(guest[Writer], ctx[Writer]) /\ Readings

(* Where main is, and what it has been told. *)
MainControl ==
    /\ main.joined <= main.created
    /\ main.phase = "create" => main.created < Len(Order)
    /\ main.ok /\ main.phase # "create" => main.created = Len(Order)
    /\ main.phase = "exited" => main.joined = main.created
    /\ \A i \in 1..Len(Order) : i > main.created => guest[Order[i]].pc = "new"
Results ==
    /\ main.ok => \A i \in 1..main.joined : thread[Order[i]] = "succeeded"
    /\ \A v \in VMs : thread[v] = "succeeded" => guest[v].pc = "halt"

(* Without faults nothing is refused. *)
Clean == Faults = {} => ~state.stopped /\ NoRefusal

Buffer == TypeOK /\ NoLostWakeup /\ RoundContents /\ RoundProtocol
IInv == HvTypeOK /\ Buffer /\ Guests /\ MainControl /\ Results /\ Clean
---------------------------------------------------------------------------
(* The guest program asks for the handlers in the order of its points.     *)

(* The points at which a guest accesses the shared buffer, and the handler *)
(* of each. *)
IoPoints == {"mode", "size", "send", "final", "fetch", "recv", "ack"}
HandlerAt(pc) ==
    CASE pc = "mode" -> "deliverMode"
      [] pc = "size" -> "beginWriterRound"
      [] pc = "send" -> "writeSharedByte"
      [] pc = "final" -> "finishWriterRound"
      [] pc = "fetch" -> "beginReaderRound"
      [] pc = "recv" -> "readSharedByte"
      [] pc = "ack" -> "finishReaderRound"

(* Who can be where. *)
LEMMA WriterPoints ==
    ASSUME Guests, guest[Writer].pc \in IoPoints \cup {"giveup"}
    PROVE  /\ guest[Writer].pc \in {"mode", "size", "send", "final"}
           /\ ctx[Writer].modeDelivered <=> guest[Writer].pc # "mode"
           /\ guest[Writer].pc = "size" => Announcing(guest[Writer])
           /\ guest[Writer].pc = "send" => Sending(guest[Writer])
           /\ guest[Writer].pc = "final" => Finishing(guest[Writer], ctx[Writer])
           /\ guest[Writer].pc = "mode" => NotSending(guest[Writer])
  BY DEF Guests, Modes, Mode, Writing, NotSending, Announcing, Sending, Finishing, HasSent,
         NoMode, Idle, Busy, Done, IoPoints

LEMMA ReaderPoints ==
    ASSUME Guests, NEW r \in Readers, guest[r].pc \in IoPoints \cup {"giveup"}
    PROVE  /\ guest[r].pc \in {"mode", "fetch", "recv", "ack"}
           /\ ctx[r].modeDelivered <=> guest[r].pc # "mode"
           /\ guest[r].pc \in {"mode", "fetch"} => NotReading(guest[r], ctx[r])
           /\ guest[r].pc = "recv" => Receiving(r, guest[r], ctx[r])
           /\ guest[r].pc = "ack" => Acknowledging(r, guest[r], ctx[r])
<1>1. Reading(r, guest[r], ctx[r]) /\ Mode(r, guest[r], ctx[r])
  BY DEF Guests, Modes, Readings
<1> QED
  BY <1>1 DEF Mode, Reading, NotReading, Receiving, Acknowledging, HasRead,
         NoMode, Idle, Busy, Done, IoPoints

(* What the guest issues is an access the hypervisor knows. *)
LEMMA IssuedIo ==
    ASSUME HvTypeOK, Guests, NEW v \in VMs, guest[v].pc \in IoPoints \cup {"giveup"}
    PROVE  /\ NextIo(guest[v]) \in Io
           /\ guest[v].pc \in IoPoints
           /\ Handler(v, NextIo(guest[v])) = HandlerAt(guest[v].pc)
<1> DEFINE g == guest[v]
<1>1. g \in GuestType /\ BufferSize \in Nat /\ MaxRequest \in Nat /\ BufferSize + 1 <= MaxRequest
  BY HypervisorAssumption, ConstantsAssumption DEF HvTypeOK
<1>2. CASE v = Writer
  <2>1. CASE g.pc = "mode"
    BY <1>2, <2>1, WriterPoints, ConstantsAssumption
       DEF NextIo, Handler, ModeHandler, HandlerAt, IoPoints, In, Io, Ports
  <2>2. CASE g.pc = "size"
    <3>1. g.count \in 0..MaxRequest
      BY <1>1, <1>2, <2>2, WriterPoints DEF Announcing, Loaded, GuestType
    <3>2. NextIo(g) = Out("data", 4, g.count) /\ ctx[v].modeDelivered
      BY <1>2, <2>2, WriterPoints DEF NextIo
    <3> QED  BY <1>2, <2>2, <3>1, <3>2
                DEF Handler, WriterHandler, HandlerAt, IoPoints, Out, Io, Ports
  <2>3. CASE g.pc = "send"
    <3>1. g.buffer[g.sent + 1] \in Byte
      <4>1. /\ g.buffer \in Seq(Byte) /\ g.sent \in Nat /\ Len(g.buffer) \in Nat
            /\ g.sent < Len(g.buffer)
        BY <1>1, <1>2, <2>3, WriterPoints DEF Sending, Loaded, GuestType
      <4> HIDE DEF g
      <4>2. g.sent + 1 \in 1..Len(g.buffer)
        BY <4>1
      <4> QED  BY <4>1, <4>2, ElementOfSeq
    <3>2. NextIo(g) = Out("data", 1, g.buffer[g.sent + 1]) /\ ctx[v].modeDelivered
      BY <1>2, <2>3, WriterPoints DEF NextIo
    <3> QED  BY <1>2, <2>3, <3>1, <3>2
                DEF Handler, WriterHandler, HandlerAt, IoPoints, Out, Io, Ports
  <2>4. CASE g.pc = "final"
    BY <1>2, <2>4, WriterPoints
       DEF NextIo, Handler, WriterHandler, HandlerAt, IoPoints, In, Io, Ports
  <2> QED  BY <1>2, <2>1, <2>2, <2>3, <2>4, WriterPoints
<1>3. CASE v \in Readers /\ v # Writer
  <2>1. CASE g.pc = "mode"
    BY <1>3, <2>1, ReaderPoints
       DEF NextIo, Handler, ModeHandler, HandlerAt, IoPoints, In, Io, Ports
  <2>2. CASE g.pc = "fetch"
    BY <1>3, <2>2, ReaderPoints
       DEF NextIo, Handler, ReaderHandler, HandlerAt, IoPoints, In, Io, Ports
  <2>3. CASE g.pc = "recv"
    BY <1>3, <2>3, ReaderPoints
       DEF NextIo, Handler, ReaderHandler, HandlerAt, IoPoints, In, Io, Ports
  <2>4. CASE g.pc = "ack"
    <3>1. g.count \in 0..MaxRequest
      <4>1. g.count = state.size /\ state.size \in 0..BufferSize
        BY <1>3, <2>4, ReaderPoints DEF Acknowledging, HasSize, HvTypeOK, TypeOK, StateType
      <4> QED  BY <1>1, <4>1
    <3>2. NextIo(g) = Out("status", 4, g.count) /\ ctx[v].modeDelivered
      BY <1>3, <2>4, ReaderPoints DEF NextIo
    <3> QED  BY <1>3, <2>4, <3>1, <3>2
                DEF Handler, ReaderHandler, HandlerAt, IoPoints, Out, Io, Ports
  <2> QED  BY <1>3, <2>1, <2>2, <2>3, <2>4, ReaderPoints
<1> QED  BY <1>2, <1>3, ConstantsAssumption
---------------------------------------------------------------------------
(* Every step of the hypervisor is a step of OrderedNext, or none.         *)

LEMMA IssuedIsOrdered ==
    ASSUME HvTypeOK, Guests, NEW v \in VMs, guest[v].pc \in IoPoints
    PROVE  Ordered(v, NextIo(guest[v])) /\ WithinBound(v, NextIo(guest[v]))
<1> DEFINE io == NextIo(guest[v])
<1>1. Handler(v, io) = HandlerAt(guest[v].pc)
  BY IssuedIo
<1>2. CASE v = Writer
  <2>1. Ordered(v, io)
    BY <1>2, ConstantsAssumption DEF Ordered
  <2>2. guest[v].pc = "size" => state.generation = 0
    BY <1>2, WriterPoints DEF Announcing, NoRound
  <2>3. guest[v].pc \in {"mode", "send", "final"} => WriterHandler(io) # "beginWriterRound"
    BY DEF NextIo, WriterHandler, In, Out
  <2> QED
    BY <1>2, <2>1, <2>2, <2>3, WriterPoints, HypervisorAssumption, ConstantsAssumption
       DEF WithinBound
<1>3. CASE v \in Readers /\ v # Writer
  <2>1. guest[v].pc \in {"recv", "ack"} => UnfinishedRead(v)
    BY <1>3, ReaderPoints DEF Receiving, Acknowledging, HasSize, UnfinishedRead
  <2>2. guest[v].pc = "fetch" => ReaderHandler(io) = "beginReaderRound"
    BY DEF NextIo, ReaderHandler, In
  <2>3. guest[v].pc = "mode" => ~ctx[v].modeDelivered
    BY <1>3, ReaderPoints
  <2> QED  BY <1>3, <2>1, <2>2, <2>3, ReaderPoints DEF Ordered, WithinBound
<1> QED  BY <1>2, <1>3, ConstantsAssumption

(* An abort by main of a buffer that is stopped already changes nothing:   *)
(* nobody sleeps there. *)
LEMMA AbortByMainSteps ==
    ASSUME TypeOK, NoLostWakeup, AbortByMain
    PROVE  [OrderedNext]_vars
<1>1. CASE ~state.stopped
  BY <1>1 DEF AbortByMain, OrderedNext, MainAborts
<1>2. CASE state.stopped
  <2>1. waiting = {}
    BY <1>2 DEF NoLostWakeup, WakeCondition, HandlerReady
  <2>2. state' = state
    <3>1. state' = [state EXCEPT !.stopped = TRUE] /\ state.stopped = TRUE
      BY <1>2 DEF AbortByMain, Abort, TypeOK, StateType
    <3> QED  BY <3>1 DEF TypeOK, StateType
  <2> QED  BY <2>1, <2>2 DEF AbortByMain, Abort, NotifyAll, vars
<1> QED  BY <1>1, <1>2

LEMMA BufferStep ==
    ASSUME HvTypeOK, Buffer, Guests, [HvNext]_hvVars
    PROVE  [OrderedNext]_vars
<1>1. ASSUME NEW v \in VMs, BufferIo(v)
      PROVE  OrderedNext
  <2>1. /\ Handle(v, NextIo(guest[v])) /\ NextIo(guest[v]) \in Io
        /\ guest[v].pc \in IoPoints
    BY <1>1, IssuedIo DEF BufferIo, IoPoints
  <2> QED  BY <2>1, IssuedIsOrdered DEF OrderedNext
<1>2. ASSUME NEW v \in VMs, Halt(v) \/ Crash(v) \/ Ends(v, AbortSharedBuffer(v)) \/ Disturb(v)
      PROVE  OrderedNext
  BY <1>2 DEF Halt, Crash, Ends, Disturb, InputEnds, VmFails, OrderedNext, Thread
<1>3. ASSUME NEW v \in VMs, GuestStep(v)
      PROVE  UNCHANGED vars
  BY <1>3 DEF GuestStep, Boot, InjectIrq, LoadGuestTxt, SaveReaderTxt, LeaveLoop, Report, ReadInput
<1>4. CASE MainStep
  BY <1>4 DEF MainStep, CreateThread, JoinThread, MainReturns
<1>5. CASE MainDisturbed
  BY <1>5, AbortByMainSteps DEF MainDisturbed, CreateThreadFails, JoinThreadFails, Buffer
<1>6. CASE Returned \/ UNCHANGED hvVars
  BY <1>6 DEF Returned, hvVars
<1> QED  BY <1>1, <1>2, <1>3, <1>4, <1>5, <1>6 DEF HvNext, VmStep

(* ... so what is proved of OrderedNext goes for it. *)
LEMMA BufferNext ==
    ASSUME HvTypeOK, Buffer, Guests, [HvNext]_hvVars
    PROVE  Buffer'
  BY BufferStep, OrderedStep, NextType, NextWakeup, NextContents, NextProtocol DEF Buffer
---------------------------------------------------------------------------
(* Types.                                                                  *)

(* A run of a handler for the guest fails, sleeps, or moves the guest on.  *)
Serves(v) ==
    LET g == guest[v] IN
    \/ g.pc = "mode" /\ DeliverMode(v, NextIo(g))
    \/ g.pc = "size" /\ OpenRound(v, g.count)
    \/ g.pc = "send" /\ MayWrite /\ TakeByte(v, g.buffer[g.sent + 1])
    \/ g.pc = "final" /\ CloseRound(v)
    \/ g.pc = "fetch" /\ FreshData(v) /\ StartReading(v)
    \/ g.pc = "recv" /\ MayRead(v) /\ GiveByte(v, state.data[ctx[v].readOffset])
    \/ g.pc = "ack" /\ MayAcknowledge(v, NextIo(g)) /\ Acknowledge(v)

LEMMA IoOutcome ==
    ASSUME HvTypeOK, Guests, NEW v \in VMs, BufferIo(v)
    PROVE  /\ UNCHANGED <<main, guestTxt, readerTxt>>
           /\ \/ (Fail(v) \/ Sleep(v, NextIo(guest[v]))) /\ guest' = guest
              \/ /\ Serves(v) /\ thread' = [thread EXCEPT ![v] = "guest"]
                 /\ guest' = [guest EXCEPT ![v] = AfterIo(guest[v], reply'[v])]
<1> DEFINE g == guest[v]
           io == NextIo(g)
<1>1. /\ Handle(v, io) /\ io \in Io /\ g.pc \in IoPoints /\ Handler(v, io) = HandlerAt(g.pc)
      /\ UNCHANGED <<main, guestTxt, readerTxt>>
      /\ Move(v, IF thread'[v] = "guest" THEN AfterIo(g, reply'[v]) ELSE g)
  BY IssuedIo DEF BufferIo, IoPoints
<1>2. thread \in [VMs -> ThreadType] /\ guest \in [VMs -> GuestType]
  BY DEF HvTypeOK, TypeOK
<1>3. CASE Fail(v) \/ Sleep(v, io)
  <2>1. thread'[v] # "guest"
    BY <1>2, <1>3 DEF Fail, Sleep
  <2>2. guest' = guest
    BY <1>1, <1>2, <2>1 DEF Move
  <2> QED  BY <1>1, <1>3, <2>2
<1>4. ASSUME Resume(v), Serves(v)
      PROVE  /\ Serves(v) /\ thread' = [thread EXCEPT ![v] = "guest"]
             /\ guest' = [guest EXCEPT ![v] = AfterIo(guest[v], reply'[v])]
  BY <1>1, <1>2, <1>4 DEF Resume, Move
<1>5. CASE DeliverMode(v, io)
  <2>1. g.pc = "mode"
    <3>1. Handler(v, io) = "deliverMode"
      BY <1>5 DEF DeliverMode, Runs
    <3> QED  BY <1>1, <3>1 DEF HandlerAt, IoPoints
  <2> QED  BY <1>1, <1>4, <1>5, <2>1 DEF Serves, DeliverMode
<1>6. CASE Handler(v, io) = "beginWriterRound" /\ OpenRound(v, io.val)
  <2>1. g.pc = "size"
    BY <1>1, <1>6 DEF HandlerAt, IoPoints
  <2>2. io.val = g.count
    BY <2>1 DEF NextIo, Out
  <2> QED  BY <1>1, <1>4, <1>6, <2>1, <2>2 DEF Serves, OpenRound
<1>7. CASE Handler(v, io) = "writeSharedByte" /\ MayWrite /\ TakeByte(v, io.val)
  <2>1. g.pc = "send"
    BY <1>1, <1>7 DEF HandlerAt, IoPoints
  <2>2. io.val = g.buffer[g.sent + 1]
    BY <2>1 DEF NextIo, Out
  <2> QED  BY <1>1, <1>4, <1>7, <2>1, <2>2 DEF Serves, TakeByte
<1>8. CASE Handler(v, io) = "finishWriterRound" /\ CloseRound(v)
  <2>1. g.pc = "final"
    BY <1>1, <1>8 DEF HandlerAt, IoPoints
  <2> QED  BY <1>1, <1>4, <1>8, <2>1 DEF Serves, CloseRound
<1>9. CASE Handler(v, io) = "beginReaderRound" /\ FreshData(v) /\ StartReading(v)
  <2>1. g.pc = "fetch"
    BY <1>1, <1>9 DEF HandlerAt, IoPoints
  <2> QED  BY <1>1, <1>4, <1>9, <2>1 DEF Serves, StartReading
<1>10. CASE /\ Handler(v, io) = "readSharedByte" /\ MayRead(v)
            /\ GiveByte(v, state.data[ctx[v].readOffset])
  <2>1. g.pc = "recv"
    BY <1>1, <1>10 DEF HandlerAt, IoPoints
  <2> QED  BY <1>1, <1>4, <1>10, <2>1 DEF Serves, GiveByte
<1>11. CASE Handler(v, io) = "finishReaderRound" /\ MayAcknowledge(v, io) /\ Acknowledge(v)
  <2>1. g.pc = "ack"
    BY <1>1, <1>11 DEF HandlerAt, IoPoints
  <2> QED  BY <1>1, <1>4, <1>11, <2>1 DEF Serves, Acknowledge
<1> QED
  BY <1>1, <1>3, <1>5, <1>6, <1>7, <1>8, <1>9, <1>10, <1>11, HandleCases

(* The guest of one VM moves on. *)
LEMMA OneGuest ==
    ASSUME guest \in [VMs -> GuestType], NEW v \in VMs, NEW g,
           guest' = [guest EXCEPT ![v] = g]
    PROVE  /\ guest'[v] = g /\ \A u \in VMs : u # v => guest'[u] = guest[u]
           /\ g \in GuestType => guest' \in [VMs -> GuestType]
  OBVIOUS

(* A byte that readSharedByte gives is one. *)
LEMMA GivenByte ==
    ASSUME TypeOK, NEW v \in VMs, MayRead(v)
    PROVE  state.data[ctx[v].readOffset] \in Byte
<1>1. state.data \in [0..(BufferSize - 1) -> Byte] /\ state.size \in 0..BufferSize
  BY DEF TypeOK, StateType
<1>2. ctx[v].readOffset \in Nat /\ ctx[v].readOffset < state.size
  BY DEF TypeOK, CtxType, MayRead
<1>3. ctx[v].readOffset \in 0..(BufferSize - 1)
  BY <1>1, <1>2, ConstantsAssumption
<1> QED  BY <1>1, <1>3

LEMMA AfterIoType ==
    ASSUME HvTypeOK, TypeOK', NEW v \in VMs, Serves(v)
    PROVE  AfterIo(guest[v], reply'[v]) \in GuestType
<1> DEFINE g == guest[v]
           value == reply'[v]
<1>1. g \in GuestType /\ value \in Nat /\ TypeOK
  BY DEF HvTypeOK, TypeOK
<1>2. g.pc \in {"mode", "size", "send", "final", "fetch", "recv", "ack"}
  BY DEF Serves
<1>3. g.pc = "recv" => value \in Byte
  <2>1. CASE g.pc = "recv"
    <3>1. MayRead(v) /\ reply' = [reply EXCEPT ![v] = state.data[ctx[v].readOffset]]
      BY <2>1 DEF Serves, GiveByte
    <3>2. state.data[ctx[v].readOffset] \in Byte /\ reply \in [VMs -> Nat]
      BY <1>1, <3>1, GivenByte DEF TypeOK
    <3> QED  BY <3>1, <3>2
  <2> QED  BY <2>1
<1> HIDE DEF g, value
<1>4. CASE g.pc = "recv"
  <2>1. Append(g.buffer, value) \in Seq(Byte)
    BY <1>1, <1>3, <1>4 DEF GuestType
  <2> QED  BY <1>1, <1>4, <2>1 DEF AfterIo, GuestType, g, value
<1>5. CASE g.pc = "send"
  <2>1. g.sent + 1 \in Nat
    BY <1>1 DEF GuestType
  <2> QED  BY <1>1, <1>5, <2>1 DEF AfterIo, GuestType, g, value
<1>6. CASE g.pc \in {"mode", "size", "final", "fetch", "ack"}
  BY <1>1, <1>6 DEF AfterIo, GuestType, g, value
<1> QED  BY <1>2, <1>4, <1>5, <1>6
(* What a write leaves in a file. *)
LEMMA OverlayIsSeq ==
    ASSUME NEW s \in Seq(Byte), NEW offset \in Nat, NEW data \in Seq(Byte)
    PROVE  /\ Overlay(s, offset, data) \in Seq(Byte)
           /\ Len(Overlay(s, offset, data)) = Larger(Len(s), offset + Len(data))
<1> DEFINE m == Larger(Len(s), offset + Len(data))
           Value(i) == IF i \in (offset + 1)..(offset + Len(data)) THEN data[i - offset]
                       ELSE IF i <= Len(s) THEN s[i] ELSE 0
<1>1. Len(s) \in Nat /\ Len(data) \in Nat
  OBVIOUS
<1>2. m \in Nat
  BY <1>1 DEF Larger
<1>3. ASSUME NEW i \in 1..m PROVE Value(i) \in Byte
  <2>1. CASE i \in (offset + 1)..(offset + Len(data))
    <3>1. i - offset \in 1..Len(data)
      BY <1>1, <1>2, <2>1
    <3> QED  BY <2>1, <3>1, ElementOfSeq
  <2>2. CASE i \notin (offset + 1)..(offset + Len(data)) /\ i <= Len(s)
    <3>1. i \in 1..Len(s)
      BY <1>1, <1>2, <2>2
    <3> QED  BY <2>2, <3>1, ElementOfSeq
  <2>3. CASE i \notin (offset + 1)..(offset + Len(data)) /\ ~(i <= Len(s))
    BY <2>3, ConstantsAssumption
  <2> QED  BY <2>1, <2>2, <2>3
<1>4. Overlay(s, offset, data) = [i \in 1..m |-> Value(i)]
  BY DEF Overlay
<1> HIDE DEF m, Value
<1>5. [i \in 1..m |-> Value(i)] \in [1..m -> Byte]
  BY <1>3
<1>6. [i \in 1..m |-> Value(i)] \in Seq(Byte) /\ Len([i \in 1..m |-> Value(i)]) = m
  BY <1>2, <1>3, IsASeq
<1> QED  BY <1>4, <1>6 DEF m

(* What a read returns. *)
LEMMA SliceIsSeq ==
    ASSUME NEW s \in Seq(Byte), NEW offset \in Nat, NEW count \in Nat
    PROVE  /\ Slice(s, offset, count) \in Seq(Byte)
           /\ Len(Slice(s, offset, count)) <= count
<1> DEFINE n == Smaller(offset + count, Len(s))
<1>1. Len(s) \in Nat
  OBVIOUS
<1>2. n \in Nat /\ n <= Len(s)
  BY <1>1 DEF Smaller
<1>3. Slice(s, offset, count) = SubSeq(s, offset + 1, n)
  BY DEF Slice
<1>4. CASE offset + 1 <= n
  <2>1. SubSeq(s, offset + 1, n) \in Seq(Byte) /\ Len(SubSeq(s, offset + 1, n)) = n - offset
    BY <1>1, <1>2, <1>4, SubSeqProperties
  <2> QED  BY <1>1, <1>2, <1>3, <1>4, <2>1 DEF Smaller
<1>5. CASE ~(offset + 1 <= n)
  <2>1. SubSeq(s, offset + 1, n) = <<>>
    BY <1>1, <1>2, <1>5, SubSeqEmpty
  <2>2. Len(SubSeq(s, offset + 1, n)) = 0 /\ SubSeq(s, offset + 1, n) \in Seq(Byte)
    BY <2>1, EmptySeq
  <2> QED  BY <1>1, <1>2, <1>3, <2>2 DEF Smaller
<1> QED  BY <1>4, <1>5

(* The files of the guests hold bytes. *)
LEMMA TextType ==
    ASSUME NEW text \in Texts
    PROVE  text \in Seq(Byte)
  BY HypervisorAssumption

(* What the guest reads of guest.txt. *)
LEMMA LoadedType ==
    ASSUME guestTxt \in Texts
    PROVE  /\ Slice(guestTxt, 0, BufferSize + 1) \in Seq(Byte)
           /\ Len(Slice(guestTxt, 0, BufferSize + 1)) <= BufferSize + 1
<1>1. guestTxt \in Seq(Byte) /\ 0 \in Nat /\ BufferSize + 1 \in Nat
  BY TextType, ConstantsAssumption
<1> QED  BY <1>1, SliceIsSeq

LEMMA GuestStepType ==
    ASSUME HvTypeOK, Guests, NEW v \in VMs, GuestStep(v)
    PROVE  guest' \in [VMs -> GuestType] /\ readerTxt' \in [Readers -> Seq(Byte)]
<1> DEFINE g == guest[v]
<1>1. guest \in [VMs -> GuestType] /\ g \in GuestType /\ readerTxt \in [Readers -> Seq(Byte)]
  BY DEF HvTypeOK
<1>2. CASE Boot(v) \/ LeaveLoop(v) \/ Report(v) \/ ReadInput(v)
  <2>1. PICK pc \in {"spin", "report", "input", "halt"} :
            guest' = [guest EXCEPT ![v] = [g EXCEPT !.pc = pc]]
    BY <1>2 DEF Boot, LeaveLoop, Report, ReadInput, Move
  <2>2. [g EXCEPT !.pc = pc] \in GuestType
    BY <1>1 DEF GuestType
  <2> QED  BY <1>1, <1>2, <2>1, <2>2, OneGuest DEF Boot, LeaveLoop, Report, ReadInput
<1>3. CASE InjectIrq(v)
  <2> DEFINE pc == IF ~g.mode_initialized THEN "mode" ELSE IF g.vm_mode = 1 THEN "load" ELSE "fetch"
  <2>1. guest' = [guest EXCEPT ![v] = [g EXCEPT !.interruptCount = @ - 1, !.pc = pc]]
    BY <1>3 DEF InjectIrq, Move
  <2>2. g.interruptCount \in 0..2 /\ g.interruptCount > 0 /\ pc \in {"mode", "load", "fetch"}
    BY <1>1, <1>3 DEF InjectIrq, GuestType, IRQ_COUNT
  <2>3. g.interruptCount - 1 \in 0..2
    BY <2>2
  <2>4. [g EXCEPT !.interruptCount = @ - 1, !.pc = pc] \in GuestType
    BY <1>1, <2>2, <2>3 DEF GuestType, IRQ_COUNT
  <2> QED  BY <1>1, <1>3, <2>1, <2>4, OneGuest DEF InjectIrq
<1>4. CASE LoadGuestTxt(v)
  <2>1. PICK ok \in FileOutcomes, readOk \in FileOutcomes :
            LET text == IF readOk THEN Slice(guestTxt, 0, BufferSize + 1) ELSE <<>> IN
            guest' = [guest EXCEPT ![v] =
                        [g EXCEPT !.pc = "size", !.buffer = text, !.count = Len(text),
                                  !.fileOk = ok /\ readOk]]
    BY <1>4 DEF LoadGuestTxt, Move
  <2> DEFINE text == IF readOk THEN Slice(guestTxt, 0, BufferSize + 1) ELSE <<>>
  <2>2. text \in Seq(Byte)
    BY LoadedType DEF HvTypeOK
  <2>3. Len(text) \in Nat /\ (ok /\ readOk) \in BOOLEAN
    BY <2>2 DEF FileOutcomes
  <2>4. guest' = [guest EXCEPT ![v] =
                        [g EXCEPT !.pc = "size", !.buffer = text, !.count = Len(text),
                                  !.fileOk = ok /\ readOk]]
    BY <2>1
  <2> HIDE DEF text
  <2>5. [g EXCEPT !.pc = "size", !.buffer = text, !.count = Len(text),
                  !.fileOk = ok /\ readOk] \in GuestType
    BY <1>1, <2>2, <2>3 DEF GuestType
  <2> QED  BY <1>1, <1>4, <2>4, <2>5, OneGuest DEF LoadGuestTxt
<1>5. CASE SaveReaderTxt(v)
  <2>1. PICK ok \in FileOutcomes, writeOk \in FileOutcomes :
            /\ readerTxt' = IF writeOk /\ g.buffer # <<>>
                            THEN [readerTxt EXCEPT ![v] = Overlay(@, 0, g.buffer)]
                            ELSE readerTxt
            /\ guest' = [guest EXCEPT ![v] =
                           [g EXCEPT !.pc = "spin", !.transfer_finished = TRUE,
                                     !.transfer_succeeded = ok /\ writeOk]]
    BY <1>5 DEF SaveReaderTxt, Move
  <2>2. (ok /\ writeOk) \in BOOLEAN
    BY DEF FileOutcomes
  <2>3. [g EXCEPT !.pc = "spin", !.transfer_finished = TRUE,
                  !.transfer_succeeded = ok /\ writeOk] \in GuestType
    BY <1>1, <2>2 DEF GuestType
  <2>4. guest' \in [VMs -> GuestType]
    BY <1>1, <2>1, <2>3, OneGuest
  <2>5. ASSUME v \in Readers PROVE Overlay(readerTxt[v], 0, g.buffer) \in Seq(Byte)
    <3>1. readerTxt[v] \in Seq(Byte) /\ g.buffer \in Seq(Byte) /\ 0 \in Nat
      BY <1>1, <2>5 DEF GuestType
    <3> QED  BY <3>1, OverlayIsSeq
  <2>6. readerTxt' \in [Readers -> Seq(Byte)]
    BY <1>1, <2>1, <2>5
  <2> QED  BY <2>4, <2>6
<1> QED  BY <1>2, <1>3, <1>4, <1>5 DEF GuestStep

LEMMA HvTypeNext ==
    ASSUME HvTypeOK, Buffer, Guests, MainControl, [HvNext]_hvVars
    PROVE  HvTypeOK'
<1> DEFINE MainType == [phase : {"create", "join", "exited"}, created : 0..Len(Order),
                        joined : 0..Len(Order), ok : BOOLEAN]
<1>1. /\ TypeOK' /\ Len(Order) \in Nat /\ guestTxt \in Texts /\ main \in MainType
      /\ guest \in [VMs -> GuestType] /\ readerTxt \in [Readers -> Seq(Byte)]
  BY BufferNext, HypervisorAssumption DEF Buffer, HvTypeOK
<1>2. SUFFICES /\ main' \in MainType /\ guestTxt' = guestTxt
               /\ guest' \in [VMs -> GuestType] /\ readerTxt' \in [Readers -> Seq(Byte)]
  BY <1>1 DEF HvTypeOK
<1>3. ASSUME NEW v \in VMs, GuestStep(v)
      PROVE  main' = main /\ guestTxt' = guestTxt
  BY <1>3 DEF GuestStep, Boot, InjectIrq, LoadGuestTxt, SaveReaderTxt, LeaveLoop, Report, ReadInput
<1>4. ASSUME NEW v \in VMs, BufferIo(v)
      PROVE  guest' \in [VMs -> GuestType] /\ UNCHANGED <<main, guestTxt, readerTxt>>
  BY <1>1, <1>4, IoOutcome, AfterIoType, OneGuest
<1>5. ASSUME NEW v \in VMs, Halt(v) \/ Crash(v) \/ Ends(v, AbortSharedBuffer(v)) \/ Disturb(v)
      PROVE  UNCHANGED <<main, guest, guestTxt, readerTxt>>
  BY <1>5 DEF Halt, Crash, Ends, Disturb, InputEnds, VmFails
<1>6. CASE CreateThread
  <2>1. main.created \in Nat /\ main.created + 1 \in 1..Len(Order)
    BY <1>1, <1>6 DEF CreateThread, MainControl
  <2>2. Order[main.created + 1] \in VMs
    BY <2>1, HypervisorAssumption, ElementOfSeq
  <2>3. main' \in MainType
    <3> DEFINE next == IF main.created + 1 = Len(Order) THEN "join" ELSE main.phase
    <3>1. main' = [main EXCEPT !.created = main.created + 1, !.phase = next]
      BY <1>6 DEF CreateThread
    <3>2. next \in {"create", "join", "exited"} /\ main.created + 1 \in 0..Len(Order)
      BY <1>1, <2>1
    <3> HIDE DEF next
    <3> QED  BY <1>1, <3>1, <3>2
  <2>4. guest' \in [VMs -> GuestType]
    <3> DEFINE v == Order[main.created + 1]
    <3>1. guest' = [guest EXCEPT ![v] = [guest[v] EXCEPT !.pc = "boot"]]
      BY <1>6 DEF CreateThread
    <3>2. v \in VMs /\ guest[v] \in GuestType
      BY <1>1, <2>2
    <3> HIDE DEF v
    <3>3. [guest[v] EXCEPT !.pc = "boot"] \in GuestType
      BY <3>2 DEF GuestType
    <3> QED  BY <1>1, <3>1, <3>2, <3>3, OneGuest
  <2> QED  BY <1>1, <1>6, <2>3, <2>4 DEF CreateThread
<1>7. CASE CreateThreadFails \/ MainReturns
  BY <1>1, <1>7 DEF CreateThreadFails, MainReturns, AbortByMain
<1>8. ASSUME NEW v \in VMs, JoinThread(v) \/ JoinThreadFails(v)
      PROVE  main' \in MainType /\ UNCHANGED <<guest, guestTxt, readerTxt>>
  <2>1. main.joined + 1 \in 0..Len(Order)
    BY <1>1, <1>8 DEF JoinThread, JoinThreadFails, Joining
  <2> QED  BY <1>1, <1>8, <2>1 DEF JoinThread, JoinThreadFails, AbortByMain
<1>9. CASE Returned \/ UNCHANGED hvVars
  BY <1>1, <1>9 DEF Returned, hvVars
<1> QED
  BY <1>1, <1>3, <1>4, <1>5, <1>6, <1>7, <1>8, <1>9, GuestStepType
     DEF HvNext, VmStep, MainStep, MainDisturbed
---------------------------------------------------------------------------
(* The guests and the buffer stay in step.                                 *)

LEMMA WriterStays ==
    ASSUME Writing(guest[Writer], ctx[Writer]),
           guest'[Writer] = guest[Writer], ctx'[Writer] = ctx[Writer],
           guestTxt' = guestTxt, sent' = sent,
           state'.generation = state.generation, state'.dataReady = state.dataReady,
           state'.roundInProgress = state.roundInProgress,
           state'.expectedBytes = state.expectedBytes,
           state'.receivedBytes = state.receivedBytes
    PROVE  Writing(guest[Writer], ctx[Writer])'
  BY DEF Writing, NotSending, Announcing, Sending, Finishing, HasSent,
         Loaded, Announced, Published, NoRound, NoMode, Idle, Busy, Done

(* What a reader has does not change while the round it reads stays. *)
LEMMA ReaderStays ==
    ASSUME NEW r \in Readers, Reading(r, guest[r], ctx[r]),
           guest'[r] = guest[r], ctx'[r] = ctx[r], received'[r] = received[r],
           Published => Published' /\ state'.size = state.size
    PROVE  Reading(r, guest[r], ctx[r])'
  BY DEF Reading, NotReading, Receiving, Acknowledging, HasRead, HasSize,
         NoMode, Idle, Busy, Done

(* A step of v, for the others. *)
SameRound ==
    /\ sent' = sent /\ state'.size = state.size
    /\ state'.generation = state.generation /\ state'.dataReady = state.dataReady
    /\ state'.roundInProgress = state.roundInProgress
    /\ state'.expectedBytes = state.expectedBytes
    /\ state'.receivedBytes = state.receivedBytes
OthersKept(v) ==
    /\ guestTxt' = guestTxt
    /\ \A u \in VMs : u # v => guest'[u] = guest[u] /\ ctx'[u] = ctx[u]
    /\ \A r \in Readers : r # v => received'[r] = received[r]

LEMMA WriterMoves ==
    ASSUME Guests, OthersKept(Writer), Mode(Writer, guest[Writer], ctx[Writer])',
           Writing(guest[Writer], ctx[Writer])',
           Published => Published' /\ state'.size = state.size
    PROVE  Guests'
<1>1. \A r \in Readers : Reading(r, guest[r], ctx[r])'
  <2> TAKE r \in Readers
  <2>1. r # Writer /\ r \in VMs
    BY ConstantsAssumption
  <2>2. /\ Reading(r, guest[r], ctx[r])
        /\ guest'[r] = guest[r] /\ ctx'[r] = ctx[r] /\ received'[r] = received[r]
    BY <2>1 DEF OthersKept, Guests, Readings
  <2> QED  BY <2>2, ReaderStays
<1>2. \A u \in VMs : Mode(u, guest[u], ctx[u])'
  BY DEF Guests, Modes, Mode, OthersKept
<1> QED  BY <1>1, <1>2 DEF Guests, Modes, Readings

LEMMA ReaderMoves ==
    ASSUME Guests, NEW v \in Readers, OthersKept(v), Mode(v, guest[v], ctx[v])',
           Reading(v, guest[v], ctx[v])', SameRound
    PROVE  Guests'
<1>1. v # Writer
  BY ConstantsAssumption
<1>2. \A r \in Readers : Reading(r, guest[r], ctx[r])'
  <2> TAKE r \in Readers
  <2>1. CASE r # v
    <3>1. /\ Reading(r, guest[r], ctx[r])
          /\ guest'[r] = guest[r] /\ ctx'[r] = ctx[r] /\ received'[r] = received[r]
      BY <2>1 DEF OthersKept, Guests, Readings
    <3>2. Published => Published' /\ state'.size = state.size
      BY DEF Published, SameRound
    <3> QED  BY <3>1, <3>2, ReaderStays
  <2> QED  BY <2>1
<1>3. \A u \in VMs : Mode(u, guest[u], ctx[u])'
  BY DEF Guests, Modes, Mode, OthersKept
<1>4. Writing(guest[Writer], ctx[Writer])'
  <2>1. /\ guest'[Writer] = guest[Writer] /\ ctx'[Writer] = ctx[Writer] /\ guestTxt' = guestTxt
        /\ Writing(guest[Writer], ctx[Writer])
    BY <1>1 DEF OthersKept, Guests
  <2> QED  BY <2>1, WriterStays DEF SameRound
<1> QED  BY <1>2, <1>3, <1>4 DEF Guests, Modes, Readings

(* A step of no guest. *)
LEMMA NobodyMoves ==
    ASSUME Guests, UNCHANGED <<guest, guestTxt, ctx, received>>, SameRound
    PROVE  Guests'
<1>1. \A r \in Readers : Reading(r, guest[r], ctx[r])'
  <2> TAKE r \in Readers
  <2>1. Reading(r, guest[r], ctx[r])
    BY DEF Guests, Readings
  <2>2. Published => Published' /\ state'.size = state.size
    BY DEF Published, SameRound
  <2> QED  BY <2>1, <2>2, ReaderStays
<1>2. Modes'
  BY DEF Guests, Modes, Mode
<1>3. Writing(guest[Writer], ctx[Writer])'
  <2>1. Writing(guest[Writer], ctx[Writer])
    BY DEF Guests
  <2> QED  BY <2>1, WriterStays DEF SameRound
<1> QED  BY <1>1, <1>2, <1>3 DEF Guests, Readings

(* The steps of the guest program outside the buffer. *)
LEMMA GuestStepWriter ==
    ASSUME HvTypeOK, Guests, GuestStep(Writer)
    PROVE  Mode(Writer, guest[Writer], ctx[Writer])' /\ Writing(guest[Writer], ctx[Writer])'
<1> DEFINE g == guest[Writer]
           h == guest'[Writer]
<1>1. /\ guest \in [VMs -> GuestType] /\ g \in GuestType
      /\ Mode(Writer, g, ctx[Writer]) /\ Writing(g, ctx[Writer])
  BY DEF HvTypeOK, Guests, Modes
<1>2. UNCHANGED <<vars, guestTxt>>
  BY DEF GuestStep, Boot, InjectIrq, LoadGuestTxt, SaveReaderTxt, LeaveLoop, Report, ReadInput
<1> USE <1>1, <1>2 DEF vars, Mode, Writing, NotSending, Announcing, Sending, Finishing, HasSent,
                       Loaded, Announced, Published, NoRound, NoMode, Idle, Busy, Done
<1>3. CASE Boot(Writer)
  <2>1. g.pc = "boot" /\ h = [g EXCEPT !.pc = "spin"]
    BY <1>3 DEF Boot, InGuest, Move
  <2> QED  BY <2>1
<1>4. CASE InjectIrq(Writer)
  <2>1. /\ g.pc = "spin" /\ g.interruptCount > 0
        /\ h = [g EXCEPT !.interruptCount = @ - 1,
                  !.pc = IF ~g.mode_initialized THEN "mode"
                         ELSE IF g.vm_mode = 1 THEN "load" ELSE "fetch"]
    BY <1>4 DEF InjectIrq, InGuest, Move
  <2> QED  BY <2>1
<1>5. CASE LeaveLoop(Writer)
  <2>1. g.pc = "spin" /\ g.transfer_finished /\ h = [g EXCEPT !.pc = "report"]
    BY <1>5 DEF LeaveLoop, InGuest, Move
  <2> QED  BY <2>1
<1>6. CASE Report(Writer)
  <2>1. g.pc = "report" /\ g.transfer_succeeded /\ h = [g EXCEPT !.pc = "input"]
    BY <1>6 DEF Report, InGuest, Move
  <2> QED  BY <2>1
<1>7. CASE ReadInput(Writer)
  <2>1. g.pc = "input" /\ h = [g EXCEPT !.pc = "halt"]
    BY <1>7 DEF ReadInput, InGuest, Move
  <2> QED  BY <2>1
<1>8. CASE LoadGuestTxt(Writer)
  <2>1. PICK ok \in FileOutcomes, readOk \in FileOutcomes :
            LET text == IF readOk THEN Slice(guestTxt, 0, BufferSize + 1) ELSE <<>> IN
            h = [g EXCEPT !.pc = "size", !.buffer = text, !.count = Len(text),
                          !.fileOk = ok /\ readOk]
    BY <1>8 DEF LoadGuestTxt, Move
  <2> DEFINE text == IF readOk THEN Slice(guestTxt, 0, BufferSize + 1) ELSE <<>>
  <2>2. /\ Len(text) <= BufferSize + 1
        /\ ok /\ readOk => text = Slice(guestTxt, 0, BufferSize + 1)
        /\ Faults = {} => ok /\ readOk
    <3>1. Len(Slice(guestTxt, 0, BufferSize + 1)) <= BufferSize + 1
      BY LoadedType DEF HvTypeOK
    <3>2. Len(<<>>) = 0 /\ 0 <= BufferSize + 1
      BY ConstantsAssumption
    <3>3. Faults = {} => ok = TRUE /\ readOk = TRUE
      BY DEF FileOutcomes
    <3> QED  BY <3>1, <3>2, <3>3
  <2>3. h = [g EXCEPT !.pc = "size", !.buffer = text, !.count = Len(text),
                      !.fileOk = ok /\ readOk]
    BY <2>1
  <2>4. g.pc = "load"
    BY <1>8 DEF LoadGuestTxt, InGuest
  <2> HIDE DEF text
  <2>5. /\ h.pc = "size" /\ h.buffer = text /\ h.count = Len(text) /\ h.fileOk = (ok /\ readOk)
        /\ h.mode_initialized = g.mode_initialized /\ h.vm_mode = g.vm_mode /\ h.sent = g.sent
        /\ h.transfer_finished = g.transfer_finished /\ h.interruptCount = g.interruptCount
    BY <2>3 DEF GuestType
  <2>6. Mode(Writer, guest[Writer], ctx[Writer])'
    BY <2>5
  <2>7. Announcing(guest[Writer])'
    BY <2>2, <2>4, <2>5
  <2> QED  BY <2>6, <2>7
<1>9. g.pc # "save"
  OBVIOUS
<1>10. ~SaveReaderTxt(Writer)
  BY <1>9 DEF SaveReaderTxt, InGuest
<1> QED  BY <1>3, <1>4, <1>5, <1>6, <1>7, <1>8, <1>10 DEF GuestStep

LEMMA GuestStepReader ==
    ASSUME HvTypeOK, Guests, NEW v \in Readers, GuestStep(v)
    PROVE  Mode(v, guest[v], ctx[v])' /\ Reading(v, guest[v], ctx[v])'
<1> DEFINE g == guest[v]
           h == guest'[v]
<1>1. /\ guest \in [VMs -> GuestType] /\ g \in GuestType /\ v # Writer
      /\ Mode(v, g, ctx[v]) /\ Reading(v, g, ctx[v])
  BY ConstantsAssumption DEF HvTypeOK, Guests, Modes, Readings
<1>2. UNCHANGED <<vars, guestTxt>>
  BY DEF GuestStep, Boot, InjectIrq, LoadGuestTxt, SaveReaderTxt, LeaveLoop, Report, ReadInput
<1> USE <1>1, <1>2 DEF vars, Mode, Reading, NotReading, Receiving, Acknowledging, HasRead, HasSize,
                       Published, NoMode, Idle, Busy, Done
<1>3. CASE Boot(v)
  <2>1. g.pc = "boot" /\ h = [g EXCEPT !.pc = "spin"]
    BY <1>3 DEF Boot, InGuest, Move
  <2> QED  BY <2>1
<1>4. CASE InjectIrq(v)
  <2>1. /\ g.pc = "spin" /\ g.interruptCount > 0
        /\ h = [g EXCEPT !.interruptCount = @ - 1,
                  !.pc = IF ~g.mode_initialized THEN "mode"
                         ELSE IF g.vm_mode = 1 THEN "load" ELSE "fetch"]
    BY <1>4 DEF InjectIrq, InGuest, Move
  <2> QED  BY <2>1
<1>5. CASE LeaveLoop(v)
  <2>1. g.pc = "spin" /\ g.transfer_finished /\ h = [g EXCEPT !.pc = "report"]
    BY <1>5 DEF LeaveLoop, InGuest, Move
  <2> QED  BY <2>1
<1>6. CASE Report(v)
  <2>1. g.pc = "report" /\ g.transfer_succeeded /\ h = [g EXCEPT !.pc = "input"]
    BY <1>6 DEF Report, InGuest, Move
  <2> QED  BY <2>1
<1>7. CASE ReadInput(v)
  <2>1. g.pc = "input" /\ h = [g EXCEPT !.pc = "halt"]
    BY <1>7 DEF ReadInput, InGuest, Move
  <2> QED  BY <2>1
<1>8. CASE SaveReaderTxt(v)
  <2>1. PICK ok \in FileOutcomes, writeOk \in FileOutcomes :
            h = [g EXCEPT !.pc = "spin", !.transfer_finished = TRUE,
                          !.transfer_succeeded = ok /\ writeOk]
    BY <1>8 DEF SaveReaderTxt, Move
  <2>2. g.pc = "save" /\ (Faults = {} => ok = TRUE /\ writeOk = TRUE)
    BY <1>8 DEF SaveReaderTxt, InGuest, FileOutcomes
  <2>3. /\ h.pc = "spin" /\ h.transfer_finished = TRUE /\ h.transfer_succeeded = (ok /\ writeOk)
        /\ h.mode_initialized = g.mode_initialized /\ h.vm_mode = g.vm_mode
        /\ h.interruptCount = g.interruptCount /\ h.buffer = g.buffer
    BY <2>1 DEF GuestType
  <2>4. Mode(v, guest[v], ctx[v])'
    BY <2>3
  <2>5. HasRead(v, guest[v], ctx[v])'
    BY <2>2, <2>3
  <2> QED  BY <2>4, <2>5
<1>9. g.pc # "load"
  OBVIOUS
<1>10. ~LoadGuestTxt(v)
  BY <1>9 DEF LoadGuestTxt, InGuest
<1> QED  BY <1>3, <1>4, <1>5, <1>6, <1>7, <1>8, <1>10 DEF GuestStep

LEMMA GuestStepGuests ==
    ASSUME HvTypeOK, Guests, NEW v \in VMs, GuestStep(v)
    PROVE  Guests'
<1>1. UNCHANGED <<vars, guestTxt>>
  BY DEF GuestStep, Boot, InjectIrq, LoadGuestTxt, SaveReaderTxt, LeaveLoop, Report, ReadInput
<1>2. guest' = [guest EXCEPT ![v] = guest'[v]]
  BY DEF HvTypeOK, GuestStep, Boot, InjectIrq, LoadGuestTxt, SaveReaderTxt, LeaveLoop, Report,
         ReadInput, Move
<1>3. OthersKept(v) /\ SameRound
  BY <1>1, <1>2, OneGuest DEF OthersKept, SameRound, vars, HvTypeOK
<1>4. Published => Published' /\ state'.size = state.size
  BY <1>3 DEF Published, SameRound
<1>5. CASE v = Writer
  BY <1>3, <1>4, <1>5, GuestStepWriter, WriterMoves
<1>6. CASE v \in Readers
  BY <1>3, <1>6, GuestStepReader, ReaderMoves
<1> QED  BY <1>5, <1>6

(* main starts the thread of a VM that has not run yet. *)
LEMMA CreateGuests ==
    ASSUME HvTypeOK, Guests, MainControl, CreateThread
    PROVE  Guests'
<1>1. PICK v \in VMs : guest' = [guest EXCEPT ![v].pc = "boot"] /\ guest[v].pc = "new"
  <2>1. main.created \in Nat /\ main.created + 1 \in 1..Len(Order)
    BY HypervisorAssumption DEF CreateThread, MainControl, HvTypeOK
  <2>2. Order[main.created + 1] \in VMs /\ main.created + 1 > main.created
    BY <2>1, HypervisorAssumption, ElementOfSeq
  <2>3. guest[Order[main.created + 1]].pc = "new"
    BY <2>1, <2>2 DEF MainControl
  <2> QED  BY <2>2, <2>3 DEF CreateThread
<1>2. /\ guest \in [VMs -> GuestType] /\ guest[v] \in GuestType
      /\ guest' = [guest EXCEPT ![v] = [guest[v] EXCEPT !.pc = "boot"]]
      /\ UNCHANGED <<vars, guestTxt>>
  BY <1>1 DEF HvTypeOK, CreateThread
<1>3. guest'[v] = [guest[v] EXCEPT !.pc = "boot"]
  BY <1>2
<1>4. OthersKept(v) /\ SameRound
  BY <1>2, OneGuest DEF OthersKept, SameRound, vars
<1>5. Mode(v, guest[v], ctx[v])'
  BY <1>2, <1>3 DEF Mode, Guests, Modes, vars
<1>6. CASE v = Writer
  <2>1. Writing(guest[v], ctx[v])
    BY <1>6 DEF Guests
  <2>2. NotSending(guest[v])
    BY <1>1, <2>1 DEF Writing, Announcing, Sending, Finishing, HasSent, Busy, Done
  <2>3. NotSending(guest[v])'
    BY <1>1, <1>2, <1>3, <2>2 DEF NotSending, NoMode, Idle, Busy, NoRound, vars
  <2>4. Published => Published' /\ state'.size = state.size
    BY <1>4 DEF Published, SameRound
  <2> QED  BY <1>4, <1>5, <1>6, <2>3, <2>4, WriterMoves DEF Writing
<1>7. CASE v \in Readers
  <2>1. Reading(v, guest[v], ctx[v])
    BY <1>7 DEF Guests, Readings
  <2>2. NotReading(guest[v], ctx[v])
    BY <1>1, <2>1 DEF Reading, Receiving, Acknowledging, HasRead, Busy, Done
  <2>3. NotReading(guest[v], ctx[v])'
    BY <1>1, <1>2, <1>3, <2>2 DEF NotReading, NoMode, Idle, Busy, vars
  <2> QED  BY <1>4, <1>5, <1>7, <2>3, ReaderMoves DEF Reading
<1> QED  BY <1>6, <1>7
---------------------------------------------------------------------------
(* A run of a handler moves the host and the guest on together.            *)

Moves(v) == Serves(v) /\ guest' = [guest EXCEPT ![v] = AfterIo(guest[v], reply'[v])]

LEMMA MovesFrame ==
    ASSUME HvTypeOK, NEW v \in VMs, Moves(v), guestTxt' = guestTxt
    PROVE  OthersKept(v) /\ guest'[v] = AfterIo(guest[v], reply'[v])
<1>1. /\ guest \in [VMs -> GuestType] /\ ctx \in [VMs -> CtxType]
      /\ received \in [Readers -> Seq(Byte)]
  BY DEF HvTypeOK, TypeOK
<1>2. guest'[v] = AfterIo(guest[v], reply'[v]) /\ \A u \in VMs : u # v => guest'[u] = guest[u]
  BY <1>1, OneGuest DEF Moves
<1>3. \A u \in VMs : u # v => ctx'[u] = ctx[u]
  BY <1>1 DEF Moves, Serves, DeliverMode, OpenRound, TakeByte, CloseRound, StartReading, GiveByte,
              Acknowledge
<1>4. \A r \in Readers : r # v => received'[r] = received[r]
  BY <1>1 DEF Moves, Serves, DeliverMode, OpenRound, TakeByte, CloseRound, StartReading, GiveByte,
              Acknowledge
<1> QED  BY <1>2, <1>3, <1>4 DEF OthersKept

(* The mode, of either kind of guest. *)
LEMMA ModeGuests ==
    ASSUME HvTypeOK, Guests, NEW v \in VMs, Moves(v), guest[v].pc = "mode", guestTxt' = guestTxt
    PROVE  Guests'
<1> DEFINE g == guest[v]
           h == guest'[v]
<1>1. /\ OthersKept(v) /\ h = AfterIo(g, reply'[v]) /\ g \in GuestType
      /\ ctx \in [VMs -> CtxType] /\ reply \in [VMs -> Nat]
  BY MovesFrame DEF HvTypeOK, TypeOK
<1>2. DeliverMode(v, NextIo(g))
  BY DEF Moves, Serves
<1>3. /\ reply'[v] = (IF v = Writer THEN 1 ELSE 0)
      /\ UNCHANGED <<state, sent, received>>
      /\ ctx' = [ctx EXCEPT ![v].modeDelivered = TRUE]
  BY <1>1, <1>2 DEF DeliverMode
<1>4. SameRound
  BY <1>3 DEF SameRound
<1>5. /\ h.pc = "spin" /\ h.mode_initialized = TRUE /\ h.vm_mode = reply'[v]
      /\ h.transfer_finished = g.transfer_finished /\ h.interruptCount = g.interruptCount
      /\ h.buffer = g.buffer /\ h.sent = g.sent
  BY <1>1 DEF AfterIo, GuestType
<1>6. /\ ctx'[v].modeDelivered = TRUE
      /\ ctx'[v].activeReadGeneration = ctx[v].activeReadGeneration
      /\ ctx'[v].lastReadGeneration = ctx[v].lastReadGeneration
  BY <1>1, <1>3 DEF CtxType
<1>7. Mode(v, guest[v], ctx[v])'
  BY <1>3, <1>5, <1>6 DEF Mode
<1>8. CASE v = Writer
  <2>1. NotSending(g)
    BY <1>8, WriterPoints DEF IoPoints
  <2>2. NotSending(guest[v])'
    BY <1>3, <1>5, <2>1 DEF NotSending, NoMode, Idle, Busy, NoRound
  <2>3. Published => Published' /\ state'.size = state.size
    BY <1>3 DEF Published
  <2> QED  BY <1>1, <1>7, <1>8, <2>2, <2>3, WriterMoves DEF Writing
<1>9. CASE v \in Readers
  <2>1. NotReading(g, ctx[v])
    BY <1>9, ReaderPoints DEF IoPoints
  <2>2. NotReading(guest[v], ctx[v])'
    BY <1>5, <1>6, <2>1 DEF NotReading, NoMode, Idle, Busy
  <2> QED  BY <1>1, <1>4, <1>7, <1>9, <2>2, ReaderMoves DEF Reading
<1> QED  BY <1>8, <1>9

(* The writer announces its size. *)
LEMMA SizeGuests ==
    ASSUME HvTypeOK, Guests, NEW v \in VMs, Moves(v), guest[v].pc = "size", guestTxt' = guestTxt
    PROVE  Guests'
<1> DEFINE g == guest[v]
           h == guest'[v]
<1>1. /\ OthersKept(v) /\ h = AfterIo(g, reply'[v]) /\ g \in GuestType
      /\ ctx \in [VMs -> CtxType] /\ state \in StateType
  BY MovesFrame DEF HvTypeOK, TypeOK
<1>2. v = Writer /\ Announcing(g) /\ Mode(v, g, ctx[v])
  BY WriterPoints, ReaderPoints DEF IoPoints, Guests, Modes
<1>3. /\ g.count \in Nat /\ g.buffer \in Seq(Byte) /\ Loaded(g) /\ NoRound /\ g.sent = 0
      /\ g.count = Len(g.buffer)
  BY <1>1, <1>2 DEF Announcing, GuestType, Loaded
<1>4. OpenRound(v, g.count)
  BY DEF Moves, Serves
<1>5. /\ state'.expectedBytes = g.count /\ state'.receivedBytes = 0
      /\ state'.dataReady <=> g.count = 0
      /\ state'.roundInProgress
      /\ state'.generation = IF g.count = 0 THEN 1 ELSE 0
  BY <1>1, <1>3, <1>4, NewRoundFields DEF OpenRound, NoRound
<1>6. /\ sent' = <<>>
      /\ ctx'[v].writeGeneration = (IF state'.dataReady THEN state'.generation ELSE 0)
      /\ ctx'[v].modeDelivered = ctx[v].modeDelivered
  BY <1>1, <1>4 DEF OpenRound, CtxType
<1>7. /\ h.pc = (IF g.count = 0 THEN "final" ELSE "send")
      /\ h.mode_initialized = g.mode_initialized /\ h.vm_mode = g.vm_mode
      /\ h.transfer_finished = g.transfer_finished /\ h.interruptCount = g.interruptCount
      /\ h.buffer = g.buffer /\ h.sent = g.sent /\ h.count = g.count /\ h.fileOk = g.fileOk
  BY <1>1 DEF AfterIo, GuestType
<1>8. Mode(v, guest[v], ctx[v])' /\ Loaded(guest[v])' /\ Announced(guest[v])'
  BY <1>1, <1>2, <1>3, <1>5, <1>6, <1>7 DEF Mode, Loaded, Announced
<1>9. CASE g.count = 0
  <2>1. g.buffer = <<>>
    <3>1. g.buffer \in Seq(Byte) /\ Len(g.buffer) = 0
      BY <1>3, <1>9
    <3> HIDE DEF g
    <3> QED  BY <3>1, EmptySeq
  <2>2. Finishing(guest[v], ctx[v])'
    BY <1>2, <1>5, <1>6, <1>7, <1>8, <1>9, <2>1 DEF Finishing, Announcing, Busy, Published
  <2> QED  BY <1>1, <1>2, <1>3, <1>8, <2>2, WriterMoves DEF Writing, Published, NoRound
<1>10. CASE g.count # 0
  <2>1. SubSeq(g.buffer, 1, 0) = <<>>
    BY <1>3
  <2>2. Sending(guest[v])'
    BY <1>2, <1>3, <1>5, <1>6, <1>7, <1>8, <1>10, <2>1 DEF Sending, Announcing, Busy
  <2> QED  BY <1>1, <1>2, <1>3, <1>8, <2>2, WriterMoves DEF Writing, Published, NoRound
<1> QED  BY <1>9, <1>10

(* The writer sends a byte. *)
LEMMA SendGuests ==
    ASSUME HvTypeOK, Guests, NEW v \in VMs, Moves(v), guest[v].pc = "send", guestTxt' = guestTxt
    PROVE  Guests'
<1> DEFINE g == guest[v]
           h == guest'[v]
           b == g.buffer[g.sent + 1]
<1>1. /\ OthersKept(v) /\ h = AfterIo(g, reply'[v]) /\ g \in GuestType
      /\ ctx \in [VMs -> CtxType] /\ state \in StateType
  BY MovesFrame DEF HvTypeOK, TypeOK
<1>2. v = Writer /\ Sending(g) /\ Mode(v, g, ctx[v])
  BY WriterPoints, ReaderPoints DEF IoPoints, Guests, Modes
<1>3. /\ g.count \in Nat /\ g.buffer \in Seq(Byte) /\ g.sent \in Nat /\ Loaded(g)
      /\ g.count = Len(g.buffer) /\ g.sent < g.count
      /\ sent = SubSeq(g.buffer, 1, g.sent) /\ ~Published
  BY <1>1, <1>2 DEF Sending, GuestType, Loaded, Published
<1>4. MayWrite /\ TakeByte(v, b)
  BY DEF Moves, Serves
<1>5. b \in Byte
  <2>1. g.sent + 1 \in 1..Len(g.buffer)
    BY <1>3
  <2> QED  BY <1>3, <2>1, ElementOfSeq
<1>6. sent' = SubSeq(g.buffer, 1, g.sent + 1)
  <2>1. sent' = Append(SubSeq(g.buffer, 1, g.sent), b)
    BY <1>3, <1>4 DEF TakeByte
  <2> QED  BY <1>3, <2>1
<1>7. /\ state'.expectedBytes = g.count /\ state'.receivedBytes = g.sent + 1
      /\ state'.dataReady <=> g.sent + 1 = g.count
      /\ state'.roundInProgress
      /\ state'.generation = IF g.sent + 1 = g.count THEN 1 ELSE 0
  <2>1. /\ state.expectedBytes = g.count /\ state.receivedBytes = g.sent /\ state.roundInProgress
        /\ state.generation = 0 /\ ~state.dataReady /\ TypeOK
    BY <1>2 DEF Sending, Announced, HvTypeOK
  <2>2. state' = PublishIfComplete(Store(b))
    BY <1>4 DEF TakeByte
  <2> HIDE DEF b
  <2>3. /\ state'.expectedBytes = state.expectedBytes
        /\ state'.receivedBytes = state.receivedBytes + 1
        /\ state'.dataReady <=> state'.receivedBytes = state.expectedBytes
        /\ state'.generation = (IF state'.dataReady THEN state.generation + 1 ELSE state.generation)
        /\ state'.roundInProgress
    BY <1>1, <1>4, <1>5, <2>2, StoreFields
  <2> HIDE DEF g
  <2> QED  BY <2>1, <2>3
<1>8. /\ ctx'[v].writeGeneration = (IF state'.dataReady THEN state'.generation
                                   ELSE ctx[v].writeGeneration)
      /\ ctx'[v].modeDelivered = ctx[v].modeDelivered
  BY <1>1, <1>4 DEF TakeByte, CtxType
<1>9. /\ h.pc = (IF g.sent + 1 = g.count THEN "final" ELSE "send") /\ h.sent = g.sent + 1
      /\ h.mode_initialized = g.mode_initialized /\ h.vm_mode = g.vm_mode
      /\ h.transfer_finished = g.transfer_finished /\ h.interruptCount = g.interruptCount
      /\ h.buffer = g.buffer /\ h.count = g.count /\ h.fileOk = g.fileOk
  BY <1>1 DEF AfterIo, GuestType
<1>10. Mode(v, guest[v], ctx[v])' /\ Loaded(guest[v])' /\ Announced(guest[v])'
  BY <1>1, <1>2, <1>3, <1>7, <1>8, <1>9 DEF Mode, Loaded, Announced
<1>11. CASE g.sent + 1 = g.count
  <2>1. SubSeq(g.buffer, 1, g.sent + 1) = g.buffer
    BY <1>3, <1>11
  <2>2. Finishing(guest[v], ctx[v])'
    BY <1>2, <1>6, <1>7, <1>8, <1>9, <1>10, <1>11, <2>1
       DEF Finishing, Sending, Busy, Published
  <2> QED  BY <1>1, <1>2, <1>3, <1>10, <2>2, WriterMoves DEF Writing
<1>12. CASE g.sent + 1 # g.count
  <2>1. g.sent + 1 < g.count
    BY <1>3, <1>12
  <2>2. Sending(guest[v])'
    BY <1>2, <1>6, <1>7, <1>9, <1>10, <1>12, <2>1 DEF Sending, Busy
  <2> QED  BY <1>1, <1>2, <1>3, <1>10, <2>2, WriterMoves DEF Writing
<1> QED  BY <1>11, <1>12

(* The writer gets the final count. *)
LEMMA FinalGuests ==
    ASSUME HvTypeOK, Buffer, Guests, NEW v \in VMs, Moves(v), guest[v].pc = "final",
           guestTxt' = guestTxt
    PROVE  Guests'
<1> DEFINE g == guest[v]
           h == guest'[v]
<1>1. /\ OthersKept(v) /\ h = AfterIo(g, reply'[v]) /\ g \in GuestType
      /\ ctx \in [VMs -> CtxType] /\ state \in StateType /\ reply \in [VMs -> Nat]
  BY MovesFrame DEF HvTypeOK, TypeOK
<1>2. v = Writer /\ Finishing(g, ctx[v]) /\ Mode(v, g, ctx[v])
  BY WriterPoints, ReaderPoints DEF IoPoints, Guests, Modes
<1>3. CloseRound(v)
  BY DEF Moves, Serves
<1>4. state.size = Smaller(g.count, BufferSize)
  <2>1. state.size = StoredSize(g.count) /\ g.count \in Nat
    BY <1>1, <1>2 DEF Buffer, RoundContents, Finishing, Announced, GuestType
  <2> QED  BY <2>1, ConstantsAssumption DEF StoredSize, Smaller
<1>5. reply'[v] = Smaller(g.count, BufferSize)
  BY <1>1, <1>3, <1>4 DEF CloseRound
<1>6. /\ state'.generation = state.generation /\ state'.dataReady = state.dataReady
      /\ state'.size = state.size /\ state'.roundInProgress = FALSE /\ sent' = sent
      /\ ctx'[v].transferCompleted = TRUE /\ ctx'[v].modeDelivered = ctx[v].modeDelivered
  BY <1>1, <1>3 DEF CloseRound, StateType, CtxType
<1>7. /\ h.pc = "spin" /\ h.transfer_finished = TRUE /\ h.transfer_succeeded = g.fileOk
      /\ h.mode_initialized = g.mode_initialized /\ h.vm_mode = g.vm_mode
      /\ h.interruptCount = g.interruptCount /\ h.buffer = g.buffer
      /\ h.count = g.count /\ h.fileOk = g.fileOk
  BY <1>1, <1>5 DEF AfterIo, GuestType
<1>8. Mode(v, guest[v], ctx[v])' /\ Loaded(guest[v])'
  BY <1>1, <1>2, <1>6, <1>7 DEF Mode, Finishing, Loaded
<1>9. HasSent(guest[v], ctx[v])'
  BY <1>2, <1>6, <1>7, <1>8 DEF HasSent, Finishing, Loaded, Busy, Done, Published
<1>10. Published => Published' /\ state'.size = state.size
  BY <1>6 DEF Published
<1> QED  BY <1>1, <1>2, <1>8, <1>9, <1>10, WriterMoves DEF Writing

(* A reader gets the size. *)
LEMMA FetchGuests ==
    ASSUME HvTypeOK, Guests, NEW v \in VMs, Moves(v), guest[v].pc = "fetch", guestTxt' = guestTxt
    PROVE  Guests'
<1> DEFINE g == guest[v]
           h == guest'[v]
<1>1. /\ OthersKept(v) /\ h = AfterIo(g, reply'[v]) /\ g \in GuestType
      /\ ctx \in [VMs -> CtxType] /\ state \in StateType /\ reply \in [VMs -> Nat]
      /\ received \in [Readers -> Seq(Byte)]
  BY MovesFrame DEF HvTypeOK, TypeOK
<1>2. v \in Readers /\ NotReading(g, ctx[v]) /\ Mode(v, g, ctx[v])
  BY WriterPoints, ReaderPoints DEF IoPoints, Guests, Modes
<1>3. FreshData(v) /\ StartReading(v)
  BY DEF Moves, Serves
<1>4. Published
  BY <1>3 DEF Guests, Writing, NotSending, Announcing, Sending, Finishing, HasSent, NoRound,
              Published, FreshData
<1>5. /\ reply'[v] = state.size /\ state' = state /\ sent' = sent /\ received'[v] = <<>>
      /\ ctx'[v].readOffset = 0 /\ ctx'[v].activeReadGeneration = state.generation
      /\ ctx'[v].readCompleted = FALSE
      /\ ctx'[v].lastReadGeneration = ctx[v].lastReadGeneration
      /\ ctx'[v].modeDelivered = ctx[v].modeDelivered
  BY <1>1, <1>2, <1>3 DEF StartReading, CtxType
<1>6. state.size \in Nat /\ ~(state.size > BufferSize)
  BY <1>1, ConstantsAssumption DEF StateType
<1>7. /\ h.count = state.size /\ h.pc = (IF state.size = 0 THEN "ack" ELSE "recv")
      /\ h.mode_initialized = g.mode_initialized /\ h.vm_mode = g.vm_mode
      /\ h.transfer_finished = g.transfer_finished
      /\ h.interruptCount = g.interruptCount /\ h.buffer = g.buffer
  BY <1>1, <1>5, <1>6 DEF AfterIo, GuestType
<1>8. Mode(v, guest[v], ctx[v])' /\ SameRound
  BY <1>1, <1>2, <1>5, <1>7 DEF Mode, SameRound
<1>9. HasSize(v, guest[v], ctx[v])'
  <2>1. Len(<<>>) = 0 /\ g.buffer = <<>>
    BY <1>2 DEF NotReading
  <2> QED
    BY <1>2, <1>4, <1>5, <1>7, <2>1 DEF HasSize, Published, NotReading
<1>10. CASE state.size = 0
  <2>1. Acknowledging(v, guest[v], ctx[v])'
    BY <1>2, <1>5, <1>7, <1>9, <1>10 DEF Acknowledging, NotReading, Idle, NoMode, Busy
  <2> QED  BY <1>1, <1>2, <1>8, <2>1, ReaderMoves DEF Reading
<1>11. CASE state.size # 0
  <2>1. Receiving(v, guest[v], ctx[v])'
    BY <1>2, <1>5, <1>6, <1>7, <1>9, <1>11 DEF Receiving, NotReading, Idle, NoMode, Busy
  <2> QED  BY <1>1, <1>2, <1>8, <2>1, ReaderMoves DEF Reading
<1> QED  BY <1>10, <1>11

(* A reader gets a byte. *)
LEMMA RecvGuests ==
    ASSUME HvTypeOK, Guests, NEW v \in VMs, Moves(v), guest[v].pc = "recv", guestTxt' = guestTxt
    PROVE  Guests'
<1> DEFINE g == guest[v]
           h == guest'[v]
           b == state.data[ctx[v].readOffset]
<1>1. /\ OthersKept(v) /\ h = AfterIo(g, reply'[v]) /\ g \in GuestType
      /\ ctx \in [VMs -> CtxType] /\ state \in StateType /\ reply \in [VMs -> Nat]
      /\ received \in [Readers -> Seq(Byte)]
  BY MovesFrame DEF HvTypeOK, TypeOK
<1>2. v \in Readers /\ Receiving(v, g, ctx[v]) /\ Mode(v, g, ctx[v])
  BY WriterPoints, ReaderPoints DEF IoPoints, Guests, Modes
<1>3. MayRead(v) /\ GiveByte(v, b)
  BY DEF Moves, Serves
<1>4. b \in Byte /\ g.buffer \in Seq(Byte) /\ g.buffer = received[v]
      /\ ctx[v].readOffset \in Nat /\ g.count \in Nat /\ Len(g.buffer) = ctx[v].readOffset
      /\ ctx[v].readOffset < g.count
  BY <1>1, <1>2, <1>3, GivenByte DEF HvTypeOK, GuestType, CtxType, Receiving, HasSize
<1> HIDE DEF b
<1>5. /\ reply'[v] = b /\ state' = state /\ sent' = sent
      /\ received'[v] = Append(g.buffer, b)
      /\ ctx'[v].readOffset = ctx[v].readOffset + 1
      /\ ctx'[v].activeReadGeneration = ctx[v].activeReadGeneration
      /\ ctx'[v].lastReadGeneration = ctx[v].lastReadGeneration
      /\ ctx'[v].readCompleted = ctx[v].readCompleted
      /\ ctx'[v].modeDelivered = ctx[v].modeDelivered
  BY <1>1, <1>2, <1>3, <1>4 DEF GiveByte, CtxType
<1>6. /\ h.buffer = Append(g.buffer, b)
      /\ h.pc = (IF Len(g.buffer) + 1 = g.count THEN "ack" ELSE "recv")
      /\ h.count = g.count
      /\ h.mode_initialized = g.mode_initialized /\ h.vm_mode = g.vm_mode
      /\ h.transfer_finished = g.transfer_finished /\ h.interruptCount = g.interruptCount
  BY <1>1, <1>2, <1>5 DEF AfterIo, GuestType, Receiving, Busy
<1>7. Len(Append(g.buffer, b)) = ctx[v].readOffset + 1
  BY <1>4
<1>8. Mode(v, guest[v], ctx[v])' /\ SameRound
  BY <1>1, <1>2, <1>5, <1>6 DEF Mode, SameRound
<1>9. HasSize(v, guest[v], ctx[v])'
  BY <1>2, <1>5, <1>6, <1>7 DEF HasSize, Receiving, Published
<1>10. CASE ctx[v].readOffset + 1 = g.count
  <2>1. Acknowledging(v, guest[v], ctx[v])'
    BY <1>2, <1>4, <1>5, <1>6, <1>9, <1>10 DEF Acknowledging, Receiving, Busy
  <2> QED  BY <1>1, <1>2, <1>8, <2>1, ReaderMoves DEF Reading
<1>11. CASE ctx[v].readOffset + 1 # g.count
  <2>1. ctx[v].readOffset + 1 < g.count
    BY <1>4, <1>11
  <2>2. Receiving(v, guest[v], ctx[v])'
    BY <1>2, <1>4, <1>5, <1>6, <1>9, <1>11, <2>1 DEF Receiving, Busy
  <2> QED  BY <1>1, <1>2, <1>8, <2>2, ReaderMoves DEF Reading
<1> QED  BY <1>10, <1>11

(* A reader acknowledges. *)
LEMMA AckGuests ==
    ASSUME HvTypeOK, Guests, NEW v \in VMs, Moves(v), guest[v].pc = "ack", guestTxt' = guestTxt
    PROVE  Guests'
<1> DEFINE g == guest[v]
           h == guest'[v]
<1>1. /\ OthersKept(v) /\ h = AfterIo(g, reply'[v]) /\ g \in GuestType
      /\ ctx \in [VMs -> CtxType] /\ state \in StateType
  BY MovesFrame DEF HvTypeOK, TypeOK
<1>2. v \in Readers /\ Acknowledging(v, g, ctx[v]) /\ Mode(v, g, ctx[v])
  BY WriterPoints, ReaderPoints DEF IoPoints, Guests, Modes
<1>3. Acknowledge(v)
  BY DEF Moves, Serves
<1>4. /\ SameRound /\ received' = received
      /\ ctx'[v].activeReadGeneration = ctx[v].activeReadGeneration
      /\ ctx'[v].lastReadGeneration = ctx[v].activeReadGeneration
      /\ ctx'[v].readCompleted = TRUE /\ ctx'[v].transferCompleted = TRUE
      /\ ctx'[v].modeDelivered = ctx[v].modeDelivered
  BY <1>1, <1>3 DEF Acknowledge, CtxType, StateType, SameRound
<1>5. /\ h.pc = "save" /\ h.buffer = g.buffer
      /\ h.mode_initialized = g.mode_initialized /\ h.vm_mode = g.vm_mode
      /\ h.transfer_finished = g.transfer_finished /\ h.interruptCount = g.interruptCount
  BY <1>1 DEF AfterIo, GuestType
<1>6. Mode(v, guest[v], ctx[v])'
  BY <1>2, <1>4, <1>5 DEF Mode
<1>7. HasRead(v, guest[v], ctx[v])'
  BY <1>2, <1>4, <1>5
     DEF HasRead, Acknowledging, HasSize, Busy, Done, Published, SameRound
<1> QED  BY <1>1, <1>2, <1>4, <1>6, <1>7, ReaderMoves DEF Reading

LEMMA MovesGuests ==
    ASSUME HvTypeOK, Buffer, Guests, NEW v \in VMs, Moves(v), guestTxt' = guestTxt
    PROVE  Guests'
<1>1. guest[v].pc \in {"mode", "size", "send", "final", "fetch", "recv", "ack"}
  BY DEF Moves, Serves
<1> QED
  BY <1>1, ModeGuests, SizeGuests, SendGuests, FinalGuests, FetchGuests, RecvGuests, AckGuests

LEMMA GuestsNext ==
    ASSUME HvTypeOK, Buffer, Guests, MainControl, [HvNext]_hvVars
    PROVE  Guests'
<1>1. state \in StateType
  BY DEF HvTypeOK, TypeOK
<1>2. ASSUME UNCHANGED <<guest, guestTxt, ctx, received, sent>>,
             state' = state \/ state' = [state EXCEPT !.stopped = TRUE]
      PROVE  Guests'
  <2>1. SameRound
    BY <1>1, <1>2 DEF SameRound, StateType
  <2> QED  BY <1>2, <2>1, NobodyMoves
<1>3. ASSUME NEW v \in VMs, BufferIo(v)
      PROVE  Guests'
  <2>1. guestTxt' = guestTxt
    BY <1>3, IoOutcome
  <2>2. CASE (Fail(v) \/ Sleep(v, NextIo(guest[v]))) /\ guest' = guest
    BY <1>2, <2>1, <2>2 DEF Fail, Sleep
  <2>3. CASE Moves(v)
    BY <2>1, <2>3, MovesGuests
  <2> QED  BY <1>3, <2>2, <2>3, IoOutcome DEF Moves
<1>4. ASSUME NEW v \in VMs, Halt(v) \/ Crash(v) \/ Ends(v, AbortSharedBuffer(v)) \/ Disturb(v)
      PROVE  Guests'
  BY <1>2, <1>4 DEF Halt, Crash, Ends, Disturb, InputEnds, VmFails, GuestHalts, GuestFails, Fail,
                    AbortSharedBuffer, Abort, SpuriousWakeup
<1>5. CASE (\E v \in VMs : JoinThread(v) \/ JoinThreadFails(v)) \/ MainReturns \/ CreateThreadFails
  BY <1>2, <1>5 DEF JoinThread, JoinThreadFails, MainReturns, CreateThreadFails, AbortByMain, Abort,
                    vars
<1>6. CASE Returned \/ UNCHANGED hvVars
  BY <1>2, <1>6 DEF Returned, hvVars, vars
<1> QED
  BY <1>3, <1>4, <1>5, <1>6, GuestStepGuests, CreateGuests
     DEF HvNext, VmStep, MainStep, MainDisturbed
---------------------------------------------------------------------------
(* main and its threads.                                                   *)

(* What a step may do to a thread that has succeeded, and to a guest that  *)
(* is not running: nothing. *)
LEMMA ThreadStep ==
    ASSUME HvTypeOK, Guests, NEW v \in VMs, VmStep(v) \/ Disturb(v)
    PROVE  /\ main' = main
           /\ \A u \in VMs : u # v => guest'[u] = guest[u] /\ thread'[u] = thread[u]
           /\ guest[v].pc = "new" => guest'[v].pc = "new"
           /\ thread[v] = "succeeded" => guest'[v] = guest[v] /\ thread'[v] = thread[v]
           /\ thread'[v] = "succeeded" =>
                 thread[v] = "succeeded" \/ (guest[v].pc = "halt" /\ guest' = guest)
<1>1. /\ guest \in [VMs -> GuestType] /\ thread \in [VMs -> ThreadType]
  BY DEF HvTypeOK, TypeOK
<1>2. CASE GuestStep(v)
  BY <1>1, <1>2 DEF GuestStep, Boot, InjectIrq, LoadGuestTxt, SaveReaderTxt, LeaveLoop, Report,
                    ReadInput, InGuest, Move, vars
<1>3. CASE BufferIo(v)
  <2>1. main' = main /\ guest[v].pc \in IoPoints
    BY <1>3, IssuedIo DEF BufferIo, IoPoints
  <2>2. thread[v] # "succeeded"
    BY <1>3 DEF BufferIo, Handle, Runs, Reject, DeliverMode, BeginWriterRound, WriteSharedByte,
                FinishWriterRound, BeginReaderRound, ReadSharedByte, FinishReaderRound
  <2>3. CASE (Fail(v) \/ Sleep(v, NextIo(guest[v]))) /\ guest' = guest
    BY <1>1, <2>1, <2>2, <2>3 DEF Fail, Sleep
  <2>4. CASE /\ thread' = [thread EXCEPT ![v] = "guest"]
             /\ guest' = [guest EXCEPT ![v] = AfterIo(guest[v], reply'[v])]
    BY <1>1, <2>1, <2>2, <2>4 DEF IoPoints
  <2> QED  BY <1>3, <2>3, <2>4, IoOutcome
<1>4. CASE Halt(v) \/ Crash(v) \/ Ends(v, AbortSharedBuffer(v)) \/ Disturb(v)
  BY <1>1, <1>4 DEF Halt, Crash, Ends, Disturb, InputEnds, VmFails, GuestHalts, GuestFails,
                    AbortSharedBuffer, SpuriousWakeup
<1> QED  BY <1>2, <1>3, <1>4 DEF VmStep

(* The thread main creates next is that of a VM of its own. *)
LEMMA NextInOrder ==
    ASSUME HvTypeOK, MainControl, CreateThread
    PROVE  /\ main.created \in Nat /\ main.created + 1 \in 1..Len(Order)
           /\ Order[main.created + 1] \in VMs
           /\ guest[Order[main.created + 1]].pc = "new"
           /\ \A i \in 1..Len(Order) : i > main.created + 1 => Order[i] # Order[main.created + 1]
<1>1. main.created \in Nat /\ main.created + 1 \in 1..Len(Order) /\ Len(Order) \in Nat
  BY HypervisorAssumption DEF CreateThread, MainControl, HvTypeOK
<1>2. Order[main.created + 1] \in VMs /\ main.created + 1 > main.created
  BY <1>1, HypervisorAssumption, ElementOfSeq
<1>3. guest[Order[main.created + 1]].pc = "new"
  BY <1>1, <1>2 DEF MainControl
<1>4. ASSUME NEW i \in 1..Len(Order), i > main.created + 1
      PROVE  Order[i] # Order[main.created + 1]
  <2>1. i # main.created + 1
    BY <1>1, <1>4
  <2> QED  BY <1>1, <2>1, HypervisorAssumption
<1> QED  BY <1>1, <1>2, <1>3, <1>4

LEMMA MainControlNext ==
    ASSUME HvTypeOK, Buffer, Guests, MainControl, [HvNext]_hvVars
    PROVE  MainControl'
<1>1. /\ Len(Order) \in Nat /\ main.created \in Nat /\ main.joined \in Nat
      /\ main \in [phase : {"create", "join", "exited"}, created : 0..Len(Order),
                   joined : 0..Len(Order), ok : BOOLEAN]
      /\ guest \in [VMs -> GuestType]
  BY HypervisorAssumption DEF HvTypeOK
<1>2. \A i \in 1..Len(Order) : Order[i] \in VMs
  BY HypervisorAssumption, ElementOfSeq
<1>3. ASSUME NEW v \in VMs, VmStep(v) \/ Disturb(v)
      PROVE  MainControl'
  <2>1. main' = main /\ \A u \in VMs : guest[u].pc = "new" => guest'[u].pc = "new"
    BY <1>3, ThreadStep
  <2> QED  BY <1>2, <2>1 DEF MainControl
<1>4. CASE CreateThread
  <2> DEFINE u == Order[main.created + 1]
  <2>1. /\ main'.created = main.created + 1 /\ main'.joined = main.joined /\ main'.ok = main.ok
        /\ main'.phase = IF main.created + 1 = Len(Order) THEN "join" ELSE "create"
        /\ guest' = [guest EXCEPT ![u].pc = "boot"]
    BY <1>1, <1>4 DEF CreateThread
  <2>2. main.created + 1 <= Len(Order) /\ main.joined <= main.created + 1
    BY <1>1, <1>4, NextInOrder DEF MainControl
  <2>3. main.created + 1 # Len(Order) => main.created + 1 < Len(Order)
    BY <1>1, <2>2
  <2>4. ASSUME NEW i \in 1..Len(Order), i > main.created + 1
        PROVE  guest'[Order[i]].pc = "new"
    <3>1. i > main.created /\ Order[i] # u /\ Order[i] \in VMs
      BY <1>1, <1>2, <1>4, <2>4, NextInOrder
    <3> HIDE DEF u
    <3> QED  BY <1>1, <2>1, <3>1 DEF MainControl
  <2> QED  BY <2>1, <2>2, <2>3, <2>4 DEF MainControl
<1>5. ASSUME NEW v \in VMs, JoinThread(v) \/ JoinThreadFails(v)
      PROVE  MainControl'
  <2>1. /\ main'.created = main.created /\ main'.joined = main.joined + 1
        /\ main'.phase = main.phase /\ main.phase = "join" /\ main.joined < main.created
        /\ main'.ok => main.ok
        /\ guest' = guest
    BY <1>1, <1>5 DEF JoinThread, JoinThreadFails, Joining, AbortByMain
  <2>2. main.joined + 1 <= main.created
    BY <1>1, <2>1
  <2> QED  BY <2>1, <2>2 DEF MainControl
<1>6. CASE CreateThreadFails \/ MainReturns
  BY <1>1, <1>6 DEF CreateThreadFails, MainReturns, MainControl, AbortByMain
<1>7. CASE Returned \/ UNCHANGED hvVars
  BY <1>7 DEF Returned, hvVars, MainControl
<1> QED  BY <1>3, <1>4, <1>5, <1>6, <1>7 DEF HvNext, MainStep, MainDisturbed

LEMMA ResultsNext ==
    ASSUME HvTypeOK, Buffer, Guests, MainControl, Results, [HvNext]_hvVars
    PROVE  Results'
<1>1. /\ Len(Order) \in Nat /\ main.created \in 0..Len(Order) /\ main.joined \in 0..Len(Order)
      /\ main \in [phase : {"create", "join", "exited"}, created : 0..Len(Order),
                   joined : 0..Len(Order), ok : BOOLEAN]
      /\ guest \in [VMs -> GuestType]
  BY HypervisorAssumption DEF HvTypeOK
<1>2. \A i \in 1..main.joined : Order[i] \in VMs
  BY <1>1, HypervisorAssumption, ElementOfSeq
<1>3. ASSUME NEW v \in VMs, VmStep(v) \/ Disturb(v)
      PROVE  Results'
  <2>1. main' = main /\ \A u \in VMs : thread[u] = "succeeded" => thread'[u] = "succeeded"
    BY <1>3, ThreadStep
  <2>2. \A u \in VMs : thread'[u] = "succeeded" => guest'[u].pc = "halt"
    BY <1>3, ThreadStep DEF Results
  <2> QED  BY <1>2, <2>1, <2>2 DEF Results
<1>4. CASE CreateThread
  <2>1. /\ main'.joined = main.joined /\ main'.ok = main.ok /\ thread' = thread
        /\ guest' = [guest EXCEPT ![Order[main.created + 1]].pc = "boot"]
    BY <1>1, <1>4 DEF CreateThread, vars
  <2>2. /\ Order[main.created + 1] \in VMs
        /\ thread[Order[main.created + 1]] # "succeeded"
    BY <1>4, NextInOrder DEF Results
  <2>3. ASSUME NEW u \in VMs, thread'[u] = "succeeded"
        PROVE  guest'[u].pc = "halt"
    <3>1. u # Order[main.created + 1] /\ guest[u].pc = "halt"
      BY <2>1, <2>2, <2>3 DEF Results
    <3> QED  BY <1>1, <2>1, <3>1
  <2> QED  BY <2>1, <2>3 DEF Results
<1>5. ASSUME NEW v \in VMs, JoinThread(v)
      PROVE  Results'
  <2>1. /\ main'.joined = main.joined + 1 /\ main'.ok = (main.ok /\ thread[v] = "succeeded")
        /\ v = Order[main.joined + 1] /\ thread' = thread /\ guest' = guest
    BY <1>1, <1>5 DEF JoinThread, Joining, vars
  <2>2. ASSUME main'.ok, NEW i \in 1..(main.joined + 1)
        PROVE  thread[Order[i]] = "succeeded"
    <3>1. i \in 1..main.joined \/ i = main.joined + 1
      BY <1>1
    <3> QED  BY <2>1, <2>2, <3>1 DEF Results
  <2> QED  BY <2>1, <2>2 DEF Results
<1>6. ASSUME NEW v \in VMs, JoinThreadFails(v)
      PROVE  Results'
  BY <1>1, <1>6 DEF JoinThreadFails, AbortByMain, Results
<1>7. CASE CreateThreadFails \/ MainReturns
  BY <1>1, <1>7 DEF CreateThreadFails, MainReturns, AbortByMain, Results, vars
<1>8. CASE Returned \/ UNCHANGED hvVars
  BY <1>8 DEF Returned, hvVars, vars, Results
<1> QED  BY <1>3, <1>4, <1>5, <1>6, <1>7, <1>8 DEF HvNext, MainStep, MainDisturbed
---------------------------------------------------------------------------
(* Without faults no handler refuses what the shipped guest asks for.      *)

(* A reader that has not acknowledged leaves a place in the count. *)
LEMMA PlaceInCount ==
    ASSUME Buffer, NEW r \in Readers, ctx[r].lastReadGeneration # state.generation
    PROVE  state.completedReaders < readerCount
<1>1. Acknowledged \in SUBSET Readers /\ IsFiniteSet(Readers) /\ r \notin Acknowledged
  BY ConstantsAssumption DEF Acknowledged
<1>2. /\ Cardinality(Acknowledged) <= Cardinality(Readers)
      /\ Cardinality(Acknowledged) = Cardinality(Readers) => Acknowledged = Readers
      /\ Cardinality(Acknowledged) \in Nat /\ Cardinality(Readers) \in Nat
  BY <1>1, FS_Subset, FS_CardinalityType
<1>3. Cardinality(Acknowledged) < Cardinality(Readers)
  BY <1>1, <1>2
<1> QED  BY <1>3 DEF Buffer, RoundProtocol, readerCount

LEMMA NotRefused ==
    ASSUME HvTypeOK, Buffer, Guests, ~state.stopped, NEW v \in VMs, BufferIo(v)
    PROVE  thread'[v] # "failing" /\ state'.stopped = state.stopped
<1> DEFINE g == guest[v]
           io == NextIo(g)
<1>1. /\ Handle(v, io) /\ g.pc \in IoPoints /\ Handler(v, io) = HandlerAt(g.pc)
      /\ thread \in [VMs -> ThreadType] /\ state \in StateType /\ ctx \in [VMs -> CtxType]
      /\ g \in GuestType
  BY IssuedIo DEF BufferIo, IoPoints, HvTypeOK, TypeOK
<1>2. ASSUME Resume(v) PROVE thread'[v] = "guest"
  BY <1>1, <1>2 DEF Resume
<1>3. ASSUME Sleep(v, io) PROVE thread'[v] = "blocked" /\ state' = state
  BY <1>1, <1>3 DEF Sleep
<1>4. CASE g.pc = "mode"
  <2>1. DeliverMode(v, io)
    BY <1>1, <1>4 DEF HandlerAt, Handle, Runs, Reject, BeginWriterRound, WriteSharedByte,
                FinishWriterRound, BeginReaderRound, ReadSharedByte, FinishReaderRound
  <2> QED  BY <1>2, <2>1 DEF DeliverMode
<1>5. CASE g.pc = "size"
  <2>1. BeginWriterRound(v, io)
    BY <1>1, <1>5 DEF HandlerAt, Handle, Runs, Reject, DeliverMode, WriteSharedByte,
                FinishWriterRound, BeginReaderRound, ReadSharedByte, FinishReaderRound
  <2>2. Sleep(v, io) \/ OpenRound(v, io.val)
    BY <2>1 DEF BeginWriterRound
  <2>3. CASE OpenRound(v, io.val)
    BY <1>1, <1>2, <2>3
       DEF OpenRound, PublishIfComplete, Publish, NewRound, StateType
  <2> QED  BY <1>3, <2>2, <2>3
<1>6. CASE g.pc = "send"
  <2>1. WriteSharedByte(v, io)
    BY <1>1, <1>6 DEF HandlerAt, Handle, Runs, Reject, DeliverMode, BeginWriterRound,
                FinishWriterRound, BeginReaderRound, ReadSharedByte, FinishReaderRound
  <2>2. Sending(g)
    BY <1>6, WriterPoints, ReaderPoints DEF IoPoints
  <2>3. MayWrite
    BY <2>2 DEF Sending, Announced, MayWrite
  <2>4. TakeByte(v, io.val)
    BY <2>1, <2>3 DEF WriteSharedByte
  <2> QED
    BY <1>1, <1>2, <2>4 DEF TakeByte, PublishIfComplete, Publish, Store, StateType
<1>7. CASE g.pc = "final"
  <2>1. FinishWriterRound(v, io)
    BY <1>1, <1>7 DEF HandlerAt, Handle, Runs, Reject, DeliverMode, BeginWriterRound,
                WriteSharedByte, BeginReaderRound, ReadSharedByte, FinishReaderRound
  <2>2. Finishing(g, ctx[v])
    BY <1>7, WriterPoints, ReaderPoints DEF IoPoints
  <2>3. Sleep(v, io) \/ CloseRound(v)
    BY <2>1, <2>2 DEF FinishWriterRound, Finishing
  <2>4. CASE CloseRound(v)
    BY <1>1, <1>2, <2>4 DEF CloseRound, StateType
  <2> QED  BY <1>3, <2>3, <2>4
<1>8. CASE g.pc = "fetch"
  <2>1. BeginReaderRound(v, io)
    BY <1>1, <1>8 DEF HandlerAt, Handle, Runs, Reject, DeliverMode, BeginWriterRound,
                WriteSharedByte, FinishWriterRound, ReadSharedByte, FinishReaderRound
  <2>2. NotReading(g, ctx[v])
    BY <1>8, WriterPoints, ReaderPoints DEF IoPoints
  <2>3. ~UnfinishedRead(v)
    BY <2>2 DEF NotReading, UnfinishedRead
  <2>4. Sleep(v, io) \/ StartReading(v)
    BY <2>1, <2>3 DEF BeginReaderRound
  <2> QED  BY <1>2, <1>3, <2>4 DEF StartReading
<1>9. CASE g.pc = "recv"
  <2>1. ReadSharedByte(v, io)
    BY <1>1, <1>9 DEF HandlerAt, Handle, Runs, Reject, DeliverMode, BeginWriterRound,
                WriteSharedByte, FinishWriterRound, BeginReaderRound, FinishReaderRound
  <2>2. Receiving(v, g, ctx[v])
    BY <1>9, WriterPoints, ReaderPoints DEF IoPoints
  <2>3. MayRead(v)
    BY <2>2 DEF Receiving, HasSize, Published, MayRead
  <2>4. GiveByte(v, state.data[ctx[v].readOffset])
    BY <2>1, <2>3 DEF ReadSharedByte
  <2> QED  BY <1>2, <2>4 DEF GiveByte
<1>10. CASE g.pc = "ack"
  <2>1. FinishReaderRound(v, io)
    BY <1>1, <1>10 DEF HandlerAt, Handle, Runs, Reject, DeliverMode, BeginWriterRound,
                WriteSharedByte, FinishWriterRound, BeginReaderRound, ReadSharedByte
  <2>2. v \in Readers /\ Acknowledging(v, g, ctx[v])
    BY <1>10, WriterPoints, ReaderPoints DEF IoPoints
  <2>3. state.completedReaders < readerCount
    BY <2>2, PlaceInCount DEF Acknowledging, HasSize, Published
  <2>4. io.val = g.count
    BY <1>10 DEF NextIo, Out
  <2>5. MayAcknowledge(v, io)
    BY <2>2, <2>3, <2>4 DEF Acknowledging, HasSize, Published, MayAcknowledge
  <2>6. Acknowledge(v)
    BY <2>1, <2>5 DEF FinishReaderRound
  <2> QED  BY <1>1, <1>2, <2>6 DEF Acknowledge, StateType
<1> QED  BY <1>1, <1>4, <1>5, <1>6, <1>7, <1>8, <1>9, <1>10 DEF IoPoints

(* A guest at its end has been through its transfer. *)
LEMMA AtTheEnd ==
    ASSUME Guests, NEW v \in VMs, guest[v].pc \in {"report", "input", "halt"}
    PROVE  /\ v = Writer => HasSent(guest[v], ctx[v])
           /\ v \in Readers => HasRead(v, guest[v], ctx[v])
           /\ ctx[v].transferCompleted
           /\ Faults = {} => guest[v].transfer_succeeded
<1>1. CASE v = Writer
  <2>1. Writing(guest[v], ctx[v])
    BY <1>1 DEF Guests
  <2>2. HasSent(guest[v], ctx[v])
    BY <2>1 DEF Writing, NotSending, Announcing, Sending, Finishing, NoMode, Idle, Busy
  <2> QED  BY <1>1, <2>2, ConstantsAssumption DEF HasSent
<1>2. CASE v \in Readers
  <2>1. Reading(v, guest[v], ctx[v])
    BY <1>2 DEF Guests, Readings
  <2>2. HasRead(v, guest[v], ctx[v]) /\ ~Busy(guest[v], "save")
    BY <2>1 DEF Reading, NotReading, Receiving, Acknowledging, NoMode, Idle, Busy
  <2> QED  BY <1>2, <2>2, ConstantsAssumption DEF HasRead
<1> QED  BY <1>1, <1>2

LEMMA CleanNext ==
    ASSUME HvTypeOK, Buffer, Guests, Clean, [HvNext]_hvVars
    PROVE  Clean'
<1> SUFFICES ASSUME Faults = {}
             PROVE  /\ ~state'.stopped
                    /\ \A v \in VMs : thread'[v] \notin {"failing", "failed"}
  BY DEF Clean, NoRefusal
<1>1. /\ thread \in [VMs -> ThreadType] /\ ~state.stopped
      /\ \A v \in VMs : thread[v] \notin {"failing", "failed"}
  BY DEF HvTypeOK, TypeOK, Clean, NoRefusal
<1>2. ASSUME NEW v \in VMs, GuestStep(v)
      PROVE  state' = state /\ thread' = thread
  BY <1>2 DEF GuestStep, Boot, InjectIrq, LoadGuestTxt, SaveReaderTxt, LeaveLoop, Report,
              ReadInput, vars
<1>3. ASSUME NEW v \in VMs, BufferIo(v)
      PROVE  /\ ~state'.stopped
             /\ \A u \in VMs : thread'[u] \notin {"failing", "failed"}
  <2>1. thread'[v] # "failing" /\ ~state'.stopped
    BY <1>1, <1>3, NotRefused
  <2>2. CASE Fail(v) \/ Sleep(v, NextIo(guest[v]))
    BY <1>1, <2>1, <2>2 DEF Fail, Sleep
  <2>3. CASE thread' = [thread EXCEPT ![v] = "guest"]
    BY <1>1, <2>1, <2>3
  <2> QED  BY <1>3, <2>2, <2>3, IoOutcome
<1>4. ASSUME NEW v \in VMs, Halt(v)
      PROVE  /\ ~state'.stopped
             /\ \A u \in VMs : thread'[u] \notin {"failing", "failed"}
  <2>1. ctx[v].transferCompleted
    BY <1>4, AtTheEnd DEF Halt
  <2> QED  BY <1>1, <1>4, <2>1 DEF Halt, Ends, GuestHalts
<1>5. ASSUME NEW v \in VMs
      PROVE  ~Crash(v) /\ ~Ends(v, AbortSharedBuffer(v)) /\ ~InputEnds(v) /\ ~VmFails(v)
  BY <1>1, AtTheEnd DEF Crash, Ends, AbortSharedBuffer, InputEnds, VmFails
<1>6. ASSUME NEW v \in VMs, Ends(v, SpuriousWakeup(v))
      PROVE  state' = state /\ thread' = thread
  BY <1>6 DEF Ends, SpuriousWakeup
<1>7. CASE MainStep
  BY <1>1, <1>7 DEF MainStep, CreateThread, JoinThread, MainReturns, vars
<1>8. ~MainDisturbed
  BY DEF MainDisturbed, CreateThreadFails, JoinThreadFails
<1>9. CASE Returned \/ UNCHANGED hvVars
  BY <1>1, <1>9 DEF Returned, hvVars, vars
<1> QED
  BY <1>1, <1>2, <1>3, <1>4, <1>5, <1>6, <1>7, <1>8, <1>9 DEF HvNext, VmStep, Disturb
---------------------------------------------------------------------------
(* The theorems.                                                           *)

LEMMA HvInitHolds == HvInit => IInv
<1> SUFFICES ASSUME HvInit PROVE IInv
  OBVIOUS
<1>1. Init
  BY DEF HvInit
<1>2. Buffer
  <2>1. Acknowledged = {}
    BY <1>1 DEF Init, Acknowledged
  <2>2. Cardinality(Acknowledged) = 0
    BY <2>1, FS_EmptySet
  <2>3. RoundProtocol
    BY <1>1, <2>2 DEF Init, RoundProtocol, ReaderProtocol, UnfinishedRead
  <2>4. RoundContents
    BY <1>1, ConstantsAssumption DEF Init, RoundContents, StoredSize
  <2> QED  BY <1>1, <2>3, <2>4, InitType DEF Buffer, Init, NoLostWakeup
<1>3. Len(Order) \in Nat /\ 0 < Len(Order)
  <2>1. PICK i \in 1..Len(Order) : Order[i] = Writer
    BY HypervisorAssumption
  <2> QED  BY <2>1, HypervisorAssumption
<1>4. \A i \in 1..Len(Order) : Order[i] \in VMs
  BY HypervisorAssumption, ElementOfSeq
<1>5. HvTypeOK
  <2>1. guest \in [VMs -> GuestType]
    <3>1. <<>> \in Seq(Byte)
      OBVIOUS
    <3> QED  BY <3>1 DEF HvInit, GuestType, IRQ_COUNT
  <2>2. readerTxt \in [Readers -> Seq(Byte)]
    BY HypervisorAssumption DEF HvInit
  <2>3. main \in [phase : {"create", "join", "exited"}, created : 0..Len(Order),
                  joined : 0..Len(Order), ok : BOOLEAN]
    BY <1>3 DEF HvInit
  <2> QED  BY <1>1, <2>1, <2>2, <2>3, InitType DEF HvTypeOK, HvInit
<1>6. Guests
  <2>1. ASSUME NEW v \in VMs PROVE Mode(v, guest[v], ctx[v])
    <3>1. ~ctx[v].modeDelivered /\ ~guest[v].mode_initialized
      BY <1>1 DEF HvInit, Init
    <3>2. ctx[v].modeDelivered \in BOOLEAN /\ guest[v].mode_initialized \in BOOLEAN
      BY <1>5 DEF HvTypeOK, TypeOK, CtxType, GuestType
    <3> QED  BY <3>1, <3>2 DEF Mode
  <2>2. Writing(guest[Writer], ctx[Writer])
    BY <1>1 DEF HvInit, Init, Writing, NotSending, NoMode, NoRound, IRQ_COUNT
  <2>3. Readings
    BY <1>1 DEF HvInit, Init, Readings, Reading, NotReading, NoMode, IRQ_COUNT
  <2> QED  BY <2>1, <2>2, <2>3 DEF Guests, Modes
<1>7. MainControl
  BY <1>3, <1>4 DEF HvInit, MainControl
<1>8. Results /\ Clean
  BY <1>1 DEF HvInit, Init, Results, Clean, NoRefusal
<1> QED  BY <1>2, <1>5, <1>6, <1>7, <1>8 DEF IInv

LEMMA HvNextHolds == IInv /\ [HvNext]_hvVars => IInv'
  BY HvTypeNext, BufferNext, GuestsNext, MainControlNext, ResultsNext, CleanNext DEF IInv

(* In every reachable state of a run of the hypervisor, whatever fails, the *)
(* guest of a VM and what the host holds of it are in step: the invariant  *)
(* the theorems below are read off from.                                   *)
THEOREM InvariantHolds == HvSpec => []IInv
  BY HvInitHolds, HvNextHolds, PTL DEF HvSpec

(* main, the guest programs and the files keep their types. *)
THEOREM HvTypeCorrect == HvSpec => []HvTypeOK
<1>1. IInv => HvTypeOK
  BY DEF IInv
<1> QED  BY <1>1, InvariantHolds, PTL

(* irq0_handler under runVirtualMachine never asks for a byte or an        *)
(* acknowledgement out of its turn: every behaviour of the hypervisor is   *)
(* one of OrderedSpec, for which the theorems of SharedBufferOrderedProofs *)
(* are proved.                                                             *)
THEOREM GuestsAreOrdered == HvSpec => ImplementsSharedBuffer
<1>1. HvInit => Init
  BY DEF HvInit
<1>2. IInv /\ [HvNext]_hvVars => [OrderedNext]_vars
  BY BufferStep DEF IInv
<1> QED
  BY <1>1, <1>2, InvariantHolds, PTL DEF HvSpec, ImplementsSharedBuffer, OrderedSpec

(* So a real run is a broadcast: the one message is offered whole, nothing *)
(* of it changes under a reader, every reader takes it byte for byte, and  *)
(* finishWriterRound ends the round only then. *)
THEOREM RunIsBroadcast ==
    HvSpec => /\ ImplementsBroadcast
              /\ NoOverwriteWhileReading /\ FinishMeansAllAcknowledged
              /\ []AcknowledgedMeansDelivered
<1>1. ImplementsSharedBuffer => OrderedSpec
  BY DEF ImplementsSharedBuffer
<1> QED
  BY <1>1, GuestsAreOrdered, BufferIsBroadcast, ReadersAreNotOverwritten, WriterWaitsForAll,
     DeliveryIsExact, PTL

(* A writer whose hlt counts as a success leaves no round open, a reader   *)
(* no generation unread or unacknowledged; the round itself may still be   *)
(* open for other readers.                                                 *)
THEOREM NothingIsOwed == HvSpec => []SuccessOwesNothing
<1>1. IInv => SuccessOwesNothing
  <2> SUFFICES ASSUME IInv PROVE SuccessOwesNothing
    OBVIOUS
  <2>1. ASSUME thread[Writer] = "succeeded" PROVE ~state.roundInProgress
    BY <2>1, AtTheEnd DEF IInv, Results, HasSent
  <2>2. ASSUME NEW r \in Readers, thread[r] = "succeeded"
        PROVE  ~UnfinishedRead(r) /\ ctx[r].lastReadGeneration = state.generation
    BY <2>2, AtTheEnd DEF IInv, Results, HasRead, Published, UnfinishedRead
  <2> QED  BY <2>1, <2>2 DEF SuccessOwesNothing
<1> QED  BY <1>1, InvariantHolds, PTL

(* Without faults no handler refuses an access of the shipped guest.       *)
THEOREM NothingIsRefused == HvSpec => []NoRefusal
<1>1. IInv => NoRefusal
  BY DEF IInv, Clean, NoRefusal
<1> QED  BY <1>1, InvariantHolds, PTL

(* The first k of the first m elements. *)
LEMMA Prefix ==
    ASSUME NEW s \in Seq(Byte), NEW m \in 0..Len(s), NEW k \in 0..m
    PROVE  SubSeq(SubSeq(s, 1, m), 1, k) = SubSeq(s, 1, k) /\ Len(SubSeq(s, 1, m)) = m
<1>1. Len(s) \in Nat /\ m \in Nat /\ k \in Nat
  OBVIOUS
<1> QED  BY <1>1

(* The message of a writer that read the start of guest.txt is that start. *)
LEMMA MessageOfText ==
    ASSUME guestTxt \in Texts, sent = Slice(guestTxt, 0, BufferSize + 1)
    PROVE  Message = WrittenText
<1> DEFINE m == Smaller(BufferSize + 1, Len(guestTxt))
           k == Smaller(BufferSize, Len(guestTxt))
<1>1. guestTxt \in Seq(Byte) /\ Len(guestTxt) \in Nat /\ BufferSize \in Nat
  BY TextType, ConstantsAssumption
<1>2. m \in 0..Len(guestTxt) /\ k \in 0..m /\ StoredSize(m) = k
  BY <1>1 DEF Smaller, StoredSize
<1>3. sent = SubSeq(guestTxt, 1, m) /\ WrittenText = SubSeq(guestTxt, 1, k)
  BY <1>1 DEF Slice, WrittenText
<1> HIDE DEF m, k
<1>4. Len(sent) = m /\ SubSeq(sent, 1, k) = SubSeq(guestTxt, 1, k)
  BY <1>1, <1>2, <1>3, Prefix
<1> QED  BY <1>2, <1>3, <1>4 DEF Message

(* EXIT_SUCCESS of main means that every VM halted after its transfer and  *)
(* that every reader holds what the writer read of guest.txt, cut to       *)
(* BUFFER_SIZE.                                                            *)
THEOREM SuccessMeansComplete == HvSpec => []SuccessIsComplete
<1>1. IInv /\ AcknowledgedMeansDelivered => SuccessIsComplete
  <2> SUFFICES ASSUME IInv, AcknowledgedMeansDelivered, main.phase = "exited", main.ok
               PROVE  /\ \A v \in VMs : thread[v] = "succeeded"
                      /\ \A r \in Readers : guest[r].buffer = WrittenText
    BY DEF SuccessIsComplete
  <2>1. main.joined = Len(Order)
    BY DEF IInv, MainControl
  <2>2. ASSUME NEW v \in VMs PROVE thread[v] = "succeeded"
    <3>1. PICK i \in 1..Len(Order) : Order[i] = v
      BY HypervisorAssumption
    <3> QED  BY <2>1, <3>1 DEF IInv, Results
  <2>3. \A v \in VMs : guest[v].pc = "halt"
    BY <2>2 DEF IInv, Results
  <2>4. HasSent(guest[Writer], ctx[Writer])
    BY <2>3, AtTheEnd DEF IInv
  <2>5. sent = Slice(guestTxt, 0, BufferSize + 1)
    BY <2>3, <2>4 DEF HasSent, Done, Loaded
  <2>6. Message = WrittenText
    BY <2>5, MessageOfText DEF IInv, HvTypeOK
  <2>7. ASSUME NEW r \in Readers PROVE guest[r].buffer = WrittenText
    <3>1. HasRead(r, guest[r], ctx[r])
      BY <2>3, AtTheEnd DEF IInv
    <3>2. received[r] = Message
      BY <3>1 DEF HasRead, Published, AcknowledgedMeansDelivered
    <3> QED  BY <2>6, <3>1, <3>2 DEF HasRead
  <2> QED  BY <2>2, <2>7
<1> QED
  BY <1>1, InvariantHolds, GuestsAreOrdered, DeliveryIsExact, PTL DEF ImplementsSharedBuffer
=============================================================================
