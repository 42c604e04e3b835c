------------------------------ MODULE SharedBuffer ------------------------------
(***************************************************************************)
(* The shared buffer of host/src/shared_buffer.cpp as the VM threads see   *)
(* it: one writer VM, any number of reader VMs, one mutex, one condition   *)
(* variable.  A guest leaves KVM_RUN with an I/O exit; the VM's thread     *)
(* dispatches it to a handler; the handler returns true (the guest goes    *)
(* on), returns false (the thread fails and runGuest aborts the buffer),   *)
(* or sleeps on the condition variable.                                    *)
(*                                                                         *)
(* A handler holds the mutex from its first access to the shared state to  *)
(* its return, except while it sleeps, and what it reads before it locks   *)
(* belongs to its own thread.  So the exit and the handler's run are one   *)
(* step; a handler that sleeps takes one more step per test of its         *)
(* predicate.                                                              *)
(*                                                                         *)
(* The guest is unconstrained in Spec: it may issue any I/O at any time.   *)
(* In OrderedSpec a reader keeps to the order of guest/src/interrupts.c:   *)
(* size first, then bytes, then one acknowledgement.                       *)
(***************************************************************************)
EXTENDS Naturals, Sequences, FiniteSets

CONSTANTS
    Writer,         \* the first VM, the one main.cpp gives VM_MODE_WRITER
    Readers,        \* every other VM
    BufferSize,     \* BUFFER_SIZE
    Byte,           \* values of one byte
    MaxRequest,     \* bound: largest 32-bit value a guest sends
    MaxGeneration   \* bound: rounds a writer guest asks for

ASSUME ConstantsAssumption ==
    /\ Writer \notin Readers
    /\ IsFiniteSet(Readers)
    /\ BufferSize \in Nat \ {0}
    /\ 0 \in Byte /\ Byte \subseteq Nat
    /\ MaxRequest \in Nat
    /\ MaxGeneration \in Nat

VMs == {Writer} \cup Readers
readerCount == Cardinality(Readers)

VARIABLES
    state,      \* SharedBufferState, without its mutex and condition
    ctx,        \* ctx[v]: SharedBufferVmState of v, without its mode
    thread,     \* thread[v]: where the POSIX thread of v is
    exit,       \* exit[v]: the I/O exit a blocked handler of v serves
    reply,      \* reply[v]: the value the last IN handed to the guest
    waiting,    \* threads asleep in condition.wait
    sent,       \* history: bytes the host took from the writer this round
    received    \* history: bytes a reader got since it read the size

vars == <<state, ctx, thread, exit, reply, waiting, sent, received>>
---------------------------------------------------------------------------
(* An I/O exit: port 0x510 ("data") or 0x520 ("status"), the direction,    *)
(* the access size, the value of an OUT.  Size 2 stands for every access   *)
(* getIoData rejects (a 2-byte one, or a string instruction).              *)
Ports == {"data", "status"}
In(port, size) == [port |-> port, dir |-> "in", size |-> size, val |-> 0]
Out(port, size, val) == [port |-> port, dir |-> "out", size |-> size, val |-> val]
Io == {In(p, s) : p \in Ports, s \in {1, 2, 4}}
        \cup {Out(p, 1, b) : p \in Ports, b \in Byte}
        \cup {Out(p, 2, 0) : p \in Ports}
        \cup {Out(p, 4, n) : p \in Ports, n \in 0..MaxRequest}
NoIo == In("data", 1)

StateType ==
    [data : [0..(BufferSize - 1) -> Byte], size : 0..BufferSize, expectedBytes : Nat,
     receivedBytes : Nat, completedReaders : Nat, generation : Nat,
     dataReady : BOOLEAN, roundInProgress : BOOLEAN, stopped : BOOLEAN]
CtxType ==
    [modeDelivered : BOOLEAN, readOffset : Nat, lastReadGeneration : Nat,
     activeReadGeneration : Nat, writeGeneration : Nat,
     readCompleted : BOOLEAN, transferCompleted : BOOLEAN]
ThreadType == {"guest", "blocked", "failing", "failed", "succeeded"}

Init ==
    /\ state = [data |-> [i \in 0..(BufferSize - 1) |-> 0], size |-> 0,
                expectedBytes |-> 0, receivedBytes |-> 0,
                completedReaders |-> 0, generation |-> 0, dataReady |-> FALSE,
                roundInProgress |-> FALSE, stopped |-> FALSE]
    /\ ctx = [v \in VMs |->
                [modeDelivered |-> FALSE, readOffset |-> 0,
                 lastReadGeneration |-> 0, activeReadGeneration |-> 0,
                 writeGeneration |-> 0, readCompleted |-> FALSE,
                 transferCompleted |-> FALSE]]
    /\ thread = [v \in VMs |-> "guest"]
    /\ exit = [v \in VMs |-> NoIo]
    /\ reply = [v \in VMs |-> 0]
    /\ waiting = {}
    /\ sent = <<>>
    /\ received = [r \in Readers |-> <<>>]
---------------------------------------------------------------------------
(* handleSharedBufferIo: the handler the dispatch selects for v's exit.    *)
WriterHandler(io) ==
    CASE io.port = "data" /\ io.dir = "out" /\ io.size = 4 -> "beginWriterRound"
      [] io.port = "data" /\ io.dir = "out" /\ io.size = 1 -> "writeSharedByte"
      [] io.port = "status" /\ io.dir = "in" /\ io.size = 4 -> "finishWriterRound"
      [] OTHER -> "reject"

ReaderHandler(io) ==
    CASE io.port = "data" /\ io.dir = "in" /\ io.size = 4 -> "beginReaderRound"
      [] io.port = "data" /\ io.dir = "in" /\ io.size = 1 -> "readSharedByte"
      [] io.port = "status" /\ io.dir = "out" /\ io.size = 4 -> "finishReaderRound"
      [] OTHER -> "reject"

ModeHandler(io) ==
    IF io.port = "data" /\ io.dir = "in" /\ io.size = 1 THEN "deliverMode" ELSE "reject"

Handler(v, io) ==
    IF io.size \notin {1, 4} THEN "reject"
    ELSE IF ~ctx[v].modeDelivered THEN ModeHandler(io)
    ELSE IF v = Writer THEN WriterHandler(io)
    ELSE ReaderHandler(io)

(* v's thread runs a handler: the guest has just issued the exit, or the   *)
(* thread was woken in condition.wait and tests its predicate again.       *)
Runs(v, io, handler) ==
    /\ \/ thread[v] = "guest"
       \/ thread[v] = "blocked" /\ v \notin waiting /\ io = exit[v]
    /\ Handler(v, io) = handler

(* The handler returned true: KVM_RUN resumes the guest. *)
Resume(v) ==
    /\ thread' = [thread EXCEPT ![v] = "guest"]
    /\ exit' = [exit EXCEPT ![v] = NoIo]

(* The handler returned false: runVirtualMachine destroys the VM and       *)
(* returns false; runGuest has not aborted the buffer yet.                 *)
Fail(v) ==
    /\ thread' = [thread EXCEPT ![v] = "failing"]
    /\ exit' = [exit EXCEPT ![v] = NoIo]
    /\ UNCHANGED <<state, ctx, reply, waiting, sent, received>>

(* condition.wait with a false predicate: the mutex is released and the    *)
(* thread sleeps until notify_all empties the set.                         *)
Sleep(v, io) ==
    /\ thread' = [thread EXCEPT ![v] = "blocked"]
    /\ exit' = [exit EXCEPT ![v] = io]
    /\ waiting' = waiting \cup {v}
    /\ UNCHANGED <<state, ctx, reply, sent, received>>

(* Mutant: notify_one in place of notify_all. *)
NotifyOne == IF waiting = {} THEN waiting' = {} ELSE \E v \in waiting : waiting' = waiting \ {v}
NotifyAll == waiting' = {}

Reject(v, io) == Runs(v, io, "reject") /\ Fail(v)

DeliverMode(v, io) ==
    /\ Runs(v, io, "deliverMode")
    /\ reply' = [reply EXCEPT ![v] = IF v = Writer THEN 1 ELSE 0]
    /\ ctx' = [ctx EXCEPT ![v].modeDelivered = TRUE]
    /\ Resume(v)
    /\ UNCHANGED <<state, waiting, sent, received>>
---------------------------------------------------------------------------
(* The writer.                                                             *)
(* Mutant: the announced size is not cut to the buffer. *)
StoredSizeUncut(n) == n
StoredSize(n) == IF n < BufferSize THEN n ELSE BufferSize

(* finishWriterData: the round becomes visible to the readers. *)
Publish(st) == [st EXCEPT !.dataReady = TRUE, !.generation = @ + 1]

(* Mutant: the round is published one byte early. *)
PublishOneEarly(st) == IF st.receivedBytes + 1 >= st.expectedBytes THEN Publish(st) ELSE st
PublishIfComplete(st) ==
    IF st.receivedBytes = st.expectedBytes THEN Publish(st) ELSE st

(* Mutant: the acknowledgements of the last round are still counted. *)
NewRoundKeepsCount(n) ==
    [state EXCEPT !.expectedBytes = n, !.receivedBytes = 0, !.size = StoredSize(n),
                  !.dataReady = FALSE, !.roundInProgress = TRUE]
NewRound(n) ==
    [state EXCEPT !.expectedBytes = n, !.receivedBytes = 0,
                  !.size = StoredSize(n), !.completedReaders = 0,
                  !.dataReady = FALSE, !.roundInProgress = TRUE]

(* Mutant: the next round may start as soon as the last one is published. *)
RoundFreeOnceSent == ~state.roundInProgress \/ state.dataReady
RoundFree == ~state.roundInProgress

OpenRound(v, n) ==
    /\ state' = PublishIfComplete(NewRound(n))
    /\ ctx' = [ctx EXCEPT ![v].writeGeneration =
                  IF state'.dataReady THEN state'.generation ELSE 0]
    /\ IF state'.dataReady THEN NotifyAll ELSE UNCHANGED waiting
    /\ sent' = <<>>
    /\ Resume(v)
    /\ UNCHANGED <<reply, received>>

BeginWriterRound(v, io) ==
    /\ Runs(v, io, "beginWriterRound")
    /\ \/ state.stopped /\ Fail(v)
       \/ ~state.stopped /\ ~RoundFree /\ Sleep(v, io)
       \/ ~state.stopped /\ RoundFree /\ OpenRound(v, io.val)

(* Mutant: bytes that do not fit are refused. *)
MayWriteStored ==
    /\ ~state.stopped /\ state.roundInProgress /\ ~state.dataReady
    /\ state.receivedBytes < state.size
MayWrite ==
    /\ ~state.stopped /\ state.roundInProgress /\ ~state.dataReady
    /\ state.receivedBytes < state.expectedBytes

(* Every byte is consumed, only the first BufferSize are stored. *)
Store(b) ==
    [state EXCEPT
        !.data = IF state.receivedBytes < BufferSize
                 THEN [@ EXCEPT ![state.receivedBytes] = b] ELSE @,
        !.receivedBytes = @ + 1]

(* Mutant: the transfer counts as completed when its last byte is sent. *)
CompletesWhenSent(v, b) ==
    /\ state' = PublishIfComplete(Store(b))
    /\ ctx' = [ctx EXCEPT ![v].writeGeneration =
                  IF state'.dataReady THEN state'.generation ELSE @,
                          ![v].transferCompleted = @ \/ state'.dataReady]
    /\ IF state'.dataReady THEN NotifyAll ELSE UNCHANGED waiting
    /\ sent' = Append(sent, b)
    /\ Resume(v)
    /\ UNCHANGED <<reply, received>>
TakeByte(v, b) ==
    /\ state' = PublishIfComplete(Store(b))
    /\ ctx' = [ctx EXCEPT ![v].writeGeneration =
                  IF state'.dataReady THEN state'.generation ELSE @]
    /\ IF state'.dataReady THEN NotifyAll ELSE UNCHANGED waiting
    /\ sent' = Append(sent, b)
    /\ Resume(v)
    /\ UNCHANGED <<reply, received>>

WriteSharedByte(v, io) ==
    /\ Runs(v, io, "writeSharedByte")
    /\ \/ ~MayWrite /\ Fail(v)
       \/ MayWrite /\ TakeByte(v, io.val)

(* Mutant: one acknowledgement is enough. *)
SomeAcknowledged(v) ==
    /\ state.dataReady /\ state.generation = ctx[v].writeGeneration
    /\ state.completedReaders > 0
AllAcknowledged(v) ==
    /\ state.dataReady
    /\ state.generation = ctx[v].writeGeneration
    /\ state.completedReaders = readerCount

(* Mutant: the round stays open. *)
LeaveRoundOpen(v) ==
    /\ reply' = [reply EXCEPT ![v] = state.size]
    /\ ctx' = [ctx EXCEPT ![v].writeGeneration = 0, ![v].transferCompleted = TRUE]
    /\ NotifyAll
    /\ Resume(v)
    /\ UNCHANGED <<state, sent, received>>

CloseRound(v) ==
    /\ reply' = [reply EXCEPT ![v] = state.size]
    /\ state' = [state EXCEPT !.roundInProgress = FALSE]
    /\ ctx' = [ctx EXCEPT ![v].writeGeneration = 0, ![v].transferCompleted = TRUE]
    /\ NotifyAll
    /\ Resume(v)
    /\ UNCHANGED <<sent, received>>

FinishWriterRound(v, io) ==
    /\ Runs(v, io, "finishWriterRound")
    /\ \/ (ctx[v].writeGeneration = 0 \/ state.stopped) /\ Fail(v)
       \/ /\ ctx[v].writeGeneration # 0 /\ ~state.stopped
          /\ \/ ~AllAcknowledged(v) /\ Sleep(v, io)
             \/ AllAcknowledged(v) /\ CloseRound(v)
---------------------------------------------------------------------------
(* The readers.                                                            *)
UnfinishedRead(v) ==
    /\ ctx[v].activeReadGeneration > ctx[v].lastReadGeneration
    /\ ~ctx[v].readCompleted

FreshData(v) ==
    /\ state.dataReady
    /\ state.generation > ctx[v].lastReadGeneration

StartReading(v) ==
    /\ ctx' = [ctx EXCEPT ![v].readOffset = 0,
                          ![v].activeReadGeneration = state.generation,
                          ![v].readCompleted = FALSE]
    /\ reply' = [reply EXCEPT ![v] = state.size]
    /\ received' = [received EXCEPT ![v] = <<>>]
    /\ Resume(v)
    /\ UNCHANGED <<state, waiting, sent>>

BeginReaderRound(v, io) ==
    /\ Runs(v, io, "beginReaderRound")
    /\ \/ (UnfinishedRead(v) \/ state.stopped) /\ Fail(v)
       \/ /\ ~UnfinishedRead(v) /\ ~state.stopped
          /\ \/ ~FreshData(v) /\ Sleep(v, io)
             \/ FreshData(v) /\ StartReading(v)

MayRead(v) ==
    /\ ~state.stopped
    /\ ctx[v].activeReadGeneration = state.generation
    /\ ctx[v].readOffset < state.size

GiveByte(v, b) ==
    /\ reply' = [reply EXCEPT ![v] = b]
    /\ received' = [received EXCEPT ![v] = Append(@, b)]
    /\ ctx' = [ctx EXCEPT ![v].readOffset = @ + 1]
    /\ Resume(v)
    /\ UNCHANGED <<state, waiting, sent>>

ReadSharedByte(v, io) ==
    /\ Runs(v, io, "readSharedByte")
    /\ \/ ~MayRead(v) /\ Fail(v)
       \/ MayRead(v) /\ GiveByte(v, state.data[ctx[v].readOffset])

(* Mutant: a reader may acknowledge bytes it has not read. *)
AcknowledgesUnread(v, io) ==
    /\ ~state.stopped /\ ~ctx[v].readCompleted
    /\ ctx[v].activeReadGeneration = state.generation
    /\ io.val = state.size /\ state.completedReaders < readerCount
MayAcknowledge(v, io) ==
    /\ ~state.stopped
    /\ ~ctx[v].readCompleted
    /\ ctx[v].activeReadGeneration = state.generation
    /\ ctx[v].readOffset = state.size
    /\ io.val = state.size
    /\ state.completedReaders < readerCount

Acknowledge(v) ==
    /\ ctx' = [ctx EXCEPT ![v].readCompleted = TRUE,
                          ![v].lastReadGeneration = ctx[v].activeReadGeneration,
                          ![v].transferCompleted = TRUE]
    /\ state' = [state EXCEPT !.completedReaders = @ + 1]
    /\ NotifyAll
    /\ Resume(v)
    /\ UNCHANGED <<reply, sent, received>>

FinishReaderRound(v, io) ==
    /\ Runs(v, io, "finishReaderRound")
    /\ \/ ~MayAcknowledge(v, io) /\ Fail(v)
       \/ MayAcknowledge(v, io) /\ Acknowledge(v)
---------------------------------------------------------------------------
(* Mutant: the abort is not announced. *)
AbortSilently == state' = [state EXCEPT !.stopped = TRUE] /\ UNCHANGED waiting

(* abortSharedBuffer, called by runGuest after a failure ... *)
Abort ==
    /\ state' = [state EXCEPT !.stopped = TRUE]
    /\ NotifyAll

AbortSharedBuffer(v) ==
    /\ thread[v] = "failing"
    /\ Abort
    /\ thread' = [thread EXCEPT ![v] = "failed"]
    /\ UNCHANGED <<ctx, exit, reply, sent, received>>

(* ... and by main when a thread cannot be created or joined. *)
MainAborts ==
    /\ ~state.stopped
    /\ Abort
    /\ UNCHANGED <<ctx, thread, exit, reply, sent, received>>

(* std::condition_variable may wake a thread without a notification. *)
SpuriousWakeup(v) ==
    /\ v \in waiting
    /\ waiting' = waiting \ {v}
    /\ UNCHANGED <<state, ctx, thread, exit, reply, sent, received>>

Handle(v, io) ==
    \/ Reject(v, io)
    \/ DeliverMode(v, io)
    \/ BeginWriterRound(v, io)
    \/ WriteSharedByte(v, io)
    \/ FinishWriterRound(v, io)
    \/ BeginReaderRound(v, io)
    \/ ReadSharedByte(v, io)
    \/ FinishReaderRound(v, io)
---------------------------------------------------------------------------
(* The other ways a guest leaves KVM_RUN.                                  *)

(* KVM_EXIT_HLT: success only after a completed transfer. *)
GuestHalts(v) ==
    /\ thread[v] = "guest"
    /\ thread' = [thread EXCEPT ![v] =
                    IF ctx[v].transferCompleted THEN "succeeded" ELSE "failing"]
    /\ UNCHANGED <<state, ctx, exit, reply, waiting, sent, received>>

(* Any other way runVirtualMachine returns false: a failed set-up, a       *)
(* shutdown, an unexpected exit, a failed serial or file access.           *)
GuestFails(v) ==
    /\ thread[v] = "guest"
    /\ thread' = [thread EXCEPT ![v] = "failing"]
    /\ UNCHANGED <<state, ctx, exit, reply, waiting, sent, received>>

(* The order of read_shared_buffer: bytes and the acknowledgement only     *)
(* between a size and its acknowledgement.                                 *)
Ordered(v, io) ==
    (/\ v \in Readers /\ ctx[v].modeDelivered
     /\ ReaderHandler(io) \in {"readSharedByte", "finishReaderRound"})
        => UnfinishedRead(v)

(* Bound on the rounds of the model. *)
WithinBound(v, io) ==
    (v = Writer /\ WriterHandler(io) = "beginWriterRound")
        => state.generation < MaxGeneration

Thread(v) ==
    \/ AbortSharedBuffer(v)
    \/ SpuriousWakeup(v)
    \/ GuestHalts(v)
    \/ GuestFails(v)

Next ==
    \/ \E v \in VMs : \E io \in Io : WithinBound(v, io) /\ Handle(v, io)
    \/ \E v \in VMs : Thread(v)
    \/ MainAborts

OrderedNext ==
    \/ \E v \in VMs : \E io \in Io :
            WithinBound(v, io) /\ Ordered(v, io) /\ Handle(v, io)
    \/ \E v \in VMs : Thread(v)
    \/ MainAborts

(* A thread that is awake in a handler, or that has to abort the buffer,   *)
(* goes on: the operating system schedules it and the mutex is only ever   *)
(* held for a bounded time.  Nothing is assumed of the guests.             *)
Fairness ==
    \A v \in VMs :
        /\ WF_vars(thread[v] = "blocked" /\ Handle(v, exit[v]))
        /\ WF_vars(AbortSharedBuffer(v))

Spec == Init /\ [][Next]_vars
FairSpec == Spec /\ Fairness
OrderedSpec == Init /\ [][OrderedNext]_vars
OrderedFairSpec == OrderedSpec /\ Fairness
---------------------------------------------------------------------------
TypeOK ==
    /\ state \in StateType
    /\ ctx \in [VMs -> CtxType]
    /\ thread \in [VMs -> ThreadType]
    /\ exit \in [VMs -> Io]
    /\ reply \in [VMs -> Nat]
    /\ waiting \subseteq VMs
    /\ sent \in Seq(Byte)
    /\ received \in [Readers -> Seq(Byte)]

(* The predicate of the condition.wait in the handler that serves io. *)
HandlerReady(v, io) ==
    \/ state.stopped
    \/ Handler(v, io) = "beginWriterRound" /\ RoundFree
    \/ Handler(v, io) = "finishWriterRound" /\ AllAcknowledged(v)
    \/ Handler(v, io) = "beginReaderRound" /\ FreshData(v)

(* The predicate a blocked thread waits for. *)
WakeCondition(v) == HandlerReady(v, exit[v])

(* No wake-up is lost: a thread asleep in beginWriterRound,                *)
(* finishWriterRound or beginReaderRound has a false predicate, so no      *)
(* change of the shared state that concerns it was left unannounced.       *)
NoLostWakeup == \A v \in waiting : thread[v] = "blocked" /\ ~WakeCondition(v)

(* The message of a round: what fits of the bytes the writer sent. *)
Message == SubSeq(sent, 1, StoredSize(Len(sent)))

(* Whatever the guests do, the buffer holds the first BufferSize bytes the *)
(* writer sent, a published round is complete and has the size of its      *)
(* message, and a reader that passes the checks of readSharedByte reads    *)
(* inside the message or inside what beginWriterRound announced.           *)
BufferHoldsMessage ==
    /\ Len(sent) = state.receivedBytes
    /\ \A i \in 1..StoredSize(Len(sent)) : state.data[i - 1] = sent[i]
    /\ state.dataReady => state.size = Len(Message)
    /\ \A r \in Readers : MayRead(r) => ctx[r].readOffset \in DOMAIN state.data

(* While a reader is between its size and its acknowledgement, no step     *)
(* changes what it reads: the next beginWriterRound is held back.          *)
NoOverwriteWhileReading ==
    [][(\E r \in Readers : UnfinishedRead(r))
         => /\ state'.data = state.data
            /\ state'.size = state.size
            /\ state'.generation = state.generation
            /\ state'.dataReady]_vars

(* finishWriterRound hands the final count to the writer only when every   *)
(* reader has acknowledged this generation.                                *)
FinishMeansAllAcknowledged ==
    [][(state.roundInProgress /\ ~state'.roundInProgress)
         => \A r \in Readers : ctx[r].lastReadGeneration = state.generation]_vars

(* A reader that acknowledged the published round got exactly its message. *)
AcknowledgedMeansDelivered ==
    \A r \in Readers :
        (state.dataReady /\ ctx[r].lastReadGeneration = state.generation)
            => received[r] = Message

(* A VM that runGuest reports as successful took part in a whole transfer: *)
(* a reader acknowledged a published round, and the writer, which the code *)
(* marks in finishWriterRound, has been heard by every reader.             *)
SuccessMeansTransfer ==
    \A v \in VMs : thread[v] = "succeeded" =>
        IF v = Writer
        THEN state.generation > 0 /\ \A r \in Readers : ctx[r].lastReadGeneration > 0
        ELSE ctx[v].lastReadGeneration > 0

(* After an abort nobody stays blocked on the buffer: every VM that was in *)
(* a blocking handler fails.                                               *)
AbortReleasesEveryone ==
    \A v \in VMs : (state.stopped /\ thread[v] = "blocked") ~> thread[v] = "failed"

(* A blocked reader gets the size of a round it has not read, and the      *)
(* blocked writer gets the final count once everyone has acknowledged.     *)
PublishedDataIsServed ==
    \A v \in VMs :
        (thread[v] = "blocked" /\ WakeCondition(v)) ~> thread[v] # "blocked"

(* For ordered readers the buffer is a broadcast: seen from outside, a     *)
(* round is one message, offered when it is published, taken by a reader   *)
(* with its acknowledgement, and over when the writer has its count.       *)
OnOffer == state.dataReady /\ state.roundInProgress
BufferBroadcast ==
    INSTANCE Broadcast WITH
        offered <- IF OnOffer THEN <<Message>> ELSE <<>>,
        taken <- [r \in Readers |->
                    IF OnOffer /\ ctx[r].lastReadGeneration = state.generation
                    THEN <<received[r]>> ELSE <<>>]
ImplementsBroadcast == BufferBroadcast!Spec
---------------------------------------------------------------------------
(* The inductive invariants behind the theorems of SharedBufferProofs.     *)

(* For any guests: what is stored, announced and counted of the round.     *)
RoundContents ==
    /\ Len(sent) = state.receivedBytes
    /\ \A i \in 1..StoredSize(Len(sent)) : state.data[i - 1] = sent[i]
    /\ state.size = StoredSize(state.expectedBytes)
    /\ state.dataReady => state.receivedBytes = state.expectedBytes

(* The readers that acknowledged the published round. *)
Acknowledged ==
    {r \in Readers : state.dataReady /\ ctx[r].lastReadGeneration = state.generation}

(* For ordered readers: how the generation counters of a reader and the    *)
(* two flags of the round go together ...                                  *)
ReaderProtocol(r) ==
    /\ ctx[r].lastReadGeneration <= ctx[r].activeReadGeneration
    /\ ctx[r].activeReadGeneration <= state.generation
    /\ UnfinishedRead(r) <=> ctx[r].activeReadGeneration > ctx[r].lastReadGeneration
    /\ UnfinishedRead(r) => /\ ctx[r].activeReadGeneration = state.generation
                            /\ state.dataReady /\ state.roundInProgress
    /\ ~state.dataReady \/ ~state.roundInProgress
          => ctx[r].lastReadGeneration = state.generation

(* ... and what the count of acknowledgements counts. *)
RoundProtocol ==
    /\ state.completedReaders = Cardinality(Acknowledged)
    /\ \A r \in Readers : ReaderProtocol(r)

(* For ordered readers: what a reader holds in the middle of a round and   *)
(* after it.                                                               *)
Delivery(r) ==
    /\ UnfinishedRead(r) =>
        /\ Len(received[r]) = ctx[r].readOffset
        /\ ctx[r].readOffset <= state.size
        /\ \A i \in 1..ctx[r].readOffset : received[r][i] = state.data[i - 1]
    /\ r \in Acknowledged => received[r] = Message

(* For ordered readers: what transferCompleted stands for. *)
CompletedTransfers ==
    \A v \in VMs :
        /\ thread[v] = "succeeded" => ctx[v].transferCompleted
        /\ ctx[v].transferCompleted =>
              IF v = Writer
              THEN state.generation > 0 /\ \A r \in Readers : ctx[r].lastReadGeneration > 0
              ELSE ctx[v].lastReadGeneration > 0
=============================================================================
