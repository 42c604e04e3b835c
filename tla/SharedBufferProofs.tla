--------------------------- MODULE SharedBufferProofs ---------------------------
(***************************************************************************)
(* Theorems about SharedBuffer for any guests (Spec): types, wake-ups and  *)
(* the contents of the buffer.  NoLostWakeup is inductive relative to      *)
(* TypeOK; BufferHoldsMessage follows from RoundContents, which also says  *)
(* what the announced size and the publication stand for in the middle of  *)
(* a round.  HandleCases splits a handler's run into its outcomes and is   *)
(* the case distinction of every proof about a step.                       *)
(***************************************************************************)
EXTENDS SharedBuffer, FiniteSetTheorems, SequenceTheorems, TLAPS

USE DEF VMs

(* An exit has one of the access sizes, and a one-byte OUT carries a byte. *)
LEMMA IoType ==
    ASSUME NEW io \in Io
    PROVE  /\ io.size \in {1, 2, 4}
           /\ io.val \in Nat
           /\ (io.dir = "out" /\ io.size = 1) => io.val \in Byte
  BY ConstantsAssumption DEF Io, In, Out

(* What is stored of n bytes is no more than n and than the buffer holds. *)
LEMMA StoredSizeType ==
    ASSUME NEW n \in Nat
    PROVE  /\ StoredSize(n) \in Nat
           /\ StoredSize(n) <= n
           /\ StoredSize(n) <= BufferSize
  BY ConstantsAssumption DEF StoredSize

(* The dispatch of handleSharedBufferIo gives a writer handler only to the *)
(* writer, with the direction and the access size the handler expects.     *)
LEMMA HandlerWriter ==
    ASSUME NEW v \in VMs, NEW io \in Io,
           Handler(v, io) \in {"beginWriterRound", "writeSharedByte", "finishWriterRound"}
    PROVE  /\ v = Writer
           /\ io.dir = (IF Handler(v, io) = "finishWriterRound" THEN "in" ELSE "out")
           /\ io.size = (IF Handler(v, io) = "writeSharedByte" THEN 1 ELSE 4)
  BY DEF Handler, ModeHandler, WriterHandler, ReaderHandler

(* The dispatch gives a reader handler only to a reader that has its mode. *)
LEMMA HandlerReader ==
    ASSUME NEW v \in VMs, NEW io \in Io,
           Handler(v, io) \in {"beginReaderRound", "readSharedByte", "finishReaderRound"}
    PROVE  v \in Readers /\ v # Writer /\ ctx[v].modeDelivered /\ ReaderHandler(io) = Handler(v, io)
  BY DEF Handler, ModeHandler, WriterHandler, ReaderHandler

(* The state main.cpp starts from is well typed. *)
LEMMA InitType == Init => TypeOK
  BY ConstantsAssumption DEF Init, TypeOK, StateType, CtxType, ThreadType, NoIo, In, Io, Ports

(* writeSharedByte stores inside the buffer. *)
LEMMA StoreType ==
    ASSUME state \in StateType, NEW b \in Byte
    PROVE  Store(b) \in StateType
<1>1. state.receivedBytes + 1 \in Nat
  BY DEF StateType
<1>2. (IF state.receivedBytes < BufferSize
       THEN [state.data EXCEPT ![state.receivedBytes] = b] ELSE state.data)
        \in [0..(BufferSize - 1) -> Byte]
  BY DEF StateType
<1> QED  BY <1>1, <1>2, Zenon DEF Store, StateType

(* beginWriterRound leaves a well-typed shared state. *)
LEMMA NewRoundType ==
    ASSUME state \in StateType, NEW n \in Nat
    PROVE  NewRound(n) \in StateType
<1>1. StoredSize(n) \in 0..BufferSize /\ 0 \in Nat
  BY StoredSizeType, ConstantsAssumption
<1> QED  BY <1>1, Zenon DEF NewRound, StateType

(* finishWriterData leaves a well-typed shared state. *)
LEMMA PublishType ==
    ASSUME NEW st \in StateType
    PROVE  PublishIfComplete(st) \in StateType
<1>1. st.generation + 1 \in Nat
  BY DEF StateType
<1> QED  BY <1>1, Zenon DEF PublishIfComplete, Publish, StateType

(* A thread outside a handler has an exit to show for it. *)
LEMMA NoIoType == NoIo \in Io
  BY DEF NoIo, Io, Ports, In

(* Every run of a handler fails, sleeps, or ends with its effect. *)
LEMMA HandleCases ==
    ASSUME NEW v \in VMs, NEW io \in Io, Handle(v, io)
    PROVE  \/ Fail(v)
           \/ Sleep(v, io) /\ ~HandlerReady(v, io)
           \/ DeliverMode(v, io)
           \/ /\ Handler(v, io) = "beginWriterRound"
              /\ ~state.stopped /\ RoundFree /\ OpenRound(v, io.val)
           \/ /\ Handler(v, io) = "writeSharedByte"
              /\ MayWrite /\ TakeByte(v, io.val)
           \/ /\ Handler(v, io) = "finishWriterRound"
              /\ ctx[v].writeGeneration # 0 /\ AllAcknowledged(v) /\ CloseRound(v)
           \/ /\ Handler(v, io) = "beginReaderRound"
              /\ ~UnfinishedRead(v) /\ FreshData(v) /\ StartReading(v)
           \/ /\ Handler(v, io) = "readSharedByte"
              /\ MayRead(v) /\ GiveByte(v, state.data[ctx[v].readOffset])
           \/ /\ Handler(v, io) = "finishReaderRound"
              /\ MayAcknowledge(v, io) /\ Acknowledge(v)
  BY DEF Handle, HandlerReady, Runs, Reject, BeginWriterRound, WriteSharedByte,
         FinishWriterRound, BeginReaderRound, ReadSharedByte, FinishReaderRound

(* Every handler of handleSharedBufferIo keeps the types. *)
LEMMA HandleType ==
    ASSUME TypeOK, NEW v \in VMs, NEW io \in Io, Handle(v, io)
    PROVE  TypeOK'
<1> USE DEF TypeOK
<1>1. CASE Fail(v)
  BY <1>1, NoIoType DEF Fail, ThreadType
<1>2. CASE Sleep(v, io)
  BY <1>2 DEF Sleep, ThreadType
<1>3. ASSUME Resume(v) PROVE thread' \in [VMs -> ThreadType] /\ exit' \in [VMs -> Io]
  BY <1>3, NoIoType DEF Resume, ThreadType
<1>4. ASSUME NotifyAll \/ UNCHANGED waiting PROVE waiting' \subseteq VMs
  BY <1>4 DEF NotifyAll
<1>5. CASE DeliverMode(v, io)
  BY <1>5, <1>3 DEF DeliverMode, CtxType
<1>6. CASE OpenRound(v, io.val)
  <2>1. state' \in StateType
    BY <1>6, IoType, NewRoundType, PublishType DEF OpenRound
  <2>2. (IF state'.dataReady THEN state'.generation ELSE 0) \in Nat
    BY <2>1 DEF StateType
  <2>3. ctx' \in [VMs -> CtxType]
    BY <1>6, <2>2, ZenonT(60) DEF OpenRound, CtxType
  <2> QED  BY <1>6, <1>3, <1>4, <2>1, <2>3 DEF OpenRound
<1>7. CASE Handler(v, io) = "writeSharedByte" /\ TakeByte(v, io.val)
  <2>1. io.val \in Byte
    BY <1>7, IoType, HandlerWriter
  <2>2. state' \in StateType
    BY <1>7, <2>1, StoreType, PublishType DEF TakeByte
  <2>3. (IF state'.dataReady THEN state'.generation ELSE ctx[v].writeGeneration) \in Nat
    BY <2>2 DEF StateType, CtxType
  <2>4. ctx' \in [VMs -> CtxType]
    BY <1>7, <2>3, ZenonT(60) DEF TakeByte, CtxType
  <2>5. sent' \in Seq(Byte)
    BY <1>7, <2>1 DEF TakeByte
  <2> QED  BY <1>7, <1>3, <1>4, <2>2, <2>4, <2>5 DEF TakeByte
<1>8. CASE CloseRound(v)
  <2>1. state' \in StateType
    BY <1>8 DEF CloseRound, StateType
  <2>2. ctx' \in [VMs -> CtxType]
    BY <1>8, 0 \in Nat, ZenonT(60) DEF CloseRound, CtxType
  <2>3. reply' \in [VMs -> Nat]
    BY <1>8, ConstantsAssumption DEF CloseRound, StateType
  <2> QED  BY <1>8, <1>3, <1>4, <2>1, <2>2, <2>3 DEF CloseRound
<1>9. CASE Handler(v, io) = "beginReaderRound" /\ StartReading(v)
  <2>1. state.generation \in Nat /\ state.size \in Nat /\ 0 \in Nat
    BY ConstantsAssumption DEF StateType
  <2>2. ctx' \in [VMs -> CtxType]
    <3>1. ctx' = [ctx EXCEPT ![v].readOffset = 0,
                             ![v].activeReadGeneration = state.generation,
                             ![v].readCompleted = FALSE]
      BY <1>9 DEF StartReading
    <3>2. ctx \in [VMs -> CtxType]
      OBVIOUS
    <3> HIDE DEF TypeOK, VMs
    <3> QED  BY <2>1, <3>1, <3>2, ZenonT(60) DEF CtxType
  <2>3. received' \in [Readers -> Seq(Byte)]
    BY <1>9, HandlerReader DEF StartReading
  <2>4. reply' \in [VMs -> Nat]
    BY <1>9, <2>1 DEF StartReading
  <2> QED  BY <1>9, <1>3, <2>2, <2>3, <2>4 DEF StartReading
<1>10. CASE /\ Handler(v, io) = "readSharedByte" /\ MayRead(v)
            /\ GiveByte(v, state.data[ctx[v].readOffset])
  <2> DEFINE b == state.data[ctx[v].readOffset]
  <2>1. b \in Byte
    <3>1. state.data \in [0..(BufferSize - 1) -> Byte] /\ state.size \in 0..BufferSize
      BY DEF StateType
    <3>2. ctx[v].readOffset \in 0..(BufferSize - 1)
      BY <1>10, <3>1, ConstantsAssumption, SMTT(30) DEF MayRead, CtxType
    <3> QED  BY <3>1, <3>2, Zenon
  <2>2. ctx[v].readOffset + 1 \in Nat
    BY DEF CtxType
  <2>3. ctx' \in [VMs -> CtxType]
    BY <1>10, <2>2, ZenonT(60) DEF GiveByte, CtxType
  <2>4. v \in Readers
    BY <1>10, HandlerReader
  <2> HIDE DEF b
  <2>5. Append(received[v], b) \in Seq(Byte)
    BY <2>1, <2>4
  <2>6. received' \in [Readers -> Seq(Byte)]
    BY <1>10, <2>4, <2>5, Zenon DEF GiveByte, b
  <2>7. reply' \in [VMs -> Nat]
    BY <1>10, <2>1, ConstantsAssumption DEF GiveByte, b
  <2> QED  BY <1>10, <1>3, <2>3, <2>6, <2>7 DEF GiveByte
<1>11. CASE Acknowledge(v)
  <2>1. state.completedReaders + 1 \in Nat /\ ctx[v].activeReadGeneration \in Nat
    BY DEF StateType, CtxType
  <2>2. state' \in StateType
    BY <1>11, <2>1, Zenon DEF Acknowledge, StateType
  <2>3. ctx' \in [VMs -> CtxType]
    <3>1. ctx' = [ctx EXCEPT ![v].readCompleted = TRUE,
                             ![v].lastReadGeneration = ctx[v].activeReadGeneration,
                             ![v].transferCompleted = TRUE]
      BY <1>11 DEF Acknowledge
    <3>2. ctx \in [VMs -> CtxType]
      OBVIOUS
    <3> HIDE DEF TypeOK, VMs
    <3> QED  BY <2>1, <3>1, <3>2, ZenonT(60) DEF CtxType
  <2> QED  BY <1>11, <1>3, <1>4, <2>2, <2>3 DEF Acknowledge
<1> QED
  BY HandleCases, <1>1, <1>2, <1>5, <1>6, <1>7, <1>8, <1>9, <1>10, <1>11

(* The steps of a VM's thread outside the handlers keep the types. *)
LEMMA ThreadStepType ==
    ASSUME TypeOK, NEW v \in VMs, Thread(v)
    PROVE  TypeOK'
<1>1. CASE AbortSharedBuffer(v)
  <2>1. state' \in StateType
    BY <1>1 DEF AbortSharedBuffer, Abort, TypeOK, StateType
  <2> QED  BY <1>1, <2>1 DEF AbortSharedBuffer, Abort, NotifyAll, TypeOK, ThreadType
<1>2. CASE SpuriousWakeup(v)
  BY <1>2 DEF SpuriousWakeup, TypeOK
<1>3. CASE GuestHalts(v) \/ GuestFails(v)
  BY <1>3 DEF GuestHalts, GuestFails, TypeOK, ThreadType
<1> QED  BY <1>1, <1>2, <1>3 DEF Thread

(* Every step keeps the types. *)
LEMMA NextType == TypeOK /\ [Next]_vars => TypeOK'
<1> SUFFICES ASSUME TypeOK, [Next]_vars PROVE TypeOK'
  OBVIOUS
<1>1. CASE \E v \in VMs : \E io \in Io : WithinBound(v, io) /\ Handle(v, io)
  BY <1>1, HandleType
<1>2. CASE \E v \in VMs : Thread(v)
  BY <1>2, ThreadStepType
<1>3. CASE MainAborts
  BY <1>3 DEF MainAborts, Abort, NotifyAll, TypeOK, StateType
<1>4. CASE UNCHANGED vars
  BY <1>4 DEF vars, TypeOK
<1> QED  BY <1>1, <1>2, <1>3, <1>4 DEF Next

(* Whatever the guests do, the shared state, the per-VM contexts and the   *)
(* thread states keep their types; in particular the stored size never     *)
(* exceeds BUFFER_SIZE.                                                    *)
THEOREM TypeCorrect == Spec => []TypeOK
<1>1. Init => TypeOK
  BY InitType
<1>2. TypeOK /\ [Next]_vars => TypeOK'
  BY NextType
<1> QED  BY <1>1, <1>2, PTL DEF Spec
---------------------------------------------------------------------------
(* A thread runs a handler only when it is not asleep. *)
LEMMA RunnerIsAwake ==
    ASSUME NoLostWakeup, NEW v \in VMs, NEW io \in Io, Handle(v, io)
    PROVE  v \notin waiting
  BY DEF Handle, Runs, Reject, DeliverMode, BeginWriterRound, WriteSharedByte,
         FinishWriterRound, BeginReaderRound, ReadSharedByte, FinishReaderRound,
         NoLostWakeup

(* A step that leaves the shared state and a thread's own data alone       *)
(* leaves the predicate that thread waits for as it was.                   *)
LEMMA WakeConditionFrame ==
    ASSUME NEW v \in VMs, state' = state, ctx'[v] = ctx[v], exit'[v] = exit[v]
    PROVE  WakeCondition(v)' <=> WakeCondition(v)
  BY DEF WakeCondition, HandlerReady, Handler, RoundFree, AllAcknowledged, FreshData

(* A handler that makes somebody's predicate true notifies everybody, and  *)
(* one that sleeps has just seen its own predicate false.                  *)
LEMMA HandleWakeup ==
    ASSUME TypeOK, NoLostWakeup, NEW u \in VMs, NEW io \in Io, Handle(u, io)
    PROVE  NoLostWakeup'
<1> SUFFICES ASSUME NEW v \in waiting'
             PROVE  thread'[v] = "blocked" /\ ~WakeCondition(v)'
  BY DEF NoLostWakeup
<1>0. u \notin waiting
  BY RunnerIsAwake
<1>1. CASE waiting' = waiting /\ state' = state
           /\ \A x \in VMs \ {u} : ctx'[x] = ctx[x] /\ exit'[x] = exit[x] /\ thread'[x] = thread[x]
  <2>1. v \in VMs \ {u} /\ v \in waiting
    BY <1>0, <1>1 DEF TypeOK
  <2> QED  BY <1>1, <2>1, WakeConditionFrame DEF NoLostWakeup
<1>2. CASE Fail(u)
  BY <1>1, <1>2 DEF Fail, TypeOK
<1>3. CASE Sleep(u, io) /\ ~HandlerReady(u, io)
  <2>1. CASE v = u
    BY <1>3, <2>1 DEF Sleep, WakeCondition, HandlerReady, Handler, RoundFree,
       AllAcknowledged, FreshData, TypeOK
  <2>2. CASE v # u
    BY <1>3, <2>2, WakeConditionFrame DEF Sleep, TypeOK, NoLostWakeup
  <2> QED  BY <2>1, <2>2
<1>4. CASE DeliverMode(u, io) \/ StartReading(u)
           \/ GiveByte(u, state.data[ctx[u].readOffset])
  BY <1>1, <1>4 DEF DeliverMode, StartReading, GiveByte, Resume, TypeOK
<1>5. CASE CloseRound(u) \/ Acknowledge(u)
  BY <1>5 DEF CloseRound, Acknowledge, NotifyAll
<1>6. CASE /\ Handler(u, io) = "beginWriterRound"
           /\ ~state.stopped /\ RoundFree /\ OpenRound(u, io.val)
  <2>1. u = Writer /\ io.val \in Nat
    BY <1>6, HandlerWriter, IoType
  <2>2. v \in waiting /\ ~state'.dataReady
    BY <1>6 DEF OpenRound, NotifyAll
  <2>3. state'.roundInProgress /\ ~state'.stopped
    BY <1>6 DEF OpenRound, PublishIfComplete, Publish, NewRound, TypeOK, StateType
  <2>4. thread'[v] = "blocked"
    BY <1>0, <1>6, <2>2 DEF OpenRound, Resume, NoLostWakeup, TypeOK
  <2> QED
    BY <2>2, <2>3, <2>4 DEF WakeCondition, HandlerReady, RoundFree, AllAcknowledged, FreshData
<1>7. CASE /\ Handler(u, io) = "writeSharedByte"
           /\ MayWrite /\ TakeByte(u, io.val)
  <2>2. v \in waiting /\ ~state'.dataReady
    BY <1>7 DEF TakeByte, NotifyAll
  <2>3. state'.roundInProgress /\ ~state'.stopped
    BY <1>7 DEF TakeByte, MayWrite, PublishIfComplete, Publish, Store, TypeOK, StateType
  <2>4. thread'[v] = "blocked"
    BY <1>0, <1>7, <2>2 DEF TakeByte, Resume, NoLostWakeup, TypeOK
  <2> QED
    BY <2>2, <2>3, <2>4 DEF WakeCondition, HandlerReady, RoundFree, AllAcknowledged, FreshData
<1> QED  BY HandleCases, <1>2, <1>3, <1>4, <1>5, <1>6, <1>7

(* No step leaves a thread asleep with a true predicate. *)
LEMMA NextWakeup ==
    ASSUME TypeOK, NoLostWakeup, [Next]_vars
    PROVE  NoLostWakeup'
<1>1. CASE \E v \in VMs : \E io \in Io : WithinBound(v, io) /\ Handle(v, io)
  BY <1>1, HandleWakeup
<1>2. ASSUME NEW u \in VMs, AbortSharedBuffer(u) PROVE NoLostWakeup'
  BY <1>2 DEF AbortSharedBuffer, Abort, NotifyAll, NoLostWakeup
<1>3. CASE MainAborts
  BY <1>3 DEF MainAborts, Abort, NotifyAll, NoLostWakeup
<1>4. ASSUME NEW u \in VMs, SpuriousWakeup(u) PROVE NoLostWakeup'
  <2>1. \A v \in waiting' : v \in waiting /\ v \in VMs
    BY <1>4 DEF SpuriousWakeup, TypeOK
  <2> QED  BY <1>4, <2>1, WakeConditionFrame DEF SpuriousWakeup, NoLostWakeup
<1>5. ASSUME NEW u \in VMs, GuestHalts(u) \/ GuestFails(u) PROVE NoLostWakeup'
  <2>1. \A v \in waiting' : v \in waiting /\ v \in VMs /\ v # u /\ thread'[v] = thread[v]
    BY <1>5 DEF GuestHalts, GuestFails, NoLostWakeup, TypeOK
  <2> QED  BY <1>5, <2>1, WakeConditionFrame DEF GuestHalts, GuestFails, NoLostWakeup
<1>6. CASE UNCHANGED vars
  BY <1>6, WakeConditionFrame DEF vars, NoLostWakeup, TypeOK
<1> QED  BY <1>1, <1>2, <1>3, <1>4, <1>5, <1>6 DEF Next, Thread

(* Whatever the guests do and however many readers there are, no thread    *)
(* sleeps in condition.wait while its predicate is true: every change of   *)
(* the shared state that can make a predicate true is announced.           *)
THEOREM NoWakeupIsLost == Spec => []NoLostWakeup
<1>1. Init => NoLostWakeup
  BY DEF Init, NoLostWakeup
<1>2. TypeOK /\ NoLostWakeup /\ [Next]_vars => NoLostWakeup'
  BY NextWakeup
<1> QED  BY <1>1, <1>2, TypeCorrect, PTL DEF Spec
---------------------------------------------------------------------------
(* The fields a new round, a stored byte and a publication leave behind.   *)
LEMMA NewRoundFields ==
    ASSUME state \in StateType, NEW n \in Nat, NEW st, st = PublishIfComplete(NewRound(n))
    PROVE  /\ st.expectedBytes = n /\ st.receivedBytes = 0 /\ st.size = StoredSize(n)
           /\ st.data = state.data /\ st.completedReaders = 0
           /\ st.dataReady <=> n = 0
           /\ st.generation = (IF n = 0 THEN state.generation + 1 ELSE state.generation)
           /\ st.roundInProgress /\ st.stopped = state.stopped
  BY DEF PublishIfComplete, Publish, NewRound, StateType

(* The fields writeSharedByte leaves behind. *)
LEMMA StoreFields ==
    ASSUME state \in StateType, NEW b \in Byte, MayWrite,
           NEW st, st = PublishIfComplete(Store(b))
    PROVE  /\ st.expectedBytes = state.expectedBytes /\ st.size = state.size
           /\ st.receivedBytes = state.receivedBytes + 1
           /\ st.data = (IF state.receivedBytes < BufferSize
                         THEN [state.data EXCEPT ![state.receivedBytes] = b] ELSE state.data)
           /\ st.completedReaders = state.completedReaders
           /\ st.dataReady <=> st.receivedBytes = state.expectedBytes
           /\ st.generation = (IF st.dataReady THEN state.generation + 1 ELSE state.generation)
           /\ st.roundInProgress /\ ~st.stopped
  BY DEF PublishIfComplete, Publish, Store, MayWrite, StateType

(* Every handler keeps the stored bytes those of the writer. *)
LEMMA HandleContents ==
    ASSUME TypeOK, RoundContents, NEW v \in VMs, NEW io \in Io, Handle(v, io)
    PROVE  RoundContents'
<1>1. CASE state' = state /\ sent' = sent
  BY <1>1 DEF RoundContents, StoredSize
<1>2. CASE Fail(v) \/ Sleep(v, io) \/ DeliverMode(v, io) \/ StartReading(v)
           \/ GiveByte(v, state.data[ctx[v].readOffset])
  BY <1>1, <1>2 DEF Fail, Sleep, DeliverMode, StartReading, GiveByte
<1>3. CASE CloseRound(v) \/ Acknowledge(v)
  <2>1. /\ sent' = sent /\ state'.data = state.data /\ state'.size = state.size
        /\ state'.receivedBytes = state.receivedBytes
        /\ state'.expectedBytes = state.expectedBytes
        /\ state'.dataReady = state.dataReady
    BY <1>3 DEF CloseRound, Acknowledge, TypeOK, StateType
  <2> QED  BY <2>1 DEF RoundContents, StoredSize
<1>4. CASE OpenRound(v, io.val)
  <2>1. io.val \in Nat /\ state' = PublishIfComplete(NewRound(io.val)) /\ sent' = <<>>
    BY <1>4, IoType DEF OpenRound
  <2>2. /\ state'.expectedBytes = io.val /\ state'.receivedBytes = 0
        /\ state'.size = StoredSize(io.val)
        /\ state'.dataReady <=> io.val = 0
    BY <2>1, NewRoundFields DEF TypeOK
  <2>3. StoredSize(Len(sent')) = 0
    BY <2>1, ConstantsAssumption DEF StoredSize
  <2> QED  BY <2>1, <2>2, <2>3 DEF RoundContents, StoredSize
<1>5. CASE Handler(v, io) = "writeSharedByte" /\ MayWrite /\ TakeByte(v, io.val)
  <2> DEFINE b == io.val
             n == state.receivedBytes
  <2>1. b \in Byte /\ n \in Nat /\ state.data \in [0..(BufferSize - 1) -> Byte]
    BY <1>5, IoType, HandlerWriter DEF TypeOK, StateType
  <2>2. state' = PublishIfComplete(Store(b)) /\ sent' = Append(sent, b)
    BY <1>5 DEF TakeByte
  <2>3. /\ state'.expectedBytes = state.expectedBytes /\ state'.size = state.size
        /\ state'.receivedBytes = n + 1
        /\ state'.data = (IF n < BufferSize THEN [state.data EXCEPT ![n] = b] ELSE state.data)
        /\ state'.dataReady <=> state'.receivedBytes = state.expectedBytes
    BY <1>5, <2>1, <2>2, StoreFields DEF TypeOK
  <2>4. /\ Len(sent) = n /\ Len(sent') = n + 1 /\ sent'[n + 1] = b
        /\ \A i \in 1..n : sent'[i] = sent[i]
    BY <2>1, <2>2 DEF RoundContents, TypeOK
  <2> HIDE DEF b, n
  <2>5. ASSUME NEW i \in 1..StoredSize(Len(sent')) PROVE state'.data[i - 1] = sent'[i]
    <3>1. i \in 1..(n + 1) /\ i <= BufferSize
      BY <2>1, <2>4, ConstantsAssumption DEF StoredSize
    <3>2. CASE i = n + 1
      BY <2>1, <2>3, <2>4, <3>1, <3>2, ConstantsAssumption
    <3>3. CASE i # n + 1
      <4>1. i \in 1..StoredSize(Len(sent)) /\ i \in 1..n
        BY <2>1, <2>4, <3>1, <3>3, ConstantsAssumption DEF StoredSize
      <4>2. state.data[i - 1] = sent[i]
        BY <4>1 DEF RoundContents
      <4> QED  BY <2>1, <2>3, <2>4, <3>1, <4>1, <4>2, ConstantsAssumption
    <3> QED  BY <3>2, <3>3
  <2> QED  BY <2>3, <2>4, <2>5 DEF RoundContents, StoredSize, n
<1> QED  BY HandleCases, <1>2, <1>3, <1>4, <1>5

(* Every step keeps the stored bytes those of the writer. *)
LEMMA NextContents ==
    ASSUME TypeOK, RoundContents, [Next]_vars
    PROVE  RoundContents'
<1>1. CASE \E v \in VMs : \E io \in Io : WithinBound(v, io) /\ Handle(v, io)
  BY <1>1, HandleContents
<1>2. CASE MainAborts \/ \E v \in VMs : AbortSharedBuffer(v)
  <2>1. /\ sent' = sent /\ state'.data = state.data /\ state'.size = state.size
        /\ state'.receivedBytes = state.receivedBytes
        /\ state'.expectedBytes = state.expectedBytes
        /\ state'.dataReady = state.dataReady
    BY <1>2 DEF MainAborts, AbortSharedBuffer, Abort, TypeOK, StateType
  <2> QED  BY <2>1 DEF RoundContents, StoredSize
<1>3. CASE state' = state /\ sent' = sent
  BY <1>3 DEF RoundContents, StoredSize
<1>4. CASE \E v \in VMs : SpuriousWakeup(v) \/ GuestHalts(v) \/ GuestFails(v)
  BY <1>3, <1>4 DEF SpuriousWakeup, GuestHalts, GuestFails
<1>5. CASE UNCHANGED vars
  BY <1>3, <1>5 DEF vars
<1> QED  BY <1>1, <1>2, <1>4, <1>5 DEF Next, Thread

(* The stored part of the writer's bytes has the announced length. *)
LEMMA MessageLength ==
    ASSUME TypeOK
    PROVE  /\ Message \in Seq(Byte)
           /\ Len(Message) = StoredSize(Len(sent))
           /\ \A i \in 1..StoredSize(Len(sent)) : Message[i] = sent[i]
<1>1. sent \in Seq(Byte) /\ Len(sent) \in Nat
  BY DEF TypeOK
<1>2. StoredSize(Len(sent)) \in 0..Len(sent)
  BY <1>1, StoredSizeType
<1> QED  BY <1>1, <1>2 DEF Message

(* RoundContents is strong enough for what the runs check. *)
LEMMA ContentsHoldMessage == TypeOK /\ RoundContents => BufferHoldsMessage
<1> SUFFICES ASSUME TypeOK, RoundContents PROVE BufferHoldsMessage
  OBVIOUS
<1>1. state.dataReady => state.size = Len(Message)
  BY MessageLength DEF RoundContents
<1>2. ASSUME NEW r \in Readers, MayRead(r) PROVE ctx[r].readOffset \in DOMAIN state.data
  BY <1>2, ConstantsAssumption, SMTT(30) DEF MayRead, TypeOK, StateType, CtxType
<1> QED  BY <1>1, <1>2 DEF RoundContents, BufferHoldsMessage

(* Whatever the guests do, a published round is complete and the buffer    *)
(* holds the first BUFFER_SIZE bytes of it, and no byte is read outside    *)
(* the buffer.                                                             *)
THEOREM BufferIsFaithful == Spec => []BufferHoldsMessage
<1>1. Init => RoundContents
  BY ConstantsAssumption DEF Init, RoundContents, StoredSize
<1>2. TypeOK /\ RoundContents /\ [Next]_vars => RoundContents'
  BY NextContents
<1> QED  BY <1>1, <1>2, TypeCorrect, ContentsHoldMessage, PTL DEF Spec
=============================================================================
