------------------------ MODULE SharedBufferOrderedProofs ------------------------
(***************************************************************************)
(* Theorems about SharedBuffer when the reader guests keep to the order of *)
(* guest/src/interrupts.c (OrderedSpec).  The inductive invariant is       *)
(* RoundProtocol: a reader in the middle of a round pins that round, and   *)
(* the number of acknowledgements is the number of readers whose last      *)
(* generation is the published one.  Everything else rests on it.          *)
(***************************************************************************)
EXTENDS SharedBufferProofs

USE DEF VMs

(* A step of the ordered system is a step of the system. *)
LEMMA OrderedStep == [OrderedNext]_vars => [Next]_vars
  BY DEF OrderedNext, Next

(* What holds for any guests holds for ordered ones. *)
LEMMA OrderedBase == OrderedSpec => [](TypeOK /\ RoundContents)
<1>1. Init => TypeOK /\ RoundContents
  BY InitType, ConstantsAssumption DEF Init, RoundContents, StoredSize
<1>2. TypeOK /\ RoundContents /\ [OrderedNext]_vars => (TypeOK /\ RoundContents)'
  BY OrderedStep, NextType, NextContents
<1> QED  BY <1>1, <1>2, PTL DEF OrderedSpec

(* An acknowledgement or a byte is only asked for in the middle of a round. *)
LEMMA OrderedReader ==
    ASSUME NEW v \in VMs, NEW io \in Io, Ordered(v, io),
           Handler(v, io) \in {"readSharedByte", "finishReaderRound"}
    PROVE  v \in Readers /\ UnfinishedRead(v)
  BY HandlerReader DEF Ordered

(* What RoundProtocol says about one reader follows from its three         *)
(* generations, its flag and the round's generation and flags.             *)
LEMMA ProtocolFrame ==
    ASSUME RoundProtocol,
           state'.completedReaders = state.completedReaders,
           state'.generation = state.generation,
           state'.dataReady = state.dataReady,
           state'.roundInProgress = state.roundInProgress,
           \A r \in Readers :
              /\ ctx'[r].lastReadGeneration = ctx[r].lastReadGeneration
              /\ ctx'[r].activeReadGeneration = ctx[r].activeReadGeneration
              /\ ctx'[r].readCompleted = ctx[r].readCompleted
    PROVE  RoundProtocol'
<1>1. Acknowledged' = Acknowledged
  BY DEF Acknowledged
<1> QED  BY <1>1 DEF RoundProtocol, ReaderProtocol, UnfinishedRead

(* Counting: all readers have acknowledged when the count says so. *)
LEMMA CountIsComplete ==
    ASSUME RoundProtocol, NEW v \in VMs, AllAcknowledged(v)
    PROVE  \A r \in Readers : ctx[r].lastReadGeneration = state.generation
<1>1. Acknowledged \in SUBSET Readers /\ IsFiniteSet(Readers)
  BY ConstantsAssumption DEF Acknowledged
<1>2. Cardinality(Acknowledged) = Cardinality(Readers)
  BY DEF RoundProtocol, AllAcknowledged, readerCount
<1>3. Acknowledged = Readers
  BY <1>1, <1>2, FS_Subset
<1> QED  BY <1>3 DEF Acknowledged

(* A round that nobody reads yet: between rounds, or before publication,   *)
(* every reader has acknowledged all there was, so a new generation or a   *)
(* new round starts from zero acknowledgements.                            *)
LEMMA FreshRound ==
    ASSUME TypeOK, TypeOK',
           RoundProtocol, ~state.dataReady \/ ~state.roundInProgress,
           \A r \in Readers : ctx'[r] = ctx[r],
           state'.completedReaders = 0, state'.roundInProgress,
           state'.generation =
              (IF state'.dataReady THEN state.generation + 1 ELSE state.generation)
    PROVE  RoundProtocol'
<1>1. ASSUME NEW r \in Readers
      PROVE  /\ ctx[r].lastReadGeneration = state.generation
             /\ ctx[r].activeReadGeneration = state.generation
             /\ state.generation \in Nat
  <2>1. /\ ctx[r].lastReadGeneration \in Nat /\ ctx[r].activeReadGeneration \in Nat
        /\ state.generation \in Nat
    BY DEF TypeOK, StateType, CtxType
  <2>2. /\ ctx[r].lastReadGeneration = state.generation
        /\ ctx[r].lastReadGeneration <= ctx[r].activeReadGeneration
        /\ ctx[r].activeReadGeneration <= state.generation
    BY DEF RoundProtocol, ReaderProtocol
  <2> QED  BY <2>1, <2>2
<1>3. Acknowledged' = {}
  BY <1>1 DEF Acknowledged
<1>4. \A r \in Readers : ~UnfinishedRead(r)'
  BY <1>1 DEF UnfinishedRead
<1>5. Cardinality(Acknowledged') = 0
  BY <1>3, FS_EmptySet
<1> QED  BY <1>1, <1>4, <1>5 DEF RoundProtocol, ReaderProtocol

(* Every handler an ordered guest can reach keeps the protocol. *)
LEMMA HandleProtocol ==
    ASSUME TypeOK, TypeOK', RoundProtocol,
           NEW v \in VMs, NEW io \in Io, Ordered(v, io), Handle(v, io)
    PROVE  RoundProtocol'
<1>1. CASE Fail(v) \/ Sleep(v, io)
  BY <1>1, ProtocolFrame DEF Fail, Sleep
<1>2. CASE DeliverMode(v, io) \/ GiveByte(v, state.data[ctx[v].readOffset])
  <2>1. state' = state
    BY <1>2 DEF DeliverMode, GiveByte
  <2>2. \/ ctx' = [ctx EXCEPT ![v].modeDelivered = TRUE]
        \/ ctx' = [ctx EXCEPT ![v].readOffset = @ + 1]
    BY <1>2 DEF DeliverMode, GiveByte
  <2>3. ASSUME NEW r \in Readers
        PROVE  /\ ctx'[r].lastReadGeneration = ctx[r].lastReadGeneration
               /\ ctx'[r].activeReadGeneration = ctx[r].activeReadGeneration
               /\ ctx'[r].readCompleted = ctx[r].readCompleted
    <3>1. ctx \in [VMs -> CtxType] /\ r \in VMs
      BY DEF TypeOK
    <3>2. CASE ctx' = [ctx EXCEPT ![v].modeDelivered = TRUE]
      BY <3>1, <3>2 DEF CtxType
    <3>3. CASE ctx' = [ctx EXCEPT ![v].readOffset = @ + 1]
      BY <3>1, <3>3 DEF CtxType
    <3> QED  BY <2>2, <3>2, <3>3
  <2> QED  BY <2>1, <2>3, ProtocolFrame
<1>3. CASE /\ Handler(v, io) = "beginWriterRound"
           /\ RoundFree /\ OpenRound(v, io.val)
  <2>1. v = Writer /\ io.val \in Nat /\ state' = PublishIfComplete(NewRound(io.val))
    BY <1>3, HandlerWriter, IoType DEF OpenRound
  <2>2. \A r \in Readers : ctx'[r] = ctx[r]
    BY <1>3, <2>1, ConstantsAssumption DEF OpenRound, TypeOK
  <2>3. /\ state'.completedReaders = 0 /\ state'.roundInProgress
        /\ state'.generation =
              (IF state'.dataReady THEN state.generation + 1 ELSE state.generation)
    BY <2>1, NewRoundFields DEF TypeOK
  <2> QED  BY <1>3, <2>2, <2>3, FreshRound DEF RoundFree
<1>4. CASE /\ Handler(v, io) = "writeSharedByte"
           /\ MayWrite /\ TakeByte(v, io.val)
  <2>1. v = Writer /\ io.val \in Byte /\ state' = PublishIfComplete(Store(io.val))
    BY <1>4, HandlerWriter, IoType DEF TakeByte
  <2>2. \A r \in Readers : ctx'[r] = ctx[r]
    BY <1>4, <2>1, ConstantsAssumption DEF TakeByte, TypeOK
  <2>3. state.completedReaders = 0
    BY <1>4, FS_EmptySet DEF RoundProtocol, Acknowledged, MayWrite
  <2>4. /\ state'.completedReaders = 0 /\ state'.roundInProgress
        /\ state'.generation =
              (IF state'.dataReady THEN state.generation + 1 ELSE state.generation)
    BY <1>4, <2>1, <2>3, StoreFields DEF TypeOK
  <2> QED  BY <1>4, <2>2, <2>4, FreshRound DEF MayWrite
<1>5. CASE /\ Handler(v, io) = "finishWriterRound"
           /\ AllAcknowledged(v) /\ CloseRound(v)
  <2>1. v = Writer /\ \A r \in Readers : ctx[r].lastReadGeneration = state.generation
    BY <1>5, HandlerWriter, CountIsComplete
  <2>2. \A r \in Readers : ctx'[r] = ctx[r]
    BY <1>5, <2>1, ConstantsAssumption DEF CloseRound, TypeOK
  <2>3. /\ state'.completedReaders = state.completedReaders
        /\ state'.generation = state.generation /\ state'.dataReady = state.dataReady
    BY <1>5 DEF CloseRound, TypeOK, StateType
  <2>4. Acknowledged' = Acknowledged
    BY <2>2, <2>3 DEF Acknowledged
  <2>5. ASSUME NEW r \in Readers PROVE ~UnfinishedRead(r) /\ ~UnfinishedRead(r)'
    <3>1. ctx[r].lastReadGeneration \in Nat /\ ctx[r].activeReadGeneration \in Nat
      BY DEF TypeOK, CtxType
    <3> QED  BY <2>1, <2>2, <3>1 DEF RoundProtocol, ReaderProtocol, UnfinishedRead
  <2> QED  BY <2>1, <2>2, <2>3, <2>4, <2>5 DEF RoundProtocol, ReaderProtocol
<1>6. CASE /\ Handler(v, io) = "beginReaderRound"
           /\ FreshData(v) /\ StartReading(v)
  <2>1. v \in Readers
    BY <1>6, HandlerReader
  <2>2. /\ state' = state /\ \A r \in Readers : r # v => ctx'[r] = ctx[r]
        /\ ctx'[v].lastReadGeneration = ctx[v].lastReadGeneration
        /\ ctx'[v].activeReadGeneration = state.generation /\ ~ctx'[v].readCompleted
    BY <1>6 DEF StartReading, TypeOK, CtxType
  <2>3. Acknowledged' = Acknowledged
    BY <2>2 DEF Acknowledged
  <2>4. /\ state.dataReady /\ state.generation > ctx[v].lastReadGeneration
        /\ state.generation \in Nat /\ ctx[v].lastReadGeneration \in Nat
    BY <1>6 DEF FreshData, TypeOK, StateType, CtxType
  <2>5. state.roundInProgress
    BY <2>1, <2>4 DEF RoundProtocol, ReaderProtocol
  <2>6. UnfinishedRead(v)'
    BY <2>2, <2>4 DEF UnfinishedRead
  <2>7. \A r \in Readers : r # v => (UnfinishedRead(r)' <=> UnfinishedRead(r))
    BY <2>2 DEF UnfinishedRead
  <2>8. ASSUME NEW r \in Readers
        PROVE  ReaderProtocol(r)'
    <3>1. CASE r = v
      BY <2>2, <2>4, <2>5, <2>6, <3>1 DEF ReaderProtocol
    <3>2. CASE r # v
      BY <2>2, <2>7, <3>2 DEF RoundProtocol, ReaderProtocol
    <3> QED  BY <3>1, <3>2
  <2> QED  BY <2>2, <2>3, <2>8 DEF RoundProtocol
<1>7. CASE Handler(v, io) = "finishReaderRound" /\ Acknowledge(v)
  <2>1. v \in Readers /\ UnfinishedRead(v)
    BY <1>7, OrderedReader
  <2>2. /\ state'.completedReaders = state.completedReaders + 1
        /\ state'.generation = state.generation /\ state'.dataReady = state.dataReady
        /\ state'.roundInProgress = state.roundInProgress
    BY <1>7 DEF Acknowledge, TypeOK, StateType
  <2>3. /\ \A r \in Readers : r # v => ctx'[r] = ctx[r]
        /\ ctx'[v].lastReadGeneration = ctx[v].activeReadGeneration
        /\ ctx'[v].activeReadGeneration = ctx[v].activeReadGeneration
        /\ ctx'[v].readCompleted
    BY <1>7 DEF Acknowledge, TypeOK, CtxType
  <2>4. /\ ctx[v].activeReadGeneration = state.generation
        /\ state.dataReady /\ state.roundInProgress
        /\ ctx[v].lastReadGeneration # state.generation
        /\ state.generation \in Nat
    <3>1. ReaderProtocol(v)
      BY <2>1 DEF RoundProtocol
    <3>2. /\ ctx[v].lastReadGeneration \in Nat /\ ctx[v].activeReadGeneration \in Nat
          /\ state.generation \in Nat
      BY DEF TypeOK, StateType, CtxType
    <3>3. /\ ctx[v].activeReadGeneration = state.generation
          /\ state.dataReady /\ state.roundInProgress
          /\ ctx[v].activeReadGeneration > ctx[v].lastReadGeneration
      BY <2>1, <3>1 DEF ReaderProtocol
    <3> QED  BY <3>2, <3>3
  <2>5. Acknowledged' = Acknowledged \cup {v} /\ v \notin Acknowledged
    BY <2>1, <2>2, <2>3, <2>4 DEF Acknowledged
  <2>6. Cardinality(Acknowledged') = state.completedReaders + 1
    <3>1. IsFiniteSet(Acknowledged)
      BY ConstantsAssumption, FS_Subset DEF Acknowledged
    <3>2. Cardinality(Acknowledged \cup {v}) = Cardinality(Acknowledged) + 1
      BY <2>5, <3>1, FS_AddElement
    <3>3. Cardinality(Acknowledged) = state.completedReaders
      BY DEF RoundProtocol
    <3> HIDE DEF Acknowledged
    <3> QED  BY <2>5, <3>2, <3>3, Zenon
  <2>7. ~UnfinishedRead(v)'
    BY <2>3 DEF UnfinishedRead
  <2>8. \A r \in Readers : r # v => (UnfinishedRead(r)' <=> UnfinishedRead(r))
    BY <2>3 DEF UnfinishedRead
  <2>9. ASSUME NEW r \in Readers
        PROVE  ReaderProtocol(r)'
    <3>1. CASE r = v
      BY <2>2, <2>3, <2>4, <2>7, <3>1 DEF ReaderProtocol
    <3>2. CASE r # v
      BY <2>2, <2>3, <2>8, <3>2 DEF RoundProtocol, ReaderProtocol
    <3> QED  BY <3>1, <3>2
  <2> QED  BY <2>2, <2>6, <2>9 DEF RoundProtocol
<1> QED  BY HandleCases, <1>1, <1>2, <1>3, <1>4, <1>5, <1>6, <1>7

(* Every step of the ordered system keeps the protocol. *)
LEMMA NextProtocol ==
    ASSUME TypeOK, RoundProtocol, [OrderedNext]_vars
    PROVE  RoundProtocol'
<1>0. TypeOK'
  BY OrderedStep, NextType
<1>1. CASE \E v \in VMs : \E io \in Io :
              WithinBound(v, io) /\ Ordered(v, io) /\ Handle(v, io)
  BY <1>0, <1>1, HandleProtocol
<1>2. CASE MainAborts \/ \E v \in VMs : AbortSharedBuffer(v)
  <2>1. /\ state' = [state EXCEPT !.stopped = TRUE] /\ ctx' = ctx
    BY <1>2 DEF MainAborts, AbortSharedBuffer, Abort
  <2>2. /\ state'.completedReaders = state.completedReaders
        /\ state'.generation = state.generation /\ state'.dataReady = state.dataReady
        /\ state'.roundInProgress = state.roundInProgress
    BY <2>1 DEF TypeOK, StateType
  <2> QED  BY <2>1, <2>2, ProtocolFrame
<1>3. CASE \E v \in VMs : SpuriousWakeup(v) \/ GuestHalts(v) \/ GuestFails(v)
  BY <1>3, ProtocolFrame DEF SpuriousWakeup, GuestHalts, GuestFails
<1>4. CASE UNCHANGED vars
  BY <1>4, ProtocolFrame DEF vars
<1> QED  BY <1>1, <1>2, <1>3, <1>4 DEF OrderedNext, Thread

(* However many readers there are, the rounds keep to the protocol: at     *)
(* most one round is open, a reader in the middle of it pins it, and       *)
(* completedReaders counts exactly the readers that acknowledged it.       *)
THEOREM ProtocolHolds == OrderedSpec => []RoundProtocol
<1>1. Init => RoundProtocol
  <2> SUFFICES ASSUME Init PROVE RoundProtocol
    OBVIOUS
  <2>1. Acknowledged = {}
    BY DEF Init, Acknowledged
  <2>2. Cardinality(Acknowledged) = 0
    BY <2>1, FS_EmptySet
  <2> QED  BY <2>2 DEF Init, RoundProtocol, ReaderProtocol, UnfinishedRead
<1>2. TypeOK /\ RoundProtocol /\ [OrderedNext]_vars => RoundProtocol'
  BY NextProtocol
<1> QED  BY <1>1, <1>2, OrderedBase, PTL DEF OrderedSpec
---------------------------------------------------------------------------
(* No step other than beginWriterRound, writeSharedByte and the handlers   *)
(* that end a round touches what a reader reads.                           *)
LEMMA RoundFrame ==
    ASSUME TypeOK, NEW v \in VMs, NEW io \in Io, Handle(v, io)
    PROVE  \/ RoundFree /\ Handler(v, io) = "beginWriterRound" /\ OpenRound(v, io.val)
           \/ MayWrite /\ Handler(v, io) = "writeSharedByte" /\ TakeByte(v, io.val)
           \/ /\ sent' = sent /\ state'.data = state.data /\ state'.size = state.size
              /\ state'.generation = state.generation
              /\ state'.dataReady = state.dataReady
<1>1. CASE Fail(v) \/ Sleep(v, io) \/ DeliverMode(v, io) \/ StartReading(v)
           \/ GiveByte(v, state.data[ctx[v].readOffset])
  BY <1>1 DEF Fail, Sleep, DeliverMode, StartReading, GiveByte
<1>2. CASE CloseRound(v) \/ Acknowledge(v)
  BY <1>2 DEF CloseRound, Acknowledge, TypeOK, StateType
<1> QED  BY <1>1, <1>2, HandleCases

(* Neither a new round nor a further byte is possible while a reader is in *)
(* the middle of the published round.                                      *)
LEMMA ReaderPinsRound ==
    ASSUME RoundProtocol, NEW r \in Readers, UnfinishedRead(r)
    PROVE  ~RoundFree /\ ~MayWrite /\ state.dataReady
  BY DEF RoundProtocol, ReaderProtocol, RoundFree, MayWrite

(* No step changes the round under a reader in the middle of it. *)
LEMMA PinnedStep ==
    ASSUME TypeOK, RoundProtocol, [OrderedNext]_vars,
           NEW r \in Readers, UnfinishedRead(r)
    PROVE  /\ state'.data = state.data /\ state'.size = state.size
           /\ state'.generation = state.generation /\ state'.dataReady
<1>0. ~RoundFree /\ ~MayWrite /\ state.dataReady
  BY ReaderPinsRound
<1>1. CASE \E v \in VMs : \E io \in Io :
              WithinBound(v, io) /\ Ordered(v, io) /\ Handle(v, io)
  <2>1. PICK v \in VMs, io \in Io : Handle(v, io)
    BY <1>1
  <2> QED  BY <1>0, <2>1, RoundFrame, Zenon
<1>2. CASE MainAborts \/ \E v \in VMs : AbortSharedBuffer(v)
  BY <1>0, <1>2 DEF MainAborts, AbortSharedBuffer, Abort, TypeOK, StateType
<1>3. CASE \E v \in VMs : SpuriousWakeup(v) \/ GuestHalts(v) \/ GuestFails(v)
  BY <1>0, <1>3 DEF SpuriousWakeup, GuestHalts, GuestFails
<1>4. CASE UNCHANGED vars
  BY <1>0, <1>4 DEF vars
<1> QED  BY <1>1, <1>2, <1>3, <1>4 DEF OrderedNext, Thread

(* The next beginWriterRound, and any further byte of the writer, waits    *)
(* for every reader that has begun to read: what such a reader reads never *)
(* changes under it.                                                       *)
THEOREM ReadersAreNotOverwritten == OrderedSpec => NoOverwriteWhileReading
<1>1. TypeOK /\ RoundProtocol /\ [OrderedNext]_vars =>
        [(\E r \in Readers : UnfinishedRead(r))
           => /\ state'.data = state.data
              /\ state'.size = state.size
              /\ state'.generation = state.generation
              /\ state'.dataReady]_vars
  BY PinnedStep
<1> QED  BY <1>1, OrderedBase, ProtocolHolds, PTL DEF OrderedSpec, NoOverwriteWhileReading

(* Only finishWriterRound ends a round. *)
LEMMA ClosingStep ==
    ASSUME TypeOK, RoundProtocol, [OrderedNext]_vars,
           state.roundInProgress, ~state'.roundInProgress
    PROVE  \A r \in Readers : ctx[r].lastReadGeneration = state.generation
<1>1. ASSUME NEW v \in VMs, NEW io \in Io, Handle(v, io), ~AllAcknowledged(v)
      PROVE  FALSE
  <2>1. CASE Fail(v) \/ Sleep(v, io) \/ DeliverMode(v, io) \/ StartReading(v)
             \/ GiveByte(v, state.data[ctx[v].readOffset])
    BY <2>1 DEF Fail, Sleep, DeliverMode, StartReading, GiveByte
  <2>2. CASE Acknowledge(v)
    BY <2>2 DEF Acknowledge, TypeOK, StateType
  <2>3. CASE OpenRound(v, io.val)
    BY <2>3, IoType, NewRoundFields DEF OpenRound, TypeOK
  <2>4. CASE Handler(v, io) = "writeSharedByte" /\ MayWrite /\ TakeByte(v, io.val)
    BY <2>4, IoType, HandlerWriter, StoreFields DEF TakeByte, TypeOK
  <2> QED  BY <1>1, <2>1, <2>2, <2>3, <2>4, HandleCases
<1>2. CASE \E v \in VMs : \E io \in Io :
              WithinBound(v, io) /\ Ordered(v, io) /\ Handle(v, io)
  BY <1>1, <1>2, CountIsComplete
<1>3. CASE MainAborts \/ \E v \in VMs : AbortSharedBuffer(v)
  BY <1>3 DEF MainAborts, AbortSharedBuffer, Abort, TypeOK, StateType
<1>4. CASE \E v \in VMs : SpuriousWakeup(v) \/ GuestHalts(v) \/ GuestFails(v)
  BY <1>4 DEF SpuriousWakeup, GuestHalts, GuestFails
<1>5. CASE UNCHANGED vars
  BY <1>5 DEF vars
<1> QED  BY <1>2, <1>3, <1>4, <1>5 DEF OrderedNext, Thread

(* finishWriterRound ends a round only when every reader has acknowledged  *)
(* that very generation; a count of acknowledgements is enough for it.     *)
THEOREM WriterWaitsForAll == OrderedSpec => FinishMeansAllAcknowledged
<1>1. TypeOK /\ RoundProtocol /\ [OrderedNext]_vars =>
        [(state.roundInProgress /\ ~state'.roundInProgress)
           => \A r \in Readers : ctx[r].lastReadGeneration = state.generation]_vars
  BY ClosingStep
<1> QED  BY <1>1, OrderedBase, ProtocolHolds, PTL DEF OrderedSpec, FinishMeansAllAcknowledged
---------------------------------------------------------------------------
(* A step that leaves the round and a reader's own data alone leaves what  *)
(* that reader holds as it was.                                            *)
LEMMA DeliveryFrame ==
    ASSUME NEW r \in Readers, Delivery(r),
           sent' = sent, state'.data = state.data, state'.size = state.size,
           state'.generation = state.generation, state'.dataReady = state.dataReady,
           ctx'[r].lastReadGeneration = ctx[r].lastReadGeneration,
           ctx'[r].activeReadGeneration = ctx[r].activeReadGeneration,
           ctx'[r].readCompleted = ctx[r].readCompleted,
           ctx'[r].readOffset = ctx[r].readOffset,
           received'[r] = received[r]
    PROVE  Delivery(r)'
<1>1. /\ UnfinishedRead(r)' <=> UnfinishedRead(r)
      /\ (r \in Acknowledged)' <=> r \in Acknowledged
      /\ Message' = Message
  BY DEF UnfinishedRead, Acknowledged, Message, StoredSize
<1> QED  BY <1>1 DEF Delivery

(* A round that nobody reads yet has delivered nothing. *)
LEMMA DeliveryFresh ==
    ASSUME TypeOK, RoundProtocol, ~state.dataReady \/ ~state.roundInProgress,
           NEW r \in Readers, ctx'[r] = ctx[r],
           state'.generation =
              (IF state'.dataReady THEN state.generation + 1 ELSE state.generation)
    PROVE  Delivery(r)'
<1>1. /\ ctx[r].lastReadGeneration \in Nat /\ ctx[r].activeReadGeneration \in Nat
      /\ state.generation \in Nat
  BY DEF TypeOK, StateType, CtxType
<1>2. ReaderProtocol(r)
  BY DEF RoundProtocol
<1>3. ctx[r].lastReadGeneration = state.generation /\ ~UnfinishedRead(r)
  BY <1>1, <1>2 DEF ReaderProtocol
<1>4. ~UnfinishedRead(r)' /\ ~(r \in Acknowledged)'
  BY <1>1, <1>3 DEF UnfinishedRead, Acknowledged
<1> QED  BY <1>4 DEF Delivery

(* A reader that read all of the published round holds its message. *)
LEMMA WholeRead ==
    ASSUME TypeOK, RoundContents, NEW r \in Readers, Delivery(r), UnfinishedRead(r),
           ctx[r].readOffset = state.size, state.dataReady
    PROVE  received[r] = Message
<1>1. /\ received[r] \in Seq(Byte) /\ Message \in Seq(Byte)
      /\ Len(Message) = StoredSize(Len(sent))
      /\ \A i \in 1..StoredSize(Len(sent)) : Message[i] = sent[i]
  BY MessageLength DEF TypeOK
<1>2. Len(received[r]) = state.size
  BY DEF Delivery
<1>3. state.size = StoredSize(Len(sent))
  BY DEF RoundContents
<1>4. \A i \in 1..Len(received[r]) : received[r][i] = Message[i]
  BY <1>1, <1>2, <1>3 DEF Delivery, RoundContents
<1> QED  BY <1>1, <1>2, <1>3, <1>4, SeqEqual

(* Every handler an ordered guest can reach keeps what a reader holds a    *)
(* prefix of the round, and all of it after the acknowledgement.           *)
LEMMA HandleDelivery ==
    ASSUME TypeOK, TypeOK', RoundContents, RoundProtocol,
           NEW r \in Readers, Delivery(r),
           NEW v \in VMs, NEW io \in Io, Ordered(v, io), Handle(v, io)
    PROVE  Delivery(r)'
<1>1. CASE Fail(v) \/ Sleep(v, io)
  BY <1>1, DeliveryFrame DEF Fail, Sleep
<1>2. CASE v # r /\ (StartReading(v) \/ Acknowledge(v) \/ CloseRound(v)
                      \/ GiveByte(v, state.data[ctx[v].readOffset]))
  <2>1. ctx'[r] = ctx[r] /\ received'[r] = received[r]
    BY <1>2 DEF StartReading, Acknowledge, CloseRound, GiveByte, TypeOK
  <2>2. /\ sent' = sent /\ state'.data = state.data /\ state'.size = state.size
        /\ state'.generation = state.generation /\ state'.dataReady = state.dataReady
    BY <1>2 DEF StartReading, Acknowledge, CloseRound, GiveByte, TypeOK, StateType
  <2> QED  BY <2>1, <2>2, DeliveryFrame
<1>3. CASE DeliverMode(v, io)
  <2>1. /\ ctx' = [ctx EXCEPT ![v].modeDelivered = TRUE]
        /\ state' = state /\ sent' = sent /\ received' = received
    BY <1>3 DEF DeliverMode
  <2>2. /\ ctx'[r].lastReadGeneration = ctx[r].lastReadGeneration
        /\ ctx'[r].activeReadGeneration = ctx[r].activeReadGeneration
        /\ ctx'[r].readCompleted = ctx[r].readCompleted
        /\ ctx'[r].readOffset = ctx[r].readOffset
    BY <2>1, SMTT(30) DEF TypeOK, CtxType
  <2> QED  BY <2>1, <2>2, DeliveryFrame
<1>4. CASE /\ Handler(v, io) = "beginWriterRound"
           /\ RoundFree /\ OpenRound(v, io.val)
  <2>1. v = Writer /\ io.val \in Nat /\ state' = PublishIfComplete(NewRound(io.val))
    BY <1>4, HandlerWriter, IoType DEF OpenRound
  <2>2. ctx'[r] = ctx[r]
    BY <1>4, <2>1, ConstantsAssumption DEF OpenRound, TypeOK
  <2>3. state'.generation =
              (IF state'.dataReady THEN state.generation + 1 ELSE state.generation)
    BY <2>1, NewRoundFields DEF TypeOK
  <2> QED  BY <1>4, <2>2, <2>3, DeliveryFresh DEF RoundFree
<1>5. CASE /\ Handler(v, io) = "writeSharedByte"
           /\ MayWrite /\ TakeByte(v, io.val)
  <2>1. v = Writer /\ io.val \in Byte /\ state' = PublishIfComplete(Store(io.val))
    BY <1>5, HandlerWriter, IoType DEF TakeByte
  <2>2. ctx'[r] = ctx[r]
    BY <1>5, <2>1, ConstantsAssumption DEF TakeByte, TypeOK
  <2>3. state'.generation =
              (IF state'.dataReady THEN state.generation + 1 ELSE state.generation)
    BY <1>5, <2>1, StoreFields DEF TypeOK
  <2> QED  BY <1>5, <2>2, <2>3, DeliveryFresh DEF MayWrite
<1>6. CASE Handler(v, io) = "finishWriterRound" /\ v = r
  BY <1>6, HandlerWriter, ConstantsAssumption
<1>7. CASE v = r /\ FreshData(v) /\ StartReading(v)
  <2>1. /\ ctx'[r].readOffset = 0 /\ received'[r] = <<>> /\ state' = state
        /\ ctx'[r].lastReadGeneration = ctx[r].lastReadGeneration
    BY <1>7 DEF StartReading, TypeOK, CtxType
  <2>2. ~(r \in Acknowledged)'
    BY <1>7, <2>1, SMTT(30) DEF FreshData, Acknowledged, TypeOK, StateType, CtxType
  <2>3. state.size \in Nat
    BY ConstantsAssumption DEF TypeOK, StateType
  <2> QED  BY <2>1, <2>2, <2>3 DEF Delivery
<1>8. CASE /\ v = r /\ Handler(v, io) = "readSharedByte" /\ MayRead(v)
           /\ GiveByte(v, state.data[ctx[v].readOffset])
  <2> DEFINE n == ctx[r].readOffset
             b == state.data[n]
  <2>1. /\ UnfinishedRead(r) /\ ReaderProtocol(r)
        /\ n \in Nat /\ n < state.size /\ state.size \in Nat
        /\ received[r] \in Seq(Byte)
    BY <1>8, OrderedReader, ConstantsAssumption
       DEF MayRead, RoundProtocol, TypeOK, StateType, CtxType
  <2>2. /\ Len(received[r]) = n
        /\ \A i \in 1..n : received[r][i] = state.data[i - 1]
    BY <2>1 DEF Delivery
  <2>3. state' = state /\ ctx' = [ctx EXCEPT ![r].readOffset = n + 1]
    BY <1>8 DEF GiveByte
  <2>4. /\ ctx'[r].readOffset = n + 1
        /\ ctx'[r].lastReadGeneration = ctx[r].lastReadGeneration
    BY <2>3 DEF TypeOK, CtxType
  <2>5. received'[r] = Append(received[r], b)
    BY <1>8 DEF GiveByte, TypeOK
  <2>6. b \in Byte
    <3>1. state.data \in [0..(BufferSize - 1) -> Byte] /\ state.size \in 0..BufferSize
      BY DEF TypeOK, StateType
    <3>2. n \in 0..(BufferSize - 1)
      BY <2>1, <3>1, ConstantsAssumption
    <3> HIDE DEF n
    <3> QED  BY <3>1, <3>2
  <2>7. ~(r \in Acknowledged)'
    BY <2>1, <2>3, <2>4 DEF Acknowledged, ReaderProtocol, TypeOK, StateType, CtxType
  <2> HIDE DEF n, b
  <2>8. /\ Len(received'[r]) = n + 1 /\ n + 1 <= state.size
        /\ received'[r][n + 1] = b
        /\ \A i \in 1..n : received'[r][i] = received[r][i]
    BY <2>1, <2>2, <2>5, <2>6
  <2>9. ASSUME NEW i \in 1..(n + 1) PROVE received'[r][i] = state.data[i - 1]
    <3>1. CASE i = n + 1
      BY <2>1, <2>8, <3>1 DEF b
    <3>2. CASE i # n + 1
      BY <2>1, <2>2, <2>8, <3>2
    <3> QED  BY <3>1, <3>2
  <2> QED  BY <2>3, <2>4, <2>7, <2>8, <2>9 DEF Delivery
<1>9. CASE /\ v = r /\ Handler(v, io) = "finishReaderRound"
           /\ MayAcknowledge(v, io) /\ Acknowledge(v)
  <2>1. UnfinishedRead(r) /\ state.dataReady /\ ctx[r].readOffset = state.size
    BY <1>9, OrderedReader DEF RoundProtocol, ReaderProtocol, MayAcknowledge
  <2>2. received'[r] = received[r] /\ sent' = sent /\ ctx'[r].readCompleted
    BY <1>9 DEF Acknowledge, TypeOK, CtxType
  <2>3. ~UnfinishedRead(r)'
    BY <2>2 DEF UnfinishedRead
  <2>4. Message' = Message
    BY <2>2 DEF Message, StoredSize
  <2> QED  BY <2>1, <2>2, <2>3, <2>4, WholeRead DEF Delivery
<1> QED
  BY HandleCases, HandlerReader, <1>1, <1>2, <1>3, <1>4, <1>5, <1>6, <1>7, <1>8, <1>9

(* Every step of the ordered system keeps Delivery. *)
LEMMA NextDelivery ==
    ASSUME TypeOK, RoundContents, RoundProtocol, [OrderedNext]_vars,
           NEW r \in Readers, Delivery(r)
    PROVE  Delivery(r)'
<1>0. TypeOK'
  BY OrderedStep, NextType
<1>1. CASE \E v \in VMs : \E io \in Io :
              WithinBound(v, io) /\ Ordered(v, io) /\ Handle(v, io)
  BY <1>0, <1>1, HandleDelivery
<1>2. CASE MainAborts \/ \E v \in VMs : AbortSharedBuffer(v)
  <2>1. /\ state' = [state EXCEPT !.stopped = TRUE]
        /\ ctx' = ctx /\ sent' = sent /\ received' = received
    BY <1>2 DEF MainAborts, AbortSharedBuffer, Abort
  <2>2. /\ state'.data = state.data /\ state'.size = state.size
        /\ state'.generation = state.generation /\ state'.dataReady = state.dataReady
    BY <2>1 DEF TypeOK, StateType
  <2> QED  BY <2>1, <2>2, DeliveryFrame
<1>3. CASE \E v \in VMs : SpuriousWakeup(v) \/ GuestHalts(v) \/ GuestFails(v)
  BY <1>3, DeliveryFrame DEF SpuriousWakeup, GuestHalts, GuestFails
<1>4. CASE UNCHANGED vars
  BY <1>4, DeliveryFrame DEF vars
<1> QED  BY <1>1, <1>2, <1>3, <1>4 DEF OrderedNext, Thread

(* However many readers there are and however their steps interleave, a    *)
(* reader that acknowledged the published round received exactly its       *)
(* message: no byte lost, doubled, reordered or of another round.          *)
THEOREM DeliveryIsExact == OrderedSpec => []AcknowledgedMeansDelivered
<1> DEFINE AllDelivered == \A r \in Readers : Delivery(r)
<1>1. Init => AllDelivered
  BY DEF Init, Delivery, UnfinishedRead, Acknowledged
<1>2. TypeOK /\ RoundContents /\ RoundProtocol /\ AllDelivered /\ [OrderedNext]_vars
        => AllDelivered'
  BY NextDelivery
<1>3. AllDelivered => AcknowledgedMeansDelivered
  BY DEF Delivery, Acknowledged, AcknowledgedMeansDelivered
<1> QED  BY <1>1, <1>2, <1>3, OrderedBase, ProtocolHolds, PTL DEF OrderedSpec
---------------------------------------------------------------------------
(* A reader that has acknowledged a round has done so for good. *)
LEMMA ReadingsStay ==
    ASSUME TypeOK, RoundProtocol, NEW u \in VMs, NEW io \in Io, Ordered(u, io), Handle(u, io),
           NEW r \in Readers, ctx[r].lastReadGeneration > 0
    PROVE  ctx'[r].lastReadGeneration > 0
<1>0. ctx \in [VMs -> CtxType] /\ r \in VMs
  BY DEF TypeOK
<1>1. CASE Fail(u) \/ Sleep(u, io)
  BY <1>1 DEF Fail, Sleep
<1>2. CASE DeliverMode(u, io) \/ GiveByte(u, state.data[ctx[u].readOffset]) \/ StartReading(u)
  <2>1. CASE ctx' = [ctx EXCEPT ![u].modeDelivered = TRUE]
    BY <1>0, <2>1 DEF CtxType
  <2>2. CASE ctx' = [ctx EXCEPT ![u].readOffset = @ + 1]
    BY <1>0, <2>2 DEF CtxType
  <2>3. CASE ctx' = [ctx EXCEPT ![u].readOffset = 0,
                                ![u].activeReadGeneration = state.generation,
                                ![u].readCompleted = FALSE]
    BY <1>0, <2>3 DEF CtxType
  <2> QED  BY <1>2, <2>1, <2>2, <2>3 DEF DeliverMode, GiveByte, StartReading
<1>3. CASE OpenRound(u, io.val)
  <2>1. ctx' = [ctx EXCEPT ![u].writeGeneration =
                  IF state'.dataReady THEN state'.generation ELSE 0]
    BY <1>3 DEF OpenRound
  <2> QED  BY <1>0, <2>1 DEF CtxType
<1>4. CASE TakeByte(u, io.val)
  <2>1. ctx' = [ctx EXCEPT ![u].writeGeneration =
                  IF state'.dataReady THEN state'.generation ELSE @]
    BY <1>4 DEF TakeByte
  <2> QED  BY <1>0, <2>1 DEF CtxType
<1>5. CASE CloseRound(u)
  <2>1. ctx' = [ctx EXCEPT ![u].writeGeneration = 0, ![u].transferCompleted = TRUE]
    BY <1>5 DEF CloseRound
  <2> QED  BY <1>0, <2>1 DEF CtxType
<1>6. CASE Handler(u, io) = "finishReaderRound" /\ Acknowledge(u)
  <2>1. UnfinishedRead(u) /\ u \in Readers
    BY <1>6, OrderedReader
  <2>2. ctx' = [ctx EXCEPT ![u].readCompleted = TRUE,
                          ![u].lastReadGeneration = ctx[u].activeReadGeneration,
                          ![u].transferCompleted = TRUE]
    BY <1>6 DEF Acknowledge
  <2>3. ctx[u].activeReadGeneration > 0
    BY <1>0, <2>1 DEF UnfinishedRead, CtxType
  <2> QED  BY <1>0, <2>2, <2>3 DEF CtxType
<1> QED  BY HandleCases, <1>1, <1>2, <1>3, <1>4, <1>5, <1>6

(* Every handler an ordered guest can reach keeps CompletedTransfers. *)
LEMMA HandleTransfers ==
    ASSUME TypeOK, RoundProtocol, CompletedTransfers,
           NEW u \in VMs, NEW io \in Io, Ordered(u, io), Handle(u, io)
    PROVE  CompletedTransfers'
<1> SUFFICES ASSUME NEW v \in VMs
             PROVE  /\ thread'[v] = "succeeded" => ctx'[v].transferCompleted
                    /\ ctx'[v].transferCompleted =>
                          IF v = Writer
                          THEN /\ state'.generation > 0
                               /\ \A r \in Readers : ctx'[r].lastReadGeneration > 0
                          ELSE ctx'[v].lastReadGeneration > 0
  BY DEF CompletedTransfers
<1>0. /\ thread[v] = "succeeded" => ctx[v].transferCompleted
      /\ ctx[v].transferCompleted =>
            IF v = Writer
            THEN state.generation > 0 /\ \A r \in Readers : ctx[r].lastReadGeneration > 0
            ELSE ctx[v].lastReadGeneration > 0
      /\ ctx[v].lastReadGeneration \in Nat /\ state.generation \in Nat
      /\ \A r \in Readers : ctx[r].lastReadGeneration > 0 => ctx'[r].lastReadGeneration > 0
  BY ReadingsStay DEF CompletedTransfers, TypeOK, StateType, CtxType
<1>1. thread'[v] = "succeeded" => thread[v] = "succeeded"
  BY HandleCases DEF Fail, Sleep, DeliverMode, OpenRound, TakeByte, CloseRound, StartReading,
     GiveByte, Acknowledge, Resume, TypeOK
<1>2. CASE /\ ctx'[v].transferCompleted = ctx[v].transferCompleted
           /\ ctx'[v].lastReadGeneration = ctx[v].lastReadGeneration
           /\ state'.generation \in {state.generation, state.generation + 1}
  BY <1>0, <1>1, <1>2
<1>3. CASE Fail(u) \/ Sleep(u, io)
  BY <1>2, <1>3 DEF Fail, Sleep
<1>4. CASE DeliverMode(u, io) \/ GiveByte(u, state.data[ctx[u].readOffset]) \/ StartReading(u)
  <2>1. state' = state
    BY <1>4 DEF DeliverMode, GiveByte, StartReading
  <2>2. \/ ctx' = [ctx EXCEPT ![u].modeDelivered = TRUE]
        \/ ctx' = [ctx EXCEPT ![u].readOffset = @ + 1]
        \/ ctx' = [ctx EXCEPT ![u].readOffset = 0,
                             ![u].activeReadGeneration = state.generation,
                             ![u].readCompleted = FALSE]
    BY <1>4 DEF DeliverMode, GiveByte, StartReading
  <2>3. /\ ctx'[v].transferCompleted = ctx[v].transferCompleted
        /\ ctx'[v].lastReadGeneration = ctx[v].lastReadGeneration
    <3>1. ctx \in [VMs -> CtxType]
      BY DEF TypeOK
    <3>2. CASE ctx' = [ctx EXCEPT ![u].modeDelivered = TRUE]
      BY <3>1, <3>2 DEF CtxType
    <3>3. CASE ctx' = [ctx EXCEPT ![u].readOffset = @ + 1]
      BY <3>1, <3>3 DEF CtxType
    <3>4. CASE ctx' = [ctx EXCEPT ![u].readOffset = 0,
                                  ![u].activeReadGeneration = state.generation,
                                  ![u].readCompleted = FALSE]
      BY <3>1, <3>4 DEF CtxType
    <3> QED  BY <2>2, <3>2, <3>3, <3>4
  <2> QED  BY <1>2, <2>1, <2>3
<1>5. CASE OpenRound(u, io.val)
  <2>1. ctx' = [ctx EXCEPT ![u].writeGeneration =
                  IF state'.dataReady THEN state'.generation ELSE 0]
    BY <1>5 DEF OpenRound
  <2>2. /\ ctx'[v].transferCompleted = ctx[v].transferCompleted
        /\ ctx'[v].lastReadGeneration = ctx[v].lastReadGeneration
    BY <2>1 DEF TypeOK, CtxType
  <2>3. state'.generation \in {state.generation, state.generation + 1}
    BY <1>5, IoType, NewRoundFields DEF OpenRound, TypeOK
  <2> QED  BY <1>2, <2>2, <2>3
<1>6. CASE Handler(u, io) = "writeSharedByte" /\ MayWrite /\ TakeByte(u, io.val)
  <2>1. ctx' = [ctx EXCEPT ![u].writeGeneration =
                  IF state'.dataReady THEN state'.generation ELSE @]
    BY <1>6 DEF TakeByte
  <2>2. /\ ctx'[v].transferCompleted = ctx[v].transferCompleted
        /\ ctx'[v].lastReadGeneration = ctx[v].lastReadGeneration
    BY <2>1, SMTT(30) DEF TypeOK, CtxType
  <2>3. state'.generation \in {state.generation, state.generation + 1}
    <3>1. io.val \in Byte /\ state \in StateType
      BY <1>6, IoType, HandlerWriter DEF TypeOK
    <3>2. state' = PublishIfComplete(Store(io.val))
      BY <1>6 DEF TakeByte
    <3>3. state'.generation = (IF state'.dataReady THEN state.generation + 1 ELSE state.generation)
      BY <1>6, <3>1, <3>2, StoreFields
    <3> QED  BY <3>3
  <2> QED  BY <1>2, <2>2, <2>3
<1>7. CASE /\ Handler(u, io) = "finishWriterRound" /\ ctx[u].writeGeneration # 0
           /\ AllAcknowledged(u) /\ CloseRound(u)
  <2>1. u = Writer /\ state'.generation = state.generation /\ state.generation > 0
    BY <1>0, <1>7, HandlerWriter DEF AllAcknowledged, CloseRound, TypeOK, StateType
  <2>2. CASE v = Writer
    <3>1. \A r \in Readers : ctx[r].lastReadGeneration > 0
      BY <1>7, <2>1, CountIsComplete
    <3> QED  BY <1>0, <1>1, <2>1, <2>2, <3>1, <1>7 DEF CloseRound, TypeOK, CtxType
  <2>3. CASE v # Writer
    <3>1. ctx'[v] = ctx[v]
      BY <1>7, <2>1, <2>3 DEF CloseRound, TypeOK
    <3> QED  BY <1>2, <2>1, <3>1
  <2> QED  BY <2>2, <2>3
<1>8. CASE Handler(u, io) = "finishReaderRound" /\ Acknowledge(u)
  <2>1. /\ u \in Readers /\ UnfinishedRead(u) /\ u # Writer
        /\ state'.generation = state.generation
    BY <1>8, OrderedReader, ConstantsAssumption DEF Acknowledge, TypeOK, StateType
  <2>2. CASE v = u
    <3>1. ctx'[u].lastReadGeneration = ctx[u].activeReadGeneration /\ ctx'[u].transferCompleted
      BY <1>8 DEF Acknowledge, TypeOK, CtxType
    <3>2. ctx[u].activeReadGeneration > 0
      BY <2>1 DEF UnfinishedRead, TypeOK, CtxType
    <3> QED  BY <2>1, <2>2, <3>1, <3>2
  <2>3. CASE v # u
    <3>1. ctx'[v] = ctx[v]
      BY <1>8, <2>1, <2>3 DEF Acknowledge, TypeOK
    <3> QED  BY <1>2, <2>1, <3>1
  <2> QED  BY <2>2, <2>3
<1> QED  BY HandleCases, <1>3, <1>4, <1>5, <1>6, <1>7, <1>8

(* Every step of the ordered system keeps CompletedTransfers. *)
LEMMA NextTransfers ==
    ASSUME TypeOK, RoundProtocol, CompletedTransfers, [OrderedNext]_vars
    PROVE  CompletedTransfers'
<1>1. CASE \E v \in VMs : \E io \in Io :
              WithinBound(v, io) /\ Ordered(v, io) /\ Handle(v, io)
  BY <1>1, HandleTransfers
<1>2. CASE MainAborts \/ \E v \in VMs : AbortSharedBuffer(v)
  <2>1. ctx' = ctx /\ state'.generation = state.generation
    BY <1>2 DEF MainAborts, AbortSharedBuffer, Abort, TypeOK, StateType
  <2>2. \A v \in VMs : thread'[v] = "succeeded" => thread[v] = "succeeded"
    BY <1>2 DEF MainAborts, AbortSharedBuffer, TypeOK
  <2> QED  BY <2>1, <2>2 DEF CompletedTransfers
<1>3. CASE \E v \in VMs : SpuriousWakeup(v) \/ GuestHalts(v) \/ GuestFails(v)
  <2>1. ctx' = ctx /\ state' = state
    BY <1>3 DEF SpuriousWakeup, GuestHalts, GuestFails
  <2>2. \A v \in VMs : thread'[v] = "succeeded" =>
              thread[v] = "succeeded" \/ ctx[v].transferCompleted
    BY <1>3 DEF SpuriousWakeup, GuestHalts, GuestFails, TypeOK
  <2> QED  BY <2>1, <2>2 DEF CompletedTransfers
<1>4. CASE UNCHANGED vars
  BY <1>4 DEF vars, CompletedTransfers
<1> QED  BY <1>1, <1>2, <1>3, <1>4 DEF OrderedNext, Thread

(* runGuest reports success only of a VM that took part in a transfer: a   *)
(* reader of one it acknowledged, the writer of one every reader has; as   *)
(* long as the readers keep to the order of the shipped guest.             *)
THEOREM SuccessIsEarned == OrderedSpec => []SuccessMeansTransfer
<1>1. Init => CompletedTransfers
  BY DEF Init, CompletedTransfers
<1>2. TypeOK /\ RoundProtocol /\ CompletedTransfers /\ [OrderedNext]_vars
        => CompletedTransfers'
  BY NextTransfers
<1>3. CompletedTransfers => SuccessMeansTransfer
  BY DEF CompletedTransfers, SuccessMeansTransfer
<1> QED  BY <1>1, <1>2, <1>3, OrderedBase, ProtocolHolds, PTL DEF OrderedSpec
=============================================================================
