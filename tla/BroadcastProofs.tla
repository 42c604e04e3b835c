---------------------------- MODULE BroadcastProofs ----------------------------
(***************************************************************************)
(* The shared buffer with ordered readers implements Broadcast.  The round *)
(* on offer and what each reader has of it are functions of the buffer's   *)
(* state (BufferBroadcast); the proof shows which handler is which step of *)
(* Broadcast: the byte that completes a round, or a round of size 0, is    *)
(* Offer; an acknowledgement is Take; the end of finishWriterRound is      *)
(* Complete; everything else changes neither.                              *)
(***************************************************************************)
EXTENDS SharedBufferOrderedProofs

USE DEF VMs

(* The two abstract variables, by name. *)
OnOfferNow == IF OnOffer THEN <<Message>> ELSE <<>>
Held(r) ==
    IF OnOffer /\ ctx[r].lastReadGeneration = state.generation
    THEN <<received[r]>> ELSE <<>>
HeldNow == [r \in Readers |-> Held(r)]

(* What the refinement needs of a state. *)
Refines ==
    /\ TypeOK /\ RoundContents /\ RoundProtocol
    /\ \A r \in Readers : Delivery(r)

LEMMA RefinesHolds == OrderedSpec => []Refines
<1> DEFINE AllDelivered == \A r \in Readers : Delivery(r)
<1>1. Init => AllDelivered
  BY DEF Init, Delivery, UnfinishedRead, Acknowledged
<1>2. TypeOK /\ RoundContents /\ RoundProtocol /\ AllDelivered /\ [OrderedNext]_vars
        => AllDelivered'
  BY NextDelivery
<1>3. TypeOK /\ RoundContents /\ RoundProtocol /\ AllDelivered => Refines
  BY DEF Refines
<1> QED  BY <1>1, <1>2, <1>3, OrderedBase, ProtocolHolds, PTL DEF OrderedSpec

(* A step that leaves the round, and what the readers that acknowledged it *)
(* hold, alone is no step of Broadcast. *)
LEMMA Stutter ==
    ASSUME sent' = sent, state'.dataReady = state.dataReady,
           state'.roundInProgress = state.roundInProgress,
           state'.generation = state.generation,
           \A r \in Readers :
              /\ ctx'[r].lastReadGeneration = ctx[r].lastReadGeneration
              /\ ctx[r].lastReadGeneration # state.generation \/ received'[r] = received[r]
    PROVE  UNCHANGED <<OnOfferNow, HeldNow>>
<1>1. Message' = Message /\ (OnOffer' <=> OnOffer)
  BY DEF Message, StoredSize, OnOffer
<1>2. \A r \in Readers : Held(r)' = Held(r)
  BY <1>1 DEF Held
<1> QED  BY <1>1, <1>2 DEF OnOfferNow, HeldNow

(* Without a round on offer nobody holds anything. *)
LEMMA NothingHeld ==
    ASSUME ~OnOffer
    PROVE  OnOfferNow = <<>> /\ HeldNow = [r \in Readers |-> <<>>]
  BY DEF OnOfferNow, HeldNow, Held

(* Between rounds, or before publication, a step that changes the round of *)
(* the writer and no reader either offers the message or shows nothing.    *)
LEMMA OfferOrNothing ==
    ASSUME Refines, TypeOK', ~state.dataReady \/ ~state.roundInProgress,
           \A r \in Readers : ctx'[r] = ctx[r],
           state'.generation =
              (IF state'.dataReady THEN state.generation + 1 ELSE state.generation)
    PROVE  BufferBroadcast!Offer \/ UNCHANGED <<OnOfferNow, HeldNow>>
<1>1. ~OnOffer
  BY DEF OnOffer
<1>2. OnOfferNow = <<>> /\ HeldNow = [r \in Readers |-> <<>>]
  BY <1>1, NothingHeld
<1>3. CASE ~OnOffer'
  <2>1. OnOfferNow' = <<>> /\ HeldNow' = [r \in Readers |-> <<>>]
    BY <1>3 DEF OnOfferNow, HeldNow, Held
  <2> QED  BY <1>2, <2>1
<1>4. CASE OnOffer'
  <2>1. state'.generation = state.generation + 1 /\ state.generation \in Nat
    BY <1>4 DEF OnOffer, Refines, TypeOK, StateType
  <2>2. ASSUME NEW r \in Readers
        PROVE  ctx'[r].lastReadGeneration # state'.generation
    <3>1. ctx[r].lastReadGeneration = state.generation
      BY DEF Refines, RoundProtocol, ReaderProtocol
    <3> QED  BY <2>1, <3>1
  <2>3. HeldNow' = [r \in Readers |-> <<>>]
    BY <2>2 DEF HeldNow, Held
  <2>4. OnOfferNow' = <<Message'>> /\ Message' \in Seq(Byte)
    <3>1. Message' \in Seq(Byte)
      <4>1. sent' \in Seq(Byte) /\ Len(sent') \in Nat
        BY DEF TypeOK
      <4>2. StoredSize(Len(sent')) \in 0..Len(sent')
        BY <4>1, StoredSizeType
      <4> QED  BY <4>1, <4>2, SubSeqProperties DEF Message
    <3> QED  BY <1>4, <3>1 DEF OnOfferNow
  <2>5. OnOfferNow' \in Seq(Seq(Byte)) /\ Len(OnOfferNow') = 1
    BY <2>4
  <2> QED  BY <1>2, <2>3, <2>5 DEF BufferBroadcast!Offer, BufferBroadcast!Nothing,
              OnOfferNow, HeldNow, Held
<1> QED  BY <1>3, <1>4

(* Each run of a handler is a step of Broadcast, or shows nothing. *)
LEMMA HandleRefines ==
    ASSUME Refines, Refines',
           NEW v \in VMs, NEW io \in Io, Ordered(v, io), Handle(v, io)
    PROVE  BufferBroadcast!Next \/ UNCHANGED <<OnOfferNow, HeldNow>>
<1>0. TypeOK /\ TypeOK' /\ RoundContents /\ RoundProtocol /\ \A r \in Readers : Delivery(r)
  BY DEF Refines
<1>1. CASE Fail(v) \/ Sleep(v, io)
  BY <1>1, Stutter DEF Fail, Sleep
<1>2. CASE DeliverMode(v, io)
  <2>1. \A r \in Readers : ctx'[r].lastReadGeneration = ctx[r].lastReadGeneration
    BY <1>0, <1>2 DEF DeliverMode, TypeOK, CtxType
  <2> QED  BY <1>2, <2>1, Stutter DEF DeliverMode
<1>3. CASE /\ Handler(v, io) = "beginWriterRound"
           /\ RoundFree /\ OpenRound(v, io.val)
  <2>1. v = Writer /\ io.val \in Nat /\ state' = PublishIfComplete(NewRound(io.val))
    BY <1>3, HandlerWriter, IoType DEF OpenRound
  <2>2. \A r \in Readers : ctx'[r] = ctx[r]
    BY <1>0, <1>3, <2>1, ConstantsAssumption DEF OpenRound, TypeOK
  <2>3. state'.generation =
              (IF state'.dataReady THEN state.generation + 1 ELSE state.generation)
    BY <1>0, <2>1, NewRoundFields DEF TypeOK
  <2> QED  BY <1>0, <1>3, <2>2, <2>3, OfferOrNothing DEF RoundFree, BufferBroadcast!Next
<1>4. CASE /\ Handler(v, io) = "writeSharedByte"
           /\ MayWrite /\ TakeByte(v, io.val)
  <2>1. v = Writer /\ io.val \in Byte /\ state' = PublishIfComplete(Store(io.val))
    BY <1>4, HandlerWriter, IoType DEF TakeByte
  <2>2. \A r \in Readers : ctx'[r] = ctx[r]
    BY <1>0, <1>4, <2>1, ConstantsAssumption DEF TakeByte, TypeOK
  <2>3. state'.generation =
              (IF state'.dataReady THEN state.generation + 1 ELSE state.generation)
    BY <1>0, <1>4, <2>1, StoreFields DEF TypeOK
  <2> QED  BY <1>0, <1>4, <2>2, <2>3, OfferOrNothing DEF MayWrite, BufferBroadcast!Next
<1>5. CASE /\ Handler(v, io) = "finishWriterRound"
           /\ AllAcknowledged(v) /\ CloseRound(v)
  <2>1. ~OnOffer'
    BY <1>0, <1>5 DEF CloseRound, OnOffer, TypeOK, StateType
  <2>2. OnOfferNow' = <<>> /\ HeldNow' = [r \in Readers |-> <<>>]
    BY <2>1 DEF OnOfferNow, HeldNow, Held
  <2>3. CASE ~OnOffer
    BY <2>2, <2>3, NothingHeld
  <2>4. CASE OnOffer
    <3>1. \A r \in Readers : ctx[r].lastReadGeneration = state.generation
      BY <1>0, <1>5, CountIsComplete
    <3>2. ASSUME NEW r \in Readers PROVE Held(r) = OnOfferNow
      BY <1>0, <2>4, <3>1 DEF Held, OnOfferNow, Delivery, Acknowledged, OnOffer
    <3>3. OnOfferNow # <<>>
      BY <2>4 DEF OnOfferNow
    <3>4. \A r \in Readers : HeldNow[r] = OnOfferNow
      BY <3>2 DEF HeldNow
    <3>5. BufferBroadcast!Complete
      BY <2>2, <3>3, <3>4
         DEF BufferBroadcast!Complete, BufferBroadcast!Nothing, OnOfferNow, HeldNow, Held
    <3> QED  BY <3>5 DEF BufferBroadcast!Next
  <2> QED  BY <2>3, <2>4
<1>6. CASE /\ Handler(v, io) = "beginReaderRound"
           /\ FreshData(v) /\ StartReading(v)
  <2>1. v \in Readers
    BY <1>6, HandlerReader
  <2>2. state' = state /\ sent' = sent /\ ctx[v].lastReadGeneration # state.generation
    BY <1>0, <1>6 DEF StartReading, FreshData, TypeOK, StateType, CtxType
  <2>3. ASSUME NEW r \in Readers
        PROVE  /\ ctx'[r].lastReadGeneration = ctx[r].lastReadGeneration
               /\ r # v => received'[r] = received[r]
    BY <1>0, <1>6 DEF StartReading, TypeOK, CtxType
  <2> QED  BY <2>2, <2>3, Stutter
<1>7. CASE /\ Handler(v, io) = "readSharedByte"
           /\ GiveByte(v, state.data[ctx[v].readOffset])
  <2>1. v \in Readers /\ UnfinishedRead(v)
    BY <1>7, OrderedReader
  <2>2. ctx[v].lastReadGeneration # state.generation
    <3>1. ctx[v].lastReadGeneration \in Nat /\ ctx[v].activeReadGeneration \in Nat
      BY <1>0 DEF TypeOK, CtxType
    <3>2. /\ ctx[v].activeReadGeneration = state.generation
          /\ ctx[v].activeReadGeneration > ctx[v].lastReadGeneration
      BY <1>0, <2>1 DEF RoundProtocol, ReaderProtocol
    <3> QED  BY <3>1, <3>2
  <2>3. state' = state /\ sent' = sent
    BY <1>7 DEF GiveByte
  <2>4. ASSUME NEW r \in Readers
        PROVE  /\ ctx'[r].lastReadGeneration = ctx[r].lastReadGeneration
               /\ r # v => received'[r] = received[r]
    BY <1>0, <1>7 DEF GiveByte, TypeOK, CtxType
  <2> QED  BY <2>2, <2>3, <2>4, Stutter
<1>8. CASE Handler(v, io) = "finishReaderRound" /\ Acknowledge(v)
  <2>1. v \in Readers /\ UnfinishedRead(v)
    BY <1>8, OrderedReader
  <2>2. /\ state'.generation = state.generation /\ state'.dataReady = state.dataReady
        /\ state'.roundInProgress = state.roundInProgress
        /\ sent' = sent /\ received' = received
    BY <1>0, <1>8 DEF Acknowledge, TypeOK, StateType
  <2>3. /\ \A r \in Readers : r # v => ctx'[r] = ctx[r]
        /\ ctx'[v].lastReadGeneration = ctx[v].activeReadGeneration
    BY <1>0, <1>8 DEF Acknowledge, TypeOK, CtxType
  <2>4. /\ ctx[v].activeReadGeneration = state.generation
        /\ state.dataReady /\ state.roundInProgress
        /\ ctx[v].activeReadGeneration > ctx[v].lastReadGeneration
    BY <1>0, <2>1 DEF RoundProtocol, ReaderProtocol
  <2>5. ctx[v].lastReadGeneration # state.generation
    BY <1>0, <2>4 DEF TypeOK, CtxType
  <2>6. OnOffer /\ OnOffer' /\ Message' = Message
    BY <2>2, <2>4 DEF OnOffer, Message, StoredSize
  <2>7. received'[v] = Message'
    <3>1. v \in Acknowledged'
      BY <2>1, <2>2, <2>3, <2>4 DEF Acknowledged
    <3> QED  BY <2>1, <3>1 DEF Refines, Delivery
  <2>8. OnOfferNow = <<Message>> /\ OnOfferNow' = OnOfferNow /\ OnOfferNow # <<>>
    BY <2>6 DEF OnOfferNow
  <2>9. Held(v) = <<>> /\ Held(v)' = OnOfferNow
    BY <2>2, <2>3, <2>4, <2>5, <2>6, <2>7, <2>8 DEF Held
  <2>10. \A r \in Readers : r # v => Held(r)' = Held(r)
    BY <2>2, <2>3, <2>6 DEF Held
  <2>11. HeldNow' = [HeldNow EXCEPT ![v] = OnOfferNow] /\ HeldNow[v] = <<>>
    BY <2>1, <2>9, <2>10 DEF HeldNow
  <2>12. BufferBroadcast!Take(v)
    BY <2>8, <2>11 DEF BufferBroadcast!Take, BufferBroadcast!Nothing, OnOfferNow, HeldNow, Held
  <2> QED  BY <2>1, <2>12 DEF BufferBroadcast!Next
<1> QED  BY HandleCases, <1>1, <1>2, <1>3, <1>4, <1>5, <1>6, <1>7, <1>8

(* Each step of the ordered system is a step of Broadcast, or shows        *)
(* nothing: an abort stops the buffer but takes no message back.           *)
LEMMA NextRefines ==
    ASSUME Refines, Refines', [OrderedNext]_vars
    PROVE  BufferBroadcast!Next \/ UNCHANGED <<OnOfferNow, HeldNow>>
<1>1. CASE \E v \in VMs : \E io \in Io :
              WithinBound(v, io) /\ Ordered(v, io) /\ Handle(v, io)
  BY <1>1, HandleRefines
<1>2. CASE MainAborts \/ \E v \in VMs : AbortSharedBuffer(v)
  <2>1. /\ state' = [state EXCEPT !.stopped = TRUE]
        /\ ctx' = ctx /\ sent' = sent /\ received' = received
    BY <1>2 DEF MainAborts, AbortSharedBuffer, Abort
  <2>2. /\ state'.generation = state.generation /\ state'.dataReady = state.dataReady
        /\ state'.roundInProgress = state.roundInProgress
    BY <2>1 DEF Refines, TypeOK, StateType
  <2> QED  BY <2>1, <2>2, Stutter
<1>3. CASE \E v \in VMs : SpuriousWakeup(v) \/ GuestHalts(v) \/ GuestFails(v)
  BY <1>3, Stutter DEF SpuriousWakeup, GuestHalts, GuestFails
<1>4. CASE UNCHANGED vars
  BY <1>4, Stutter DEF vars
<1> QED  BY <1>1, <1>2, <1>3, <1>4 DEF OrderedNext, Thread

(* For any number of readers, any buffer size and any interleaving, the    *)
(* buffer is a broadcast to guests that keep the order of                  *)
(* guest/src/interrupts.c: a message is offered whole, taken at most once  *)
(* and unchanged by each reader, and not replaced before all have it.      *)
THEOREM BufferIsBroadcast == OrderedSpec => ImplementsBroadcast
<1>1. Init => BufferBroadcast!Init
  BY DEF Init, BufferBroadcast!Init, BufferBroadcast!Nothing, OnOffer
<1>2. Refines /\ Refines' /\ [OrderedNext]_vars
        => [BufferBroadcast!Next]_<<OnOfferNow, HeldNow>>
  BY NextRefines
<1> QED
  BY <1>1, <1>2, RefinesHolds, PTL
     DEF OrderedSpec, ImplementsBroadcast, BufferBroadcast!Spec, OnOfferNow, HeldNow, Held
=============================================================================
