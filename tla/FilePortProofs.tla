----------------------------- MODULE FilePortProofs -----------------------------
(***************************************************************************)
(* Theorems about FilePort, for every memory size, address, count and      *)
(* result.  ResultsAreAwaited is inductive relative to TypeOK: it ties     *)
(* each pending result to the activation that waits for it, so the last    *)
(* one belongs to the running activation (LastIsOwn), which is what an IN  *)
(* pops.  OwnResult and the memory bound follow step by step.              *)
(***************************************************************************)
EXTENDS FilePort, SequenceTheorems, TLAPS

(* The accesses getGuestMemory lets through end inside guest memory. *)
LEMMA RangeInside ==
    ASSUME NEW address \in Nat, NEW size \in Nat, getGuestMemory(address, size)
    PROVE  address + size <= MemSize
  BY MemoryAssumption DEF getGuestMemory

(* So do the bytes readGuestFileName looks at. *)
LEMMA NameInside ==
    ASSUME NEW address \in Nat, NEW length \in Nat, getGuestMemory(address, 1)
    PROVE  LET range == NameRange(address, length) IN range[1] + range[2] <= MemSize
  BY MemoryAssumption DEF getGuestMemory, NameRange

(* Everything a request makes the host use lies in guest memory. *)
LEMMA RequestInside ==
    ASSUME NEW request \in Requests, NEW range \in UsedMemory(request)
    PROVE  range[1] + range[2] <= MemSize
<1> USE PortAssumption
<1>1. request.buffer \in Nat /\ request.count \in Int /\ request.length \in Nat
  BY DEF Requests
<1>2. CASE request.operation = "OPEN" /\ getGuestMemory(request.buffer, 1)
  <2>1. range = NameRange(request.buffer, request.length)
    BY <1>2 DEF UsedMemory
  <2> QED  BY <1>1, <1>2, <2>1, NameInside
<1>3. CASE /\ request.operation \in {"READ", "WRITE"} /\ request.count > 0
           /\ getGuestMemory(request.buffer, request.count)
  <2>1. range = <<request.buffer, request.count>>
    BY <1>3 DEF UsedMemory
  <2> QED  BY <1>1, <1>3, <2>1, RangeInside
<1>4. CASE /\ ~(request.operation = "OPEN" /\ getGuestMemory(request.buffer, 1))
           /\ ~(/\ request.operation \in {"READ", "WRITE"} /\ request.count > 0
                /\ getGuestMemory(request.buffer, request.count))
  <2>1. UsedMemory(request) = {}
    BY <1>4 DEF UsedMemory
  <2> QED  BY <2>1
<1> QED  BY <1>2, <1>3, <1>4
---------------------------------------------------------------------------
(* A stack without its last element. *)
LEMMA Shortened ==
    ASSUME NEW S, NEW s \in Seq(S), s # <<>>
    PROVE  /\ SubSeq(s, 1, Len(s) - 1) \in Seq(S)
           /\ Len(SubSeq(s, 1, Len(s) - 1)) = Len(s) - 1
           /\ \A i \in 1..Len(s) - 1 : SubSeq(s, 1, Len(s) - 1)[i] = s[i]
<1>1. Len(s) \in Nat \ {0}
  BY EmptySeq
<1> DEFINE n == Len(s) - 1
<1>2. n \in Nat /\ n \in Int
  BY <1>1
<1>3. \A i \in 1..n : s[i] \in S
  BY <1>1, <1>2, ElementOfSeq
<1> HIDE DEF n
<1>4. /\ SubSeq(s, 1, n) \in Seq(S)
      /\ Len(SubSeq(s, 1, n)) = IF 1 <= n THEN n - 1 + 1 ELSE 0
      /\ \A i \in 1..n - 1 + 1 : SubSeq(s, 1, n)[i] = s[1 + i - 1]
  BY <1>2, <1>3, SubSeqProperties
<1>5. n - 1 + 1 = n /\ \A i \in 1..n : 1 + i - 1 = i
  BY <1>2
<1>6. SubSeq(s, 1, n) \in Seq(S) /\ Len(SubSeq(s, 1, n)) = n
  BY <1>2, <1>4
<1>7. \A i \in 1..n : SubSeq(s, 1, n)[i] = s[i]
  BY <1>4, <1>5
<1> QED  BY <1>6, <1>7 DEF n

(* The running activation. *)
LEMMA TopType ==
    ASSUME TypeOK
    PROVE  /\ Len(frames) \in Nat /\ Len(frames) > 0
           /\ Top \in FrameType
<1>1. Len(frames) \in Nat \ {0}
  BY EmptySeq DEF TypeOK
<1> QED  BY <1>1, ElementOfSeq DEF TypeOK, Top

(* What SetTop leaves alone. *)
LEMMA SetTopType ==
    ASSUME TypeOK, NEW frame \in FrameType, SetTop(frame)
    PROVE  /\ frames' \in Seq(FrameType) /\ frames' # <<>>
           /\ Len(frames') = Len(frames)
           /\ \A i \in 1..Len(frames) :
                frames'[i] = IF i = Len(frames) THEN frame ELSE frames[i]
<1>1. Len(frames) \in 1..Len(frames)
  BY TopType
<1>2. /\ frames' \in Seq(FrameType)
      /\ Len(frames') = Len(frames)
      /\ \A i \in 1..Len(frames) :
            frames'[i] = IF i = Len(frames) THEN frame ELSE frames[i]
  BY <1>1, ExceptSeq DEF SetTop, TypeOK
<1>3. frames' # <<>>
  BY <1>2, TopType, EmptySeq
<1> QED  BY <1>2, <1>3

(* The pending results without the last, and the last. *)
LEMMA PopType ==
    ASSUME TypeOK, pendingResults # <<>>
    PROVE  /\ Len(pendingResults) \in Nat /\ Len(pendingResults) > 0
           /\ PopResult \in Seq(Results)
           /\ Len(PopResult) = Len(pendingResults) - 1
           /\ \A k \in 1..Len(pendingResults) - 1 : PopResult[k] = pendingResults[k]
           /\ LastResult = pendingResults[Len(pendingResults)]
           /\ LastResult \in Results
<1>1. Len(pendingResults) \in Nat \ {0}
  BY EmptySeq DEF TypeOK
<1>2. PopResult = SubSeq(pendingResults, 1, Len(pendingResults) - 1)
  BY DEF PopResult
<1>3. /\ PopResult \in Seq(Results)
      /\ Len(PopResult) = Len(pendingResults) - 1
      /\ \A k \in 1..Len(pendingResults) - 1 : PopResult[k] = pendingResults[k]
  BY <1>2, Shortened DEF TypeOK
<1>4. LastResult = pendingResults[Len(pendingResults)]
  BY DEF LastResult
<1>5. LastResult \in Results
  BY <1>1, <1>4, ElementOfSeq DEF TypeOK
<1> QED  BY <1>1, <1>3, <1>4, <1>5

(* Type correctness; no more interrupts are injected than there are. *)
THEOREM PortTypeCorrect == Spec => []TypeOK
<1> USE PortAssumption
<1>1. Init => TypeOK
  BY DEF Init, TypeOK, FrameType, NewFrame, IRQ_COUNT
<1>2. TypeOK /\ [Next]_vars => TypeOK'
  <2> SUFFICES ASSUME TypeOK, [Next]_vars PROVE TypeOK'
    OBVIOUS
  <2>0. NewFrame \in FrameType
    BY DEF NewFrame, FrameType
  <2>1. CASE Submit
    <3>1. PICK request \in Requests, address \in Addresses, result \in Results :
            /\ HandleOut(address, request, result)
            /\ SetTop([Top EXCEPT !.outstanding = TRUE, !.result = result,
                                  !.place = Len(pendingResults) + 1])
      BY <2>1 DEF Submit
    <3>2. pendingResults' \in Seq(Results)
      BY <3>1, AppendProperties DEF HandleOut, TypeOK
    <3>3. Len(pendingResults) + 1 \in Nat
      BY LenProperties DEF TypeOK
    <3>4. [Top EXCEPT !.outstanding = TRUE, !.result = result,
                      !.place = Len(pendingResults) + 1] \in FrameType
      BY <3>3, TopType DEF FrameType
    <3>5. frames' \in Seq(FrameType) /\ frames' # <<>>
      BY <3>1, <3>4, SetTopType
    <3> QED  BY <2>1, <3>2, <3>5 DEF Submit, TypeOK
  <2>2. CASE RefuseNull
    BY <2>2 DEF RefuseNull, TypeOK
  <2>3. CASE Return \/ StrayIn
    <3>1. PopResult \in Seq(Results) /\ LastResult \in Results
      BY PopType DEF PopResult, LastResult, TypeOK
    <3>2. CASE Return
      <4>1. [Top EXCEPT !.outstanding = FALSE, !.result = -1, !.place = 0] \in FrameType
        BY TopType DEF FrameType
      <4>2. frames' \in Seq(FrameType) /\ frames' # <<>>
        BY <3>2, <4>1, SetTopType DEF Return
      <4>3. Top.result \in Results
        BY TopType DEF FrameType
      <4> QED  BY <3>1, <3>2, <4>2, <4>3 DEF Return, TypeOK
    <3>3. CASE StrayIn
      BY <3>1, <3>3 DEF StrayIn, TypeOK
    <3> QED  BY <2>3, <3>2, <3>3
  <2>4. CASE BadAccess
    BY <2>4 DEF BadAccess, TypeOK
  <2>5. CASE InjectIrq
    <3>1. frames' \in Seq(FrameType) /\ frames' # <<>>
      BY <2>0, <2>5, AppendProperties DEF InjectIrq, TypeOK
    <3> QED  BY <2>5, <3>1 DEF InjectIrq, TypeOK, IRQ_COUNT
  <2>6. CASE EnableInterrupts
    <3>1. [Top EXCEPT !.enabled = TRUE] \in FrameType
      BY TopType DEF FrameType
    <3>2. frames' \in Seq(FrameType) /\ frames' # <<>>
      BY <2>6, <3>1, SetTopType DEF EnableInterrupts
    <3> QED  BY <2>6, <3>2 DEF EnableInterrupts, TypeOK
  <2>7. CASE ReturnFromInterrupt
    <3>1. frames' \in Seq(FrameType) /\ frames' # <<>>
      <4>1. frames' \in Seq(FrameType) /\ Len(frames') = Len(frames) - 1
        BY <2>7, Shortened DEF ReturnFromInterrupt, TypeOK
      <4>2. Len(frames) \in Nat /\ Len(frames) > 1
        BY <2>7, TopType DEF ReturnFromInterrupt
      <4>3. Len(frames) - 1 > 0
        BY <4>2
      <4>4. Len(frames') > 0
        BY <4>1, <4>3
      <4> QED  BY <4>1, <4>4, EmptySeq
    <3> QED  BY <2>7, <3>1 DEF ReturnFromInterrupt, TypeOK
  <2>8. CASE UNCHANGED vars
    BY <2>8 DEF vars, TypeOK
  <2> QED  BY <2>1, <2>2, <2>3, <2>4, <2>5, <2>6, <2>7, <2>8 DEF Next
<1> QED  BY <1>1, <1>2, PTL DEF Spec
---------------------------------------------------------------------------
(* The result an outstanding activation waits for is the last one, if it   *)
(* is the running one.                                                     *)
LEMMA LastIsOwn ==
    ASSUME TypeOK, ResultsAreAwaited, Top.outstanding
    PROVE  /\ pendingResults # <<>>
           /\ Top.place = Len(pendingResults)
           /\ LastResult = Top.result
<1> DEFINE n == Len(frames)
           m == Len(pendingResults)
<1>1. n \in Nat /\ n > 0 /\ m \in Nat
  BY TopType, LenProperties DEF TypeOK
<1>2. n \in 1..n /\ Top = frames[n]
  BY <1>1 DEF Top
<1>3. frames[n].place \in 1..m /\ pendingResults[frames[n].place] = frames[n].result
  BY <1>2 DEF ResultsAreAwaited
<1>4. m \in 1..m
  BY <1>1, <1>3
<1>5. PICK i \in 1..n : frames[i].outstanding /\ frames[i].place = m
  BY <1>4 DEF ResultsAreAwaited
<1>6. i < n => frames[i].place < frames[n].place
  BY <1>2, <1>5 DEF ResultsAreAwaited
<1>7. ~(i < n)
  BY <1>1, <1>3, <1>5, <1>6
<1>8. i = n
  BY <1>1, <1>5, <1>7
<1>9. pendingResults # <<>>
  BY <1>4, EmptySeq DEF TypeOK
<1>10. LastResult = pendingResults[m]
  BY <1>9 DEF LastResult
<1> QED  BY <1>2, <1>3, <1>5, <1>8, <1>9, <1>10

(* An activation that is not outstanding and runs leaves room for one more *)
(* result below it.                                                        *)
LEMMA RoomForOne ==
    ASSUME TypeOK, ResultsAreAwaited, ~Top.outstanding
    PROVE  Len(pendingResults) + 1 <= Len(frames)
<1> DEFINE n == Len(frames)
           m == Len(pendingResults)
<1>1. n \in Nat /\ n > 0 /\ m \in Nat
  BY TopType, LenProperties DEF TypeOK
<1>2. CASE m = 0
  BY <1>1, <1>2
<1>3. CASE m > 0
  <2>1. m \in 1..m
    BY <1>1, <1>3
  <2>2. PICK i \in 1..n : frames[i].outstanding /\ frames[i].place = m
    BY <2>1 DEF ResultsAreAwaited
  <2>3. frames[i].place <= i
    BY <2>2 DEF ResultsAreAwaited
  <2>4. i # n
    BY <2>2 DEF Top
  <2> QED  BY <1>1, <2>2, <2>3, <2>4
<1> QED  BY <1>1, <1>2, <1>3

(* When no activation is outstanding there is no result. *)
LEMMA NoneAwaited ==
    ASSUME TypeOK, ResultsAreAwaited, \A i \in 1..Len(frames) : ~frames[i].outstanding
    PROVE  pendingResults = <<>>
<1>1. Len(pendingResults) \in Nat
  BY LenProperties DEF TypeOK
<1>2. SUFFICES ASSUME pendingResults # <<>> PROVE FALSE
  OBVIOUS
<1>3. Len(pendingResults) \in 1..Len(pendingResults)
  BY <1>1, <1>2, EmptySeq DEF TypeOK
<1> QED  BY <1>3 DEF ResultsAreAwaited
---------------------------------------------------------------------------
(* The four parts of ResultsAreAwaited, of given stacks. *)
Bounded(fs, count) == Len(fs) + count <= IRQ_COUNT + 1
Kept(fs, rs) ==
    \A i \in 1..Len(fs) : fs[i].outstanding =>
        /\ fs[i].place \in 1..Len(rs) /\ fs[i].place <= i
        /\ rs[fs[i].place] = fs[i].result
Nested(fs) ==
    \A i, j \in 1..Len(fs) :
        fs[i].outstanding /\ fs[j].outstanding /\ i < j => fs[i].place < fs[j].place
Awaited(fs, rs) ==
    \A k \in 1..Len(rs) : \E i \in 1..Len(fs) : fs[i].outstanding /\ fs[i].place = k

LEMMA AwaitedParts ==
    ResultsAreAwaited <=>
        /\ Bounded(frames, interruptCount) /\ Kept(frames, pendingResults)
        /\ Nested(frames) /\ Awaited(frames, pendingResults)
  BY DEF ResultsAreAwaited, Bounded, Kept, Nested, Awaited

(* Submit pushes the result of the running activation above all others. *)
LEMMA SubmitAwaited ==
    ASSUME TypeOK, ResultsAreAwaited, Submit
    PROVE  ResultsAreAwaited'
<1> DEFINE n == Len(frames)
           m == Len(pendingResults)
<1>1. n \in Nat /\ n > 0 /\ m \in Nat /\ m + 1 <= n /\ m + 1 \in Nat
  BY TopType, RoomForOne, LenProperties DEF TypeOK, Submit
<1>2. PICK request \in Requests, address \in Addresses, result \in Results :
        /\ HandleOut(address, request, result)
        /\ SetTop([Top EXCEPT !.outstanding = TRUE, !.result = result, !.place = m + 1])
  BY DEF Submit
<1> DEFINE top == [Top EXCEPT !.outstanding = TRUE, !.result = result, !.place = m + 1]
<1>3. /\ top \in FrameType /\ top.outstanding /\ top.result = result
      /\ top.place = m + 1
  BY <1>1, TopType DEF FrameType
<1> HIDE DEF top
<1>4. /\ Len(frames') = n
      /\ \A i \in 1..n : frames'[i] = IF i = n THEN top ELSE frames[i]
  BY <1>2, <1>3, SetTopType DEF top
<1>5. pendingResults' = Append(pendingResults, result)
  BY <1>2 DEF HandleOut
<1>6. /\ Len(pendingResults') = m + 1 /\ pendingResults'[m + 1] = result
      /\ \A k \in 1..m : pendingResults'[k] = pendingResults[k]
  BY <1>5, AppendProperties DEF TypeOK
<1>7. Bounded(frames', interruptCount')
  BY <1>4, AwaitedParts DEF Bounded, Submit
<1>8. \A i \in 1..n : i # n /\ frames[i].outstanding =>
        /\ frames[i].place \in 1..m /\ frames[i].place <= i
        /\ pendingResults[frames[i].place] = frames[i].result
  BY AwaitedParts DEF Kept
<1>9. Kept(frames', pendingResults')
  <2> SUFFICES ASSUME NEW i \in 1..n, frames'[i].outstanding
               PROVE  /\ frames'[i].place \in 1..m + 1 /\ frames'[i].place <= i
                      /\ pendingResults'[frames'[i].place] = frames'[i].result
    BY <1>4, <1>6 DEF Kept
  <2>1. CASE i = n
    BY <1>1, <1>3, <1>4, <1>6, <2>1
  <2>2. CASE i # n
    BY <1>1, <1>4, <1>6, <1>8, <2>2
  <2> QED  BY <2>1, <2>2
<1>10. Nested(frames')
  <2> SUFFICES ASSUME NEW i \in 1..n, NEW j \in 1..n, i < j,
                      frames'[i].outstanding, frames'[j].outstanding
               PROVE  frames'[i].place < frames'[j].place
    BY <1>4 DEF Nested
  <2>1. i # n /\ frames'[i] = frames[i]
    BY <1>1, <1>4
  <2>2. CASE j = n
    <3>1. frames'[i].place \in 1..m
      BY <1>8, <2>1
    <3>2. frames'[j].place = m + 1
      BY <1>3, <1>4, <2>2
    <3> QED  BY <1>1, <3>1, <3>2
  <2>3. CASE j # n
    <3>1. frames'[j] = frames[j]
      BY <1>4, <2>3
    <3> QED  BY <2>1, <3>1, AwaitedParts DEF Nested
  <2> QED  BY <2>2, <2>3
<1>11. Awaited(frames', pendingResults')
  <2> SUFFICES ASSUME NEW k \in 1..m + 1
               PROVE  \E i \in 1..n : frames'[i].outstanding /\ frames'[i].place = k
    BY <1>4, <1>6 DEF Awaited
  <2>1. CASE k = m + 1
    <3>1. n \in 1..n /\ frames'[n] = top
      BY <1>1, <1>4
    <3> QED  BY <1>3, <2>1, <3>1
  <2>2. CASE k # m + 1
    <3>1. k \in 1..m
      BY <1>1, <2>2
    <3>2. PICK i \in 1..n : frames[i].outstanding /\ frames[i].place = k
      BY <3>1, AwaitedParts DEF Awaited
    <3>3. i # n
      BY <3>2 DEF Top, Submit
    <3> QED  BY <1>4, <3>2, <3>3
  <2> QED  BY <2>1, <2>2
<1> QED  BY <1>7, <1>9, <1>10, <1>11 DEF ResultsAreAwaited, Bounded, Kept, Nested, Awaited

(* Return pops the result of the running activation and no other. *)
LEMMA ReturnAwaited ==
    ASSUME TypeOK, ResultsAreAwaited, Return
    PROVE  ResultsAreAwaited'
<1> USE PortAssumption
<1> DEFINE n == Len(frames)
           m == Len(pendingResults)
<1>1. n \in Nat /\ n > 0 /\ n \in 1..n /\ Top = frames[n]
  BY TopType DEF Top
<1>2. Top.outstanding /\ pendingResults # <<>> /\ Top.place = m
  BY LastIsOwn DEF Return
<1>3. /\ m \in Nat /\ m > 0
      /\ Len(pendingResults') = m - 1
      /\ \A k \in 1..m - 1 : pendingResults'[k] = pendingResults[k]
  BY <1>2, PopType DEF Return
<1> DEFINE top == [Top EXCEPT !.outstanding = FALSE, !.result = -1, !.place = 0]
<1>4. top \in FrameType /\ ~top.outstanding
  BY TopType DEF FrameType
<1> HIDE DEF top
<1>5. /\ Len(frames') = n
      /\ \A i \in 1..n : frames'[i] = IF i = n THEN top ELSE frames[i]
  BY <1>4, SetTopType DEF Return, top
<1>6. \A i \in 1..n : frames'[i].outstanding =>
        i # n /\ frames'[i] = frames[i] /\ frames[i].place \in 1..m - 1
  <2> SUFFICES ASSUME NEW i \in 1..n, frames'[i].outstanding
               PROVE  i # n /\ frames'[i] = frames[i] /\ frames[i].place \in 1..m - 1
    OBVIOUS
  <2>1. i # n /\ frames'[i] = frames[i]
    BY <1>4, <1>5
  <2>2. i < n
    BY <1>1, <2>1
  <2>3. frames[i].place \in 1..m /\ frames[i].place < m
    BY <1>1, <1>2, <2>1, <2>2, AwaitedParts DEF Kept, Nested
  <2> QED  BY <1>3, <2>1, <2>3
<1>7. Bounded(frames', interruptCount')
  BY <1>5, AwaitedParts DEF Bounded, Return
<1>8. Kept(frames', pendingResults')
  BY <1>3, <1>5, <1>6, AwaitedParts DEF Kept
<1>9. Nested(frames')
  BY <1>5, <1>6, AwaitedParts DEF Nested
<1>10. Awaited(frames', pendingResults')
  <2> SUFFICES ASSUME NEW k \in 1..m - 1
               PROVE  \E i \in 1..n : frames'[i].outstanding /\ frames'[i].place = k
    BY <1>3, <1>5 DEF Awaited
  <2>1. k \in 1..m /\ k # m
    BY <1>3
  <2>2. PICK i \in 1..n : frames[i].outstanding /\ frames[i].place = k
    BY <2>1, AwaitedParts DEF Awaited
  <2>3. i # n
    BY <1>1, <1>2, <2>1, <2>2
  <2> QED  BY <1>5, <2>2, <2>3
<1> QED  BY <1>7, <1>8, <1>9, <1>10 DEF ResultsAreAwaited, Bounded, Kept, Nested, Awaited

(* An interrupt adds an activation that awaits nothing, the end of a       *)
(* handler removes one.                                                    *)
LEMMA InterruptAwaited ==
    ASSUME TypeOK, ResultsAreAwaited, InjectIrq \/ ReturnFromInterrupt
    PROVE  ResultsAreAwaited'
<1> USE PortAssumption
<1> DEFINE n == Len(frames)
<1>1. n \in Nat /\ n > 0 /\ interruptCount \in Int
  BY TopType DEF TypeOK, IRQ_COUNT
<1>2. pendingResults' = pendingResults
  BY DEF InjectIrq, ReturnFromInterrupt
<1>3. CASE InjectIrq
  <2>1. NewFrame \in FrameType /\ ~NewFrame.outstanding
    BY DEF NewFrame, FrameType
  <2>2. /\ Len(frames') = n + 1 /\ frames'[n + 1] = NewFrame
        /\ \A i \in 1..n : frames'[i] = frames[i]
    BY <1>3, <2>1, AppendProperties DEF InjectIrq, TypeOK
  <2>3. \A i \in 1..n + 1 : frames'[i].outstanding => i \in 1..n
    BY <1>1, <2>1, <2>2
  <2>4. 1..n \subseteq 1..n + 1
    BY <1>1
  <2>5. Bounded(frames', interruptCount')
    BY <1>1, <1>3, <2>2, AwaitedParts DEF Bounded, InjectIrq, IRQ_COUNT
  <2>6. Kept(frames', pendingResults')
    BY <1>2, <2>2, <2>3, AwaitedParts DEF Kept
  <2>7. Nested(frames')
    BY <2>2, <2>3, AwaitedParts DEF Nested
  <2>8. Awaited(frames', pendingResults')
    BY <1>2, <2>2, <2>4, AwaitedParts DEF Awaited
  <2> QED  BY <2>5, <2>6, <2>7, <2>8 DEF ResultsAreAwaited, Bounded, Kept, Nested, Awaited
<1>4. CASE ReturnFromInterrupt
  <2>1. /\ Len(frames') = n - 1
        /\ \A i \in 1..n - 1 : frames'[i] = frames[i]
    BY <1>4, Shortened DEF ReturnFromInterrupt, TypeOK
  <2>2. \A i \in 1..n - 1 : i \in 1..n
    BY <1>1
  <2>3. \A i \in 1..n : frames[i].outstanding => i \in 1..n - 1
    BY <1>1, <1>4 DEF ReturnFromInterrupt, Top
  <2>4. Bounded(frames', interruptCount')
    BY <1>1, <1>4, <2>1, AwaitedParts DEF Bounded, ReturnFromInterrupt, IRQ_COUNT
  <2>5. Kept(frames', pendingResults')
    BY <1>2, <2>1, <2>2, AwaitedParts DEF Kept
  <2>6. Nested(frames')
    BY <2>1, <2>2, AwaitedParts DEF Nested
  <2>7. Awaited(frames', pendingResults')
    BY <1>2, <2>1, <2>3, AwaitedParts DEF Awaited
  <2> QED  BY <2>4, <2>5, <2>6, <2>7 DEF ResultsAreAwaited, Bounded, Kept, Nested, Awaited
<1> QED  BY <1>3, <1>4

(* Enabling interrupts changes nothing the results depend on. *)
LEMMA EnableAwaited ==
    ASSUME TypeOK, ResultsAreAwaited, EnableInterrupts
    PROVE  ResultsAreAwaited'
<1> DEFINE n == Len(frames)
           top == [Top EXCEPT !.enabled = TRUE]
<1>1. /\ top \in FrameType /\ top.outstanding = Top.outstanding
      /\ top.place = Top.place /\ top.result = Top.result
  BY TopType DEF FrameType
<1> HIDE DEF top
<1>2. /\ Len(frames') = n
      /\ \A i \in 1..n : frames'[i] = IF i = n THEN top ELSE frames[i]
  BY <1>1, SetTopType DEF EnableInterrupts, top
<1>3. \A i \in 1..n : /\ frames'[i].outstanding = frames[i].outstanding
                     /\ frames'[i].place = frames[i].place
                     /\ frames'[i].result = frames[i].result
  BY <1>1, <1>2 DEF Top
<1>4. UNCHANGED <<pendingResults, interruptCount>>
  BY DEF EnableInterrupts
<1>5. Bounded(frames', interruptCount') /\ Kept(frames', pendingResults')
  BY <1>2, <1>3, <1>4, AwaitedParts DEF Bounded, Kept
<1>6. Nested(frames')
  BY <1>2, <1>3, AwaitedParts DEF Nested
<1>7. Awaited(frames', pendingResults')
  BY <1>2, <1>3, <1>4, AwaitedParts DEF Awaited
<1> QED  BY <1>5, <1>6, <1>7 DEF ResultsAreAwaited, Bounded, Kept, Nested, Awaited

(* The stack holds one result for each outstanding call, in the order of   *)
(* the activations, whatever requests and interrupts come.                 *)
THEOREM ResultsNest == Spec => []ResultsAreAwaited
<1>1. Init => ResultsAreAwaited
  <2> SUFFICES ASSUME Init PROVE ResultsAreAwaited
    OBVIOUS
  <2>1. /\ Len(frames) = 1 /\ frames[1] = NewFrame /\ Len(pendingResults) = 0
        /\ interruptCount = IRQ_COUNT
    BY DEF Init
  <2>2. \A i \in 1..1 : i = 1
    OBVIOUS
  <2>3. ~NewFrame.outstanding
    BY DEF NewFrame
  <2>4. \A i \in 1..Len(frames) : ~frames[i].outstanding
    BY <2>1, <2>2, <2>3
  <2>5. Bounded(frames, interruptCount)
    BY <2>1 DEF Bounded, IRQ_COUNT
  <2>6. Awaited(frames, pendingResults)
    BY <2>1 DEF Awaited
  <2> QED  BY <2>4, <2>5, <2>6, AwaitedParts DEF Kept, Nested
<1>2. TypeOK /\ ResultsAreAwaited /\ [Next]_vars => ResultsAreAwaited'
  <2> SUFFICES ASSUME TypeOK, ResultsAreAwaited, [Next]_vars PROVE ResultsAreAwaited'
    OBVIOUS
  <2>1. CASE Submit
    BY <2>1, SubmitAwaited
  <2>2. CASE Return
    BY <2>2, ReturnAwaited
  <2>3. CASE StrayIn
    <3>1. pendingResults' = pendingResults
      BY <2>3, NoneAwaited DEF StrayIn, PopResult
    <3> QED  BY <2>3, <3>1 DEF StrayIn, ResultsAreAwaited
  <2>4. CASE InjectIrq \/ ReturnFromInterrupt
    BY <2>4, InterruptAwaited
  <2>5. CASE EnableInterrupts
    BY <2>5, EnableAwaited
  <2>6. CASE RefuseNull
    BY <2>6 DEF RefuseNull, ResultsAreAwaited
  <2>7. CASE BadAccess
    BY <2>7 DEF BadAccess, ResultsAreAwaited
  <2>8. CASE UNCHANGED vars
    BY <2>8 DEF vars, ResultsAreAwaited
  <2> QED  BY <2>1, <2>2, <2>3, <2>4, <2>5, <2>6, <2>7, <2>8 DEF Next
<1> QED  BY <1>1, <1>2, PortTypeCorrect, PTL DEF Spec

(* A call of the library returns the result of its own request. *)
THEOREM CallsGetTheirOwn == Spec => []OwnResult
<1>1. Init => OwnResult
  BY DEF Init, OwnResult
<1>2. TypeOK /\ ResultsAreAwaited /\ OwnResult /\ [Next]_vars => OwnResult'
  <2> SUFFICES ASSUME TypeOK, ResultsAreAwaited, OwnResult, [Next]_vars PROVE OwnResult'
    OBVIOUS
  <2>1. CASE Return
    BY <2>1, LastIsOwn DEF Return, OwnResult
  <2>2. CASE StrayIn
    BY <2>2, NoneAwaited DEF StrayIn, OwnResult, LastResult
  <2>3. CASE RefuseNull
    BY <2>3 DEF RefuseNull, OwnResult
  <2>4. CASE UNCHANGED answer
    BY <2>4 DEF OwnResult
  <2> QED
    BY <2>1, <2>2, <2>3, <2>4
    DEF Next, vars, Submit, BadAccess, InjectIrq, EnableInterrupts, ReturnFromInterrupt
<1> QED  BY <1>1, <1>2, PortTypeCorrect, ResultsNest, PTL DEF Spec

(* Whatever addresses and counts a guest sends, the host stays inside      *)
(* guest memory.                                                           *)
THEOREM MemoryIsSafe == Spec => []InsideGuestMemory
<1> USE PortAssumption, MemoryAssumption
<1>1. Init => InsideGuestMemory
  BY DEF Init, InsideGuestMemory
<1>2. InsideGuestMemory /\ [Next]_vars => InsideGuestMemory'
  <2> SUFFICES ASSUME InsideGuestMemory, [Next]_vars PROVE InsideGuestMemory'
    OBVIOUS
  <2>1. CASE Submit
    <3>1. PICK request \in Requests, address \in Addresses, result \in Results :
            HandleOut(address, request, result)
      BY <2>1 DEF Submit
    <3>2. ASSUME NEW range \in touched' PROVE range[1] + range[2] <= MemSize
      <4>1. \/ range = <<address, RequestSize>> /\ getGuestMemory(address, RequestSize)
            \/ range \in UsedMemory(request)
        BY <3>1, <3>2 DEF HandleOut
      <4>2. address \in Nat /\ RequestSize \in Nat
        OBVIOUS
      <4>3. CASE range = <<address, RequestSize>> /\ getGuestMemory(address, RequestSize)
        <5>1. address + RequestSize <= MemSize
          BY <4>2, <4>3, RangeInside
        <5> QED  BY <4>3, <5>1
      <4> QED  BY <4>1, <4>3, RequestInside
    <3> QED  BY <3>2 DEF InsideGuestMemory
  <2>2. CASE touched' = {}
    BY <2>2 DEF InsideGuestMemory
  <2>3. CASE UNCHANGED vars
    BY <2>3 DEF vars, InsideGuestMemory
  <2> QED
    BY <2>1, <2>2, <2>3
    DEF Next, RefuseNull, Return, StrayIn, BadAccess, InjectIrq, EnableInterrupts,
        ReturnFromInterrupt
<1> QED  BY <1>1, <1>2, PTL DEF Spec
=============================================================================
