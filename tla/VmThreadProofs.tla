---------------------------- MODULE VmThreadProofs ----------------------------
(***************************************************************************)
(* Theorems about VmThread: for any number of VMs, whatever fails and      *)
(* however the threads interleave, nothing but the errors that are printed *)
(* without consoleMutex falls into a message, no output is lost and no     *)
(* descriptor or mapping is lost or closed twice.                          *)
(*                                                                         *)
(* The inductive invariant follows the control of a thread: todo[v] is one *)
(* of the lists in Plans, and what the thread holds and what is still in   *)
(* its line buffer depends on which.                                       *)
(***************************************************************************)
EXTENDS VmThread, SequenceTheorems, TLAPS

(* The lists of steps a thread can have ahead of it. *)
SetUpPlans == {SubSeq(SetUp, k, Len(SetUp)) : k \in 1..Len(SetUp)}
RunPlans == {<<>>, <<"reopen">>}
FlushPlans ==
    {<<"flush">>, InputSteps, <<"unlock">> \o LeaveFlushed("cerr"),
     <<"cerr">> \o LeaveFlushed("cerr"), <<"cerr">> \o (<<"unlock">> \o LeaveFlushed("cerr"))}
        \cup {LeaveFlushed(s) : s \in Streams}
LeavePlans ==
    {Leave(s) : s \in Streams} \cup {<<"vm_destroy", "return">>, <<"return">>, <<"ended">>}
Plans == SetUpPlans \cup RunPlans \cup {<<"input">>} \cup FlushPlans \cup LeavePlans

(* Where a message is under way; a flush has something to print. *)
MessageControl(v) ==
    writing[v] # None => /\ consoleMutex = v
                         /\ Has(v, "flush") \/ Has(v, "cout") \/ Has(v, "cerr")
                         /\ Has(v, "flush") => line[v] # <<>>

(* What falls into a message, and only while it is under way; a thread     *)
(* that has printed has next to print its own error, under the lock.       *)
IntruderControl(v) ==
    /\ intruders[v] # {} => writing[v] # None
    /\ \A w \in intruders[v] :
          w = Main \/ (w # v /\ todo[w] = Leave("cerr") /\ writing[w] = None)

(* What may be in the line buffer: a full line only until the flush that   *)
(* is ahead, anything at all only while the guest runs, until a flush, or  *)
(* when KVM failed.                                                        *)
EndsLine(v) == \E i \in 1..Len(line[v]) : line[v][i] = Newline
LineControl(v) ==
    /\ sent[v] = printed[v] \o line[v]
    /\ EndsLine(v) => todo[v] \in FlushPlans
    /\ line[v] # <<>> =>
          todo[v] \in FlushPlans \cup RunPlans \/ (abandoned[v] /\ todo[v] \in LeavePlans)

(* What the thread holds: only a copy on write has second descriptors, and *)
(* the fields and the files are gone when they are to be.                  *)
Holds(v) ==
    {<<f>> : f \in fields[v]} \cup HostDescriptors(v)
        \cup {Second(d) : d \in reopened[v]} \cup {r \in {<<"image">>} : Has(v, "read image")}
ResourceControl(v) ==
    /\ allocated[v] = Holds(v)
    /\ reopened[v] # {} => todo[v] = <<"reopen">>
    /\ reopened[v] \subseteq Shared(v)
    /\ todo[v] \in {<<"return">>, <<"ended">>} => fields[v] = {}
    /\ todo[v] = <<"ended">> => \A d \in Descriptors : ~IsOpen(v, d)

ResourceType ==
    /\ allocated \in [VMs -> SUBSET Resources]
    /\ fields \in [VMs -> SUBSET VmFields]
    /\ openFiles \in [VMs -> [Descriptors -> FileStates]]
    /\ copying \in [VMs -> SharedNames \cup {None}]
    /\ reopened \in [VMs -> SUBSET Descriptors]
    /\ stray \in BOOLEAN
ConsoleType ==
    /\ consoleMutex \in VMs \cup {None} /\ inputMutex \in VMs \cup {None}
    /\ writing \in [VMs -> Streams \cup {None}]
    /\ intruders \in [VMs -> SUBSET (VMs \cup {Main})]
    /\ line \in [VMs -> Seq(Characters)]
    /\ printed \in [VMs -> Seq(Characters)]
    /\ sent \in [VMs -> Seq(Characters)]
ThreadType ==
    /\ todo \in [VMs -> Plans]
    /\ exits \in [VMs -> Nat]
    /\ abandoned \in [VMs -> BOOLEAN]
ExitsBound(v) == exits[v] <= MaxExits[v] /\ Len(line[v]) <= exits[v]

(* The part that concerns types and the mutex, and all of it. *)
Typed ==
    /\ ResourceType /\ ConsoleType /\ ThreadType
    /\ \A v \in VMs : ExitsBound(v) /\ MessageControl(v)

IInv ==
    /\ Typed /\ ~stray
    /\ \A v \in VMs : IntruderControl(v) /\ LineControl(v) /\ ResourceControl(v)
---------------------------------------------------------------------------
(* Lists of steps.                                                         *)

(* What is left of a list after its first k - 1 steps. *)
LEMMA Suffix ==
    ASSUME NEW S, NEW s \in Seq(S), NEW k \in 1..Len(s)
    PROVE  /\ SubSeq(s, k, Len(s)) # <<>>
           /\ Head(SubSeq(s, k, Len(s))) = s[k]
           /\ Tail(SubSeq(s, k, Len(s))) = SubSeq(s, k + 1, Len(s))
           /\ k = Len(s) => Tail(SubSeq(s, k, Len(s))) = <<>>
<1> DEFINE t == SubSeq(s, k, Len(s))
           u == SubSeq(s, k + 1, Len(s))
<1>1. Len(s) \in Nat
  OBVIOUS
<1>2. t \in Seq(S) /\ Len(t) = Len(s) - k + 1 /\ \A i \in 1..Len(t) : t[i] = s[k + i - 1]
  BY <1>1, SubSeqProperties
<1>3. u \in Seq(S) /\ Len(u) = Len(s) - k /\ \A i \in 1..Len(u) : u[i] = s[k + i]
  BY <1>1, SubSeqProperties
<1> HIDE DEF t, u
<1>4. t # <<>> /\ Head(t) = s[k]
  BY <1>1, <1>2
<1>5. /\ Tail(t) \in Seq(S) /\ Len(Tail(t)) = Len(t) - 1
      /\ \A i \in 1..Len(Tail(t)) : Tail(t)[i] = t[i + 1]
  BY <1>2, <1>4, HeadTailProperties
<1>6. Tail(t) = u
  BY <1>1, <1>2, <1>3, <1>5, SeqEqual
<1>7. k = Len(s) => u = <<>>
  BY <1>3, EmptySeq
<1> QED  BY <1>4, <1>6, <1>7 DEF t, u

(* A list with one more step in front. *)
LEMMA Prepend ==
    ASSUME NEW S, NEW s \in Seq(S), NEW a \in S
    PROVE  /\ <<a>> \o s \in Seq(S) /\ <<a>> \o s # <<>>
           /\ Head(<<a>> \o s) = a /\ Tail(<<a>> \o s) = s
<1> DEFINE t == <<a>> \o s
<1>1. <<a>> \in Seq(S) /\ Len(<<a>>) = 1 /\ <<a>>[1] = a
  OBVIOUS
<1>2. /\ t \in Seq(S) /\ Len(t) = 1 + Len(s) /\ t[1] = a
      /\ \A i \in 1..Len(s) : t[i + 1] = s[i]
  BY <1>1, ConcatProperties
<1> HIDE DEF t
<1>3. t # <<>> /\ Head(t) = a
  BY <1>2
<1>4. /\ Tail(t) \in Seq(S) /\ Len(Tail(t)) = Len(t) - 1
      /\ \A i \in 1..Len(Tail(t)) : Tail(t)[i] = t[i + 1]
  BY <1>2, <1>3, HeadTailProperties
<1>5. Tail(t) = s
  BY <1>2, <1>4, SeqEqual
<1> QED  BY <1>2, <1>3, <1>5 DEF t

(* The set-up: no step of it is one of the later ones, and the image is    *)
(* read right after it is opened.                                          *)
LEMMA SetUpSequence ==
    /\ SetUp \in Seq(SetUpSteps) /\ Len(SetUp) = 13
    /\ \A k \in 1..13 : SetUp[k] \in SetUpSteps
<1>1. Len(SetUp) = 13 /\ \A k \in 1..13 : SetUp[k] \in SetUpSteps
  BY DEF SetUp, SetUpSteps
<1>2. SetUp = [k \in 1..13 |-> SetUp[k]]
  BY DEF SetUp
<1> QED  BY <1>1, <1>2

LEMMA SetUpNames ==
    /\ SetUp[1] = "kvm_fd" /\ SetUp[2] = "KVM_GET_API_VERSION" /\ SetUp[3] = "vm_fd"
    /\ SetUp[4] = "mem" /\ SetUp[5] = "KVM_SET_USER_MEMORY_REGION"
    /\ SetUp[6] = "vcpu_fd" /\ SetUp[7] = "KVM_GET_VCPU_MMAP_SIZE" /\ SetUp[8] = "run"
    /\ SetUp[9] = "KVM_GET_SREGS" /\ SetUp[10] = "KVM_SET_SREGS"
    /\ SetUp[11] = "open image" /\ SetUp[12] = "read image" /\ SetUp[13] = "KVM_SET_REGS"
  BY DEF SetUp

LEMMA SetUpApart ==
    \A s \in SetUpSteps : s \notin {"flush", "cout", "cerr", "input", "unlock", "reopen",
                                    "vm_destroy", "return", "ended"}
<1>1. \A k \in 1..13 : k \in {1, 2, 3, 4, 5, 6, 7, 8, 9, 10, 11, 12, 13}
  OBVIOUS
<1>2. \A k \in {1, 2, 3, 4, 5, 6, 7, 8, 9, 10, 11, 12, 13} :
        SetUp[k] \notin {"flush", "cout", "cerr", "input", "unlock", "reopen",
                         "vm_destroy", "return", "ended"}
  BY SetUpNames
<1> QED  BY <1>1, <1>2, SetUpSequence DEF SetUpSteps

LEMMA SetUpImage ==
    ASSUME NEW k \in 1..13
    PROVE  /\ k # 11 => SetUp[k] # "open image"
           /\ k # 12 => SetUp[k] # "read image"
<1>1. k \in {1, 2, 3, 4, 5, 6, 7, 8, 9, 10, 11, 12, 13}
  OBVIOUS
<1>2. \A j \in {1, 2, 3, 4, 5, 6, 7, 8, 9, 10, 12, 13} : SetUp[j] # "open image"
  BY SetUpNames
<1>3. \A j \in {1, 2, 3, 4, 5, 6, 7, 8, 9, 10, 11, 13} : SetUp[j] # "read image"
  BY SetUpNames
<1> QED  BY <1>1, <1>2, <1>3

(* The steps on the way out. *)
Steps == {"flush", "cout", "cerr", "unlock", "vm_destroy", "return"}

LEMMA LeaveFacts ==
    ASSUME NEW m \in Streams
    PROVE  /\ Leave(m) \in Seq(Steps) /\ Leave(m) # <<>> /\ Head(Leave(m)) = m
           /\ Tail(Leave(m)) = <<"vm_destroy", "return">>
           /\ LeaveFlushed(m) \in Seq(Steps) /\ LeaveFlushed(m) # <<>>
           /\ Head(LeaveFlushed(m)) = "flush" /\ Tail(LeaveFlushed(m)) = Leave(m)
<1>1. /\ Leave(m) \in Seq(Steps) /\ Leave(m) # <<>> /\ Head(Leave(m)) = m
      /\ Tail(Leave(m)) = <<"vm_destroy", "return">>
  BY DEF Leave, Steps, Streams
<1>2. "flush" \in Steps
  BY DEF Steps
<1> QED  BY <1>1, <1>2, Prepend DEF LeaveFlushed

(* What is left of each list after its first step. *)
LEMMA SetUpStep ==
    ASSUME NEW p \in SetUpPlans
    PROVE  /\ p # <<>> /\ Head(p) \in SetUpSteps
           /\ Tail(p) \in SetUpPlans \cup {<<>>}
           /\ (Tail(p) # <<>> /\ Head(Tail(p)) = "read image") <=> Head(p) = "open image"
<1>0. ASSUME NEW j \in 1..13
      PROVE  /\ SubSeq(SetUp, j, 13) # <<>> /\ Head(SubSeq(SetUp, j, 13)) = SetUp[j]
             /\ Tail(SubSeq(SetUp, j, 13)) = SubSeq(SetUp, j + 1, 13)
             /\ j = 13 => Tail(SubSeq(SetUp, j, 13)) = <<>>
             /\ SubSeq(SetUp, j, 13) \in SetUpPlans
  <2>1. SetUp \in Seq(SetUpSteps) /\ Len(SetUp) = 13
    BY SetUpSequence
  <2>2. /\ SubSeq(SetUp, j, Len(SetUp)) # <<>> /\ Head(SubSeq(SetUp, j, Len(SetUp))) = SetUp[j]
        /\ Tail(SubSeq(SetUp, j, Len(SetUp))) = SubSeq(SetUp, j + 1, Len(SetUp))
        /\ j = Len(SetUp) => Tail(SubSeq(SetUp, j, Len(SetUp))) = <<>>
    BY <2>1, Suffix
  <2>3. SubSeq(SetUp, j, 13) \in SetUpPlans
    BY <2>1 DEF SetUpPlans
  <2> QED  BY <2>1, <2>2, <2>3
<1>1. PICK k \in 1..13 : p = SubSeq(SetUp, k, 13)
  BY SetUpSequence DEF SetUpPlans
<1>2. p # <<>> /\ Head(p) = SetUp[k] /\ Tail(p) = SubSeq(SetUp, k + 1, 13)
  BY <1>0, <1>1
<1>3. SetUp[k] \in SetUpSteps
  BY SetUpSequence
<1>4. CASE k = 13
  <2>1. Tail(p) = <<>>
    BY <1>0, <1>1, <1>4
  <2>2. SetUp[13] # "open image"
    BY SetUpNames
  <2> QED  BY <1>2, <1>3, <1>4, <2>1, <2>2
<1>5. CASE k # 13
  <2>1. k + 1 \in 1..13
    BY <1>5
  <2>2. Tail(p) \in SetUpPlans
    BY <1>0, <1>2, <2>1
  <2>3. Tail(p) # <<>> /\ Head(Tail(p)) = SetUp[k + 1]
    BY <1>0, <1>2, <2>1
  <2>4. SetUp[k + 1] = "read image" <=> SetUp[k] = "open image"
    <3>1. CASE k = 11
      <4>1. k = 11 /\ k + 1 = 12
        BY <3>1
      <4> QED  BY <4>1, SetUpNames
    <3>2. CASE k # 11
      <4>1. k + 1 # 12
        BY <3>2
      <4>2. SetUp[k] # "open image" /\ SetUp[k + 1] # "read image"
        BY <2>1, <3>2, <4>1, SetUpImage
      <4> QED  BY <4>2
    <3> QED  BY <3>1, <3>2
  <2> QED  BY <1>2, <1>3, <2>2, <2>3, <2>4
<1> QED  BY <1>4, <1>5

LEMMA FlushStep ==
    ASSUME NEW p \in FlushPlans
    PROVE  /\ p # <<>>
           /\ \/ /\ Head(p) = "flush"
                 /\ Tail(p) \in {<<>>, <<"input">>} \cup {Leave(s) : s \in Streams}
              \/ Head(p) \in {"cerr", "unlock"} /\ Tail(p) \in FlushPlans
<1>1. "cerr" \in Steps /\ "unlock" \in Steps /\ "cerr" \in Streams
  BY DEF Steps, Streams
<1>2. CASE p = <<"flush">>
  BY <1>2
<1>3. CASE p = InputSteps
  BY <1>3 DEF InputSteps
<1>4. CASE p = <<"unlock">> \o LeaveFlushed("cerr")
  <2>1. p # <<>> /\ Head(p) = "unlock" /\ Tail(p) = LeaveFlushed("cerr")
    BY <1>1, <1>4, LeaveFacts, Prepend
  <2> QED  BY <2>1 DEF FlushPlans, Streams
<1>5. CASE p = <<"cerr">> \o LeaveFlushed("cerr")
  <2>1. p # <<>> /\ Head(p) = "cerr" /\ Tail(p) = LeaveFlushed("cerr")
    BY <1>1, <1>5, LeaveFacts, Prepend
  <2> QED  BY <2>1 DEF FlushPlans, Streams
<1>6. CASE p = <<"cerr">> \o (<<"unlock">> \o LeaveFlushed("cerr"))
  <2>1. <<"unlock">> \o LeaveFlushed("cerr") \in Seq(Steps)
    BY <1>1, LeaveFacts, Prepend
  <2>2. p # <<>> /\ Head(p) = "cerr" /\ Tail(p) = <<"unlock">> \o LeaveFlushed("cerr")
    BY <1>1, <1>6, <2>1, Prepend
  <2> QED  BY <2>2 DEF FlushPlans
<1>7. ASSUME NEW s \in Streams, p = LeaveFlushed(s)
      PROVE  p # <<>> /\ Head(p) = "flush" /\ Tail(p) = Leave(s)
  BY <1>1, <1>7, LeaveFacts
<1> QED  BY <1>2, <1>3, <1>4, <1>5, <1>6, <1>7 DEF FlushPlans

LEMMA LeaveStep ==
    ASSUME NEW p \in LeavePlans
    PROVE  /\ p # <<>>
           /\ \/ Head(p) \in Streams /\ Tail(p) = <<"vm_destroy", "return">>
              \/ Head(p) = "vm_destroy" /\ Tail(p) = <<"return">>
              \/ Head(p) = "return" /\ p = <<"return">>
              \/ Head(p) = "ended" /\ p = <<"ended">>
<1>1. ASSUME NEW s \in Streams, p = Leave(s)
      PROVE  p # <<>> /\ Head(p) \in Streams /\ Tail(p) = <<"vm_destroy", "return">>
  BY <1>1, LeaveFacts
<1>2. CASE p = <<"vm_destroy", "return">>
  BY <1>2
<1>3. CASE p = <<"return">>
  BY <1>3
<1>4. CASE p = <<"ended">>
  BY <1>4
<1> QED  BY <1>1, <1>2, <1>3, <1>4 DEF LeavePlans

LEMMA RunStep ==
    /\ <<"reopen">> # <<>> /\ Head(<<"reopen">>) = "reopen" /\ Tail(<<"reopen">>) = <<>>
    /\ <<"input">> # <<>> /\ Head(<<"input">>) = "input" /\ Tail(<<"input">>) = <<>>
  OBVIOUS

(* The first step of a list tells which list it is, and what is left.      *)
LEMMA FirstStep ==
    ASSUME NEW p \in Plans, p # <<>>
    PROVE  /\ Head(p) \in SetUpSteps => p \in SetUpPlans
           /\ Head(p) = "flush" =>
                p \in FlushPlans
                /\ Tail(p) \in {<<>>, <<"input">>} \cup {Leave(s) : s \in Streams}
           /\ Head(p) = "unlock" => p \in FlushPlans /\ Tail(p) \in FlushPlans
           /\ Head(p) \in Streams =>
                \/ p \in FlushPlans /\ Tail(p) \in FlushPlans
                \/ p \in LeavePlans /\ Tail(p) = <<"vm_destroy", "return">>
           /\ Head(p) = "vm_destroy" => p \in LeavePlans /\ Tail(p) = <<"return">>
           /\ Head(p) = "return" => p = <<"return">>
           /\ Head(p) = "input" => p = <<"input">> /\ Tail(p) = <<>>
           /\ Head(p) = "reopen" => p = <<"reopen">> /\ Tail(p) = <<>>
<1> USE DEF Streams
<1>1. CASE p \in SetUpPlans
  BY <1>1, SetUpStep, SetUpApart
<1>2. CASE p \in FlushPlans
  BY <1>2, FlushStep, SetUpApart
<1>3. CASE p \in LeavePlans
  BY <1>3, LeaveStep, SetUpApart
<1>4. CASE p \in {<<"reopen">>, <<"input">>}
  BY <1>4, RunStep, SetUpApart
<1> QED  BY <1>1, <1>2, <1>3, <1>4 DEF Plans, RunPlans

(* The kinds of lists have nothing in common. *)
LEMMA Kinds ==
    /\ \A p \in FlushPlans \cup LeavePlans \cup RunPlans \cup {<<"input">>} :
          p \notin SetUpPlans /\ ~(p # <<>> /\ Head(p) = "read image")
    /\ \A p \in FlushPlans : p \notin LeavePlans \cup RunPlans \cup {<<"input">>}
    /\ \A p \in LeavePlans : p \notin RunPlans \cup {<<"input">>}
    /\ <<"input">> \notin RunPlans
<1>1. "read image" \in SetUpSteps
  <2>1. 12 \in 1..13
    OBVIOUS
  <2>2. SetUp[12] \in SetUpSteps
    BY <2>1, SetUpSequence
  <2> QED  BY <2>2, SetUpNames
<1>2. \A p \in LeavePlans : p # <<>> /\ Head(p) \in {"cout", "cerr", "vm_destroy", "return", "ended"}
                            /\ (Head(p) = "cerr" => Tail(p) = <<"vm_destroy", "return">>)
  BY LeaveStep DEF Streams
<1>3. \A p \in FlushPlans : /\ p # <<>> /\ Head(p) \in {"flush", "cerr", "unlock"}
                            /\ Head(p) = "cerr" => Tail(p) \in FlushPlans
  BY FlushStep
<1>4. <<"vm_destroy", "return">> # <<>> /\ Head(<<"vm_destroy", "return">>) = "vm_destroy"
  OBVIOUS
<1>5. <<"vm_destroy", "return">> \notin FlushPlans
  BY <1>3, <1>4
<1>6. \A p \in FlushPlans : p \notin LeavePlans
  BY <1>2, <1>3, <1>5
<1>7. \A p \in FlushPlans \cup LeavePlans : p \notin RunPlans \cup {<<"input">>}
  BY <1>2, <1>3, RunStep DEF RunPlans
<1>8. \A p \in FlushPlans \cup LeavePlans \cup RunPlans \cup {<<"input">>} :
          p \notin SetUpPlans /\ ~(p # <<>> /\ Head(p) = "read image")
  BY <1>1, <1>2, <1>3, RunStep, SetUpStep, SetUpApart DEF RunPlans
<1> QED  BY <1>6, <1>7, <1>8, RunStep DEF RunPlans

(* The ends of a run, as the actions write them. *)
LEMMA EndPlans ==
    /\ <<>> \in Plans /\ <<"flush">> \in FlushPlans /\ InputSteps \in FlushPlans
    /\ SetUp \in SetUpPlans
    /\ <<"cerr", "unlock">> \o LeaveFlushed("cerr") \in FlushPlans
    /\ \A s \in Streams : LeaveFlushed(s) \in FlushPlans /\ Leave(s) \in LeavePlans
    /\ \A m \in {<<>>, <<"cerr">>} : m \o LeaveFlushed("cerr") \in FlushPlans
<1> DEFINE l == LeaveFlushed("cerr")
<1>1. l \in Seq(Steps) /\ "cerr" \in Steps /\ "unlock" \in Steps /\ "cerr" \in Streams
  BY LeaveFacts DEF Steps, Streams
<1>2. \A s \in Streams : LeaveFlushed(s) \in FlushPlans /\ Leave(s) \in LeavePlans
  BY DEF FlushPlans, LeavePlans
<1> HIDE DEF l
<1>3. <<"cerr", "unlock">> \o l = <<"cerr">> \o (<<"unlock">> \o l)
  <2>1. <<"cerr">> \in Seq(Steps) /\ <<"unlock">> \in Seq(Steps)
    BY <1>1
  <2>2. <<"cerr">> \o <<"unlock">> = <<"cerr", "unlock">>
    <3>1. /\ Len(<<"cerr">> \o <<"unlock">>) = 2
          /\ (<<"cerr">> \o <<"unlock">>)[1] = "cerr"
          /\ (<<"cerr">> \o <<"unlock">>)[2] = "unlock"
          /\ <<"cerr">> \o <<"unlock">> \in Seq(Steps)
      BY <2>1, ConcatProperties
    <3>2. <<"cerr", "unlock">> \in Seq(Steps)
      BY <1>1
    <3>3. ASSUME NEW i \in 1..2
          PROVE  (<<"cerr">> \o <<"unlock">>)[i] = <<"cerr", "unlock">>[i]
      <4>1. i = 1 \/ i = 2
        OBVIOUS
      <4> QED  BY <3>1, <4>1
    <3> QED  BY <3>1, <3>2, <3>3, SeqEqual
  <2>3. (<<"cerr">> \o <<"unlock">>) \o l = <<"cerr">> \o (<<"unlock">> \o l)
    BY <1>1, <2>1, ConcatAssociative
  <2> QED  BY <2>2, <2>3
<1>4. <<>> \o l = l
  BY <1>1, ConcatEmptySeq
<1>5. SetUp \in SetUpPlans
  <2>1. SubSeq(SetUp, 1, Len(SetUp)) = SetUp
    BY SetUpSequence, SubSeqFull
  <2> QED  BY <2>1, SetUpSequence DEF SetUpPlans
<1> QED  BY <1>1, <1>2, <1>3, <1>4, <1>5 DEF FlushPlans, Plans, RunPlans, l
---------------------------------------------------------------------------
(* Types, control and the mutex.                                           *)
(* Every operation on the resources of one VM keeps their types ...        *)
LEMMA ResourceStep ==
    ASSUME ResourceType, NEW v \in VMs,
           \/ UNCHANGED resourceVars
           \/ \E f \in VmFields : AcquireField(v, f)
           \/ OpenImage(v) \/ CloseImage(v) \/ DestroyVm(v)
           \/ \E d \in Descriptors, s \in {"local"} \cup SharedNames : OpenHostFile(v, d, s)
           \/ \E d \in Descriptors : CloseHostFile(v, d)
           \/ \E d \in Shared(v) : BeginCopy(v, d)
           \/ \E d \in Shared(v) : ReopenOne(v, d)
           \/ CloseReopenedFiles(v) \/ AdoptReopenedFiles(v) \/ CloseGuestFiles(v)
    PROVE  /\ ResourceType'
           /\ \A w \in VMs \ {v} : /\ allocated'[w] = allocated[w] /\ fields'[w] = fields[w]
                                   /\ openFiles'[w] = openFiles[w]
                                   /\ reopened'[w] = reopened[w]
<1> USE DEF ResourceType
<1>1. CASE UNCHANGED resourceVars
  BY <1>1 DEF resourceVars
<1>2. ASSUME NEW f \in VmFields, AcquireField(v, f)
      PROVE  /\ ResourceType'
             /\ \A w \in VMs \ {v} : /\ allocated'[w] = allocated[w] /\ fields'[w] = fields[w]
                                     /\ openFiles'[w] = openFiles[w]
                                     /\ reopened'[w] = reopened[w]
  BY <1>2 DEF AcquireField, Allocate, Resources
<1>3. CASE OpenImage(v)
  BY <1>3 DEF OpenImage, Allocate, Resources
<1>4. CASE CloseImage(v)
  BY <1>4 DEF CloseImage, Release
<1>5. CASE DestroyVm(v)
  BY <1>5 DEF DestroyVm, Release
<1>6. ASSUME NEW d \in Descriptors, NEW s \in {"local"} \cup SharedNames, OpenHostFile(v, d, s)
      PROVE  /\ ResourceType'
             /\ \A w \in VMs \ {v} : /\ allocated'[w] = allocated[w] /\ fields'[w] = fields[w]
                                     /\ openFiles'[w] = openFiles[w]
                                     /\ reopened'[w] = reopened[w]
  <2>1. First(d) \in Resources
    BY DEF Resources
  <2>2. allocated' = [allocated EXCEPT ![v] = @ \cup {First(d)}]
    BY <1>6 DEF OpenHostFile, Allocate
  <2> QED  BY <1>6, <2>1, <2>2 DEF OpenHostFile, FileStates
<1>7. ASSUME NEW d \in Descriptors, CloseHostFile(v, d)
      PROVE  /\ ResourceType'
             /\ \A w \in VMs \ {v} : /\ allocated'[w] = allocated[w] /\ fields'[w] = fields[w]
                                     /\ openFiles'[w] = openFiles[w]
                                     /\ reopened'[w] = reopened[w]
  BY <1>7 DEF CloseHostFile, Release, FileStates
<1>8. ASSUME NEW d \in Shared(v), ReopenOne(v, d)
      PROVE  /\ ResourceType'
             /\ \A w \in VMs \ {v} : /\ allocated'[w] = allocated[w] /\ fields'[w] = fields[w]
                                     /\ openFiles'[w] = openFiles[w]
                                     /\ reopened'[w] = reopened[w]
  <2>1. d \in Descriptors /\ Second(d) \in Resources
    BY DEF Resources, Shared
  <2>2. allocated' = [allocated EXCEPT ![v] = @ \cup {Second(d)}]
    BY <1>8 DEF ReopenOne, Allocate
  <2> QED  BY <1>8, <2>1, <2>2 DEF ReopenOne
<1>9. CASE CloseReopenedFiles(v)
  BY <1>9 DEF CloseReopenedFiles, Release
<1>10. CASE AdoptReopenedFiles(v)
  <2>1. [d \in Descriptors |-> IF d \in reopened[v] THEN "copied" ELSE openFiles[v][d]]
          \in [Descriptors -> FileStates]
    BY DEF FileStates
  <2>2. /\ openFiles' = [openFiles EXCEPT ![v] =
              [d \in Descriptors |-> IF d \in reopened[v] THEN "copied" ELSE openFiles[v][d]]]
        /\ allocated' = [allocated EXCEPT ![v] = @ \ {First(d) : d \in reopened[v]}]
        /\ stray' \in BOOLEAN /\ fields' = fields
        /\ reopened' = [reopened EXCEPT ![v] = {}]
        /\ copying' = [copying EXCEPT ![v] = None]
    BY <1>10 DEF AdoptReopenedFiles, Release
  <2> QED  BY <2>1, <2>2
<1>11. CASE CloseGuestFiles(v)
  <2>1. [d \in Descriptors |-> "closed"] \in [Descriptors -> FileStates]
    BY DEF FileStates
  <2> QED  BY <1>11, <2>1 DEF CloseGuestFiles, Release
<1>12. CASE \E d \in Shared(v) : BeginCopy(v, d)
  BY <1>12 DEF BeginCopy, Shared
<1> QED
  BY <1>1, <1>2, <1>3, <1>4, <1>5, <1>6, <1>7, <1>8, <1>9, <1>10, <1>11, <1>12

(* A step of one thread. *)
Step(v) == HostStep(v) \/ GuestExit(v) \/ InputArrives(v) \/ InputFails(v)

(* ... so every step of its thread does. *)
LEMMA StepResources ==
    ASSUME ResourceType, NEW v \in VMs, Step(v)
    PROVE  /\ ResourceType'
           /\ \A w \in VMs \ {v} : /\ allocated'[w] = allocated[w] /\ fields'[w] = fields[w]
                                   /\ openFiles'[w] = openFiles[w]
                                   /\ reopened'[w] = reopened[w]
<1>1. CASE SetUpSucceeds(v) \/ SetUpFails(v)
  <2>1. \/ UNCHANGED resourceVars \/ OpenImage(v) \/ CloseImage(v)
        \/ \E f \in VmFields : AcquireField(v, f)
    BY <1>1 DEF SetUpSucceeds, SetUpFails
  <2> QED  BY <2>1, ResourceStep
<1>2. CASE VmDestroy(v) \/ RunGuestReturns(v)
  BY <1>2, ResourceStep DEF VmDestroy, RunGuestReturns
<1>3. CASE OpenFile(v) \/ CloseFile(v)
  BY <1>3, ResourceStep DEF OpenFile, CloseFile
<1>4. CASE Reopen(v)
  <2>1. \/ CloseReopenedFiles(v) \/ AdoptReopenedFiles(v)
        \/ \E d \in Shared(v) : ReopenOne(v, d)
    BY <1>4 DEF Reopen, Copied
  <2> QED  BY <2>1, ResourceStep
<1>5. CASE \/ StartMessage(v) \/ FinishMessage(v) \/ FlushNothing(v)
           \/ WaitForInput(v) \/ Unlock(v) \/ SerialOut(v) \/ SerialIn(v)
           \/ InputArrives(v) \/ InputFails(v)
  <2>1. UNCHANGED resourceVars
    BY <1>5 DEF StartMessage, FinishMessage, FlushNothing, WaitForInput, Unlock, SerialOut,
       SerialIn, InputArrives, InputFails
  <2> QED  BY <2>1, ResourceStep
<1>6. CASE Halts(v) \/ AccessRefused(v) \/ KvmFails(v)
  <2>1. UNCHANGED resourceVars
    BY <1>6 DEF Halts, AccessRefused, KvmFails, Stop
  <2> QED  BY <2>1, ResourceStep
<1>7. CASE WriteShared(v)
  BY <1>7, ResourceStep DEF WriteShared
<1> QED  BY <1>1, <1>2, <1>3, <1>4, <1>5, <1>6, <1>7 DEF Step, HostStep, GuestExit

(* The moves of a thread's control: what it was about to do and what it is *)
(* about to do after the step.                                             *)
LEMMA Moves ==
    ASSUME ThreadType, \A u \in VMs : MessageControl(u), NEW v \in VMs, Step(v)
    PROVE  /\ todo' = [todo EXCEPT ![v] = todo'[v]]
           /\ \/ /\ SetUpSucceeds(v) /\ todo[v] \in SetUpPlans
                 /\ todo'[v] = Tail(todo[v])
              \/ SetUpFails(v) /\ todo[v] \in SetUpPlans /\ todo'[v] = Leave("cerr")
              \/ /\ StartMessage(v) /\ todo'[v] = todo[v]
                 /\ Has(v, "flush") \/ Has(v, "cout") \/ Has(v, "cerr")
              \/ /\ FinishMessage(v) /\ Has(v, "flush") /\ EndFlush(v)
                 /\ todo[v] \in FlushPlans
                 /\ todo'[v] \in {<<>>, <<"input">>} \cup {Leave(s) : s \in Streams}
              \/ /\ FinishMessage(v) /\ EndMessage(v)
                 /\ \/ todo[v] \in FlushPlans /\ todo'[v] \in FlushPlans
                    \/ todo[v] \in LeavePlans /\ todo'[v] = <<"vm_destroy", "return">>
              \/ /\ FlushNothing(v) /\ todo[v] \in FlushPlans
                 /\ todo'[v] \in {<<>>, <<"input">>} \cup {Leave(s) : s \in Streams}
              \/ VmDestroy(v) /\ todo[v] \in LeavePlans /\ todo'[v] = <<"return">>
              \/ RunGuestReturns(v) /\ todo[v] = <<"return">> /\ todo'[v] = <<"ended">>
              \/ WaitForInput(v) /\ todo[v] = <<"input">> /\ todo'[v] = <<"input">>
              \/ Unlock(v) /\ todo[v] \in FlushPlans /\ todo'[v] \in FlushPlans
              \/ /\ Reopen(v) /\ todo[v] = <<"reopen">>
                 /\ todo'[v] \in {<<>>, <<"reopen">>}
              \/ SerialOut(v) /\ todo[v] = <<>> /\ todo'[v] \in {<<>>, <<"flush">>}
              \/ SerialIn(v) /\ todo[v] = <<>> /\ todo'[v] = InputSteps
              \/ OpenFile(v) /\ todo[v] = <<>> /\ todo'[v] = <<>>
              \/ CloseFile(v) /\ todo[v] = <<>> /\ todo'[v] = <<>>
              \/ WriteShared(v) /\ todo[v] = <<>> /\ todo'[v] = <<"reopen">>
              \/ (Halts(v) \/ AccessRefused(v)) /\ todo[v] = <<>> /\ todo'[v] \in FlushPlans
              \/ KvmFails(v) /\ todo[v] = <<>> /\ todo'[v] = Leave("cerr")
              \/ InputArrives(v) /\ todo[v] = <<"input">> /\ todo'[v] = <<>>
              \/ InputFails(v) /\ todo[v] = <<"input">> /\ todo'[v] \in FlushPlans
<1>0. todo[v] \in Plans /\ todo \in [VMs -> Plans]
  BY DEF ThreadType
<1>1. ASSUME NEW steps, Ahead(v, steps)
      PROVE  todo'[v] = steps /\ todo' = [todo EXCEPT ![v] = todo'[v]]
  BY <1>0, <1>1 DEF Ahead
<1>2. CASE SetUpSucceeds(v)
  <2>1. todo[v] # <<>> /\ Head(todo[v]) \in SetUpSteps /\ Ahead(v, Tail(todo[v]))
    BY <1>2 DEF SetUpSucceeds, Advance
  <2>2. todo[v] \in SetUpPlans
    BY <1>0, <2>1, FirstStep
  <2> QED  BY <1>1, <1>2, <2>1, <2>2
<1>3. CASE SetUpFails(v)
  <2>1. todo[v] # <<>> /\ Head(todo[v]) \in SetUpSteps /\ Ahead(v, Leave("cerr"))
    BY <1>3 DEF SetUpFails
  <2>2. todo[v] \in SetUpPlans
    BY <1>0, <2>1, FirstStep
  <2> QED  BY <1>1, <1>3, <2>1, <2>2
<1>4. CASE StartMessage(v)
  <2>1. todo' = todo /\ (Has(v, "flush") \/ Has(v, "cout") \/ Has(v, "cerr"))
    BY <1>4 DEF StartMessage, Streams
  <2> QED  BY <1>0, <1>4, <2>1
<1>5. CASE FinishMessage(v) /\ Has(v, "flush")
  <2>1. todo[v] # <<>> /\ Head(todo[v]) = "flush" /\ Ahead(v, Tail(todo[v])) /\ EndFlush(v)
    BY <1>5 DEF FinishMessage, Advance, Has
  <2>2. todo[v] \in FlushPlans
        /\ Tail(todo[v]) \in {<<>>, <<"input">>} \cup {Leave(s) : s \in Streams}
    BY <1>0, <2>1, FirstStep
  <2>3. todo'[v] = Tail(todo[v]) /\ todo' = [todo EXCEPT ![v] = todo'[v]]
    BY <1>1, <2>1
  <2>4. todo'[v] \in {<<>>, <<"input">>} \cup {Leave(s) : s \in Streams}
    BY <2>2, <2>3
  <2> QED  BY <1>5, <2>1, <2>2, <2>3, <2>4, Zenon
<1>6. CASE FinishMessage(v) /\ ~Has(v, "flush")
  <2>1. Ahead(v, Tail(todo[v])) /\ EndMessage(v) /\ writing[v] # None
    BY <1>6 DEF FinishMessage, Advance
  <2>2. Has(v, "cout") \/ Has(v, "cerr")
    BY <1>6, <2>1 DEF MessageControl
  <2>3. todo[v] # <<>> /\ Head(todo[v]) \in Streams
    BY <2>2 DEF Has, Streams
  <2>4. \/ todo[v] \in FlushPlans /\ Tail(todo[v]) \in FlushPlans
        \/ todo[v] \in LeavePlans /\ Tail(todo[v]) = <<"vm_destroy", "return">>
    BY <1>0, <2>3, FirstStep
  <2>5. todo'[v] = Tail(todo[v]) /\ todo' = [todo EXCEPT ![v] = todo'[v]]
    BY <1>1, <2>1
  <2>6. \/ todo[v] \in FlushPlans /\ todo'[v] \in FlushPlans
        \/ todo[v] \in LeavePlans /\ todo'[v] = <<"vm_destroy", "return">>
    BY <2>4, <2>5
  <2> QED  BY <1>6, <2>1, <2>5, <2>6, Zenon
<1>7. CASE FlushNothing(v)
  <2>1. todo[v] # <<>> /\ Head(todo[v]) = "flush" /\ Ahead(v, Tail(todo[v]))
    BY <1>7 DEF FlushNothing, Advance, Has
  <2>2. todo[v] \in FlushPlans
        /\ Tail(todo[v]) \in {<<>>, <<"input">>} \cup {Leave(s) : s \in Streams}
    BY <1>0, <2>1, FirstStep
  <2>3. todo'[v] = Tail(todo[v]) /\ todo' = [todo EXCEPT ![v] = todo'[v]]
    BY <1>1, <2>1
  <2>4. todo'[v] \in {<<>>, <<"input">>} \cup {Leave(s) : s \in Streams}
    BY <2>2, <2>3
  <2> QED  BY <1>7, <2>2, <2>3, <2>4, Zenon
<1>8. CASE VmDestroy(v)
  <2>1. todo[v] # <<>> /\ Head(todo[v]) = "vm_destroy" /\ Ahead(v, Tail(todo[v]))
    BY <1>8 DEF VmDestroy, Advance, Has
  <2>2. todo[v] \in LeavePlans /\ Tail(todo[v]) = <<"return">>
    BY <1>0, <2>1, FirstStep
  <2> QED  BY <1>1, <1>8, <2>1, <2>2
<1>9. CASE RunGuestReturns(v)
  <2>1. todo[v] # <<>> /\ Head(todo[v]) = "return" /\ Ahead(v, <<"ended">>)
    BY <1>9 DEF RunGuestReturns, Has
  <2>2. todo[v] = <<"return">>
    BY <1>0, <2>1, FirstStep
  <2> QED  BY <1>1, <1>9, <2>1, <2>2
<1>10. CASE WaitForInput(v)
  <2>1. todo[v] # <<>> /\ Head(todo[v]) = "input" /\ todo' = todo
    BY <1>10 DEF WaitForInput, Has
  <2>2. todo[v] = <<"input">>
    BY <1>0, <2>1, FirstStep
  <2> QED  BY <1>0, <1>10, <2>1, <2>2
<1>11. CASE Unlock(v)
  <2>1. todo[v] # <<>> /\ Head(todo[v]) = "unlock" /\ Ahead(v, Tail(todo[v]))
    BY <1>11 DEF Unlock, Advance, Has
  <2>2. todo[v] \in FlushPlans /\ Tail(todo[v]) \in FlushPlans
    BY <1>0, <2>1, FirstStep
  <2> QED  BY <1>1, <1>11, <2>1, <2>2
<1>12. CASE Reopen(v)
  <2>1. /\ todo[v] # <<>> /\ Head(todo[v]) = "reopen"
        /\ todo' = todo \/ Ahead(v, Tail(todo[v]))
    BY <1>12 DEF Reopen, Copying, Advance, Has
  <2>2. todo[v] = <<"reopen">> /\ Tail(todo[v]) = <<>>
    BY <1>0, <2>1, FirstStep
  <2> QED  BY <1>0, <1>1, <1>12, <2>1, <2>2
<1>13. CASE SerialOut(v)
  <2>1. todo[v] = <<>> /\ \E steps \in {<<>>, <<"flush">>} : Ahead(v, steps)
    BY <1>13 DEF SerialOut, Exit
  <2> QED  BY <1>1, <1>13, <2>1
<1>14. CASE SerialIn(v)
  <2>1. todo[v] = <<>> /\ Ahead(v, InputSteps)
    BY <1>14 DEF SerialIn, Exit
  <2> QED  BY <1>1, <1>14, <2>1
<1>15. CASE OpenFile(v) \/ CloseFile(v)
  <2>1. todo[v] = <<>> /\ todo' = todo
    BY <1>15 DEF OpenFile, CloseFile, Exit
  <2> QED  BY <1>0, <1>15, <2>1
<1>16. CASE WriteShared(v)
  <2>1. todo[v] = <<>> /\ Ahead(v, <<"reopen">>)
    BY <1>16 DEF WriteShared, Exit
  <2> QED  BY <1>1, <1>16, <2>1
<1>17. CASE Halts(v)
  <2>1. PICK s \in Streams : todo[v] = <<>> /\ Ahead(v, LeaveFlushed(s))
    BY <1>17 DEF Halts, Stop
  <2>2. LeaveFlushed(s) \in FlushPlans
    BY EndPlans
  <2> QED  BY <1>1, <1>17, <2>1, <2>2
<1>18. CASE AccessRefused(v)
  <2>1. PICK m \in {<<>>, <<"cerr">>} : todo[v] = <<>> /\ Ahead(v, m \o LeaveFlushed("cerr"))
    BY <1>18 DEF AccessRefused, Stop
  <2>2. m \o LeaveFlushed("cerr") \in FlushPlans
    BY EndPlans
  <2> QED  BY <1>1, <1>18, <2>1, <2>2
<1>19. CASE KvmFails(v)
  <2>1. todo[v] = <<>> /\ Ahead(v, Leave("cerr"))
    BY <1>19 DEF KvmFails, Stop
  <2> QED  BY <1>1, <1>19, <2>1
<1>20. CASE InputArrives(v)
  <2>1. todo[v] # <<>> /\ Head(todo[v]) = "input" /\ Ahead(v, Tail(todo[v]))
    BY <1>20 DEF InputArrives, Advance, Has
  <2>2. todo[v] = <<"input">> /\ Tail(todo[v]) = <<>>
    BY <1>0, <2>1, FirstStep
  <2> QED  BY <1>1, <1>20, <2>1, <2>2
<1>21. CASE InputFails(v)
  <2>1. /\ todo[v] # <<>> /\ Head(todo[v]) = "input"
        /\ Ahead(v, <<"cerr", "unlock">> \o LeaveFlushed("cerr"))
    BY <1>21 DEF InputFails, Has
  <2>2. todo[v] = <<"input">> /\ <<"cerr", "unlock">> \o LeaveFlushed("cerr") \in FlushPlans
    BY <1>0, <2>1, FirstStep, EndPlans
  <2> QED  BY <1>1, <1>21, <2>1, <2>2
<1> QED
  BY <1>2, <1>3, <1>4, <1>5, <1>6, <1>7, <1>8, <1>9, <1>10, <1>11, <1>12, <1>13, <1>14,
     <1>15, <1>16, <1>17, <1>18, <1>19, <1>20, <1>21 DEF Step, HostStep, GuestExit

(* What is printed falls into messages of VMs only. *)
LEMMA FallIntoType ==
    ASSUME ConsoleType, NEW who \in VMs \cup {Main}
    PROVE  FallInto(who) \in [VMs -> SUBSET (VMs \cup {Main})]
  BY DEF ConsoleType, FallInto

(* Every operation on the console keeps its types and concerns one VM. *)
LEMMA ConsoleStep ==
    ASSUME ConsoleType, NEW v \in VMs,
           \/ UNCHANGED consoleVars
           \/ \E s \in Streams : BeginMessage(v, s)
           \/ EndMessage(v) \/ EndFlush(v) \/ PrintUnlocked(v)
           \/ \E c \in Characters : PushBack(v, c)
           \/ LockInput(v) \/ GetCharacter(v) \/ EndOfInput \/ UnlockInput(v)
    PROVE  /\ ConsoleType'
           /\ \A w \in VMs \ {v} : /\ writing'[w] = writing[w] /\ line'[w] = line[w]
                                   /\ printed'[w] = printed[w] /\ sent'[w] = sent[w]
<1> USE DEF ConsoleType
<1>0. FallInto(v) \in [VMs -> SUBSET (VMs \cup {Main})]
  BY FallIntoType
<1>1. CASE UNCHANGED consoleVars
  BY <1>1 DEF consoleVars
<1>2. CASE \E s \in Streams : BeginMessage(v, s)
  BY <1>0, <1>2 DEF BeginMessage
<1>3. CASE EndMessage(v)
  BY <1>0, <1>3 DEF EndMessage
<1>4. CASE EndFlush(v)
  <2>1. printed[v] \o line[v] \in Seq(Characters) /\ <<>> \in Seq(Characters)
    BY ConcatProperties
  <2> QED  BY <1>0, <1>4, <2>1 DEF EndFlush
<1>5. ASSUME NEW c \in Characters, PushBack(v, c)
      PROVE  /\ ConsoleType'
             /\ \A w \in VMs \ {v} : /\ writing'[w] = writing[w] /\ line'[w] = line[w]
                                     /\ printed'[w] = printed[w] /\ sent'[w] = sent[w]
  <2>1. Append(line[v], c) \in Seq(Characters) /\ Append(sent[v], c) \in Seq(Characters)
    BY AppendProperties
  <2> QED  BY <1>5, <2>1 DEF PushBack
<1>6. CASE LockInput(v) \/ GetCharacter(v) \/ EndOfInput \/ UnlockInput(v)
  BY <1>6 DEF LockInput, GetCharacter, EndOfInput, UnlockInput
<1>7. CASE PrintUnlocked(v)
  BY <1>0, <1>7 DEF PrintUnlocked
<1> QED  BY <1>1, <1>2, <1>3, <1>4, <1>5, <1>6, <1>7

(* Which of them a step of a thread uses. *)
LEMMA StepConsole ==
    ASSUME NEW v \in VMs, Step(v)
    PROVE  \/ /\ StartMessage(v) /\ writing[v] = None
              /\ \E s \in Streams : BeginMessage(v, s)
              /\ Has(v, "flush") => line[v] # <<>>
           \/ FinishMessage(v) /\ (EndMessage(v) \/ EndFlush(v))
           \/ SerialOut(v) /\ \E c \in Characters : PushBack(v, c)
           \/ /\ ~StartMessage(v) /\ ~FinishMessage(v) /\ ~SerialOut(v)
              /\ \/ UNCHANGED consoleVars \/ LockInput(v) \/ GetCharacter(v)
                 \/ EndOfInput \/ UnlockInput(v)
                 \/ (SetUpFails(v) \/ KvmFails(v)) /\ PrintUnlocked(v)
<1>1. CASE StartMessage(v)
  <2>1. "cout" \in Streams /\ "flush" \notin Streams
    BY DEF Streams
  <2> QED  BY <1>1, <2>1 DEF StartMessage, Has
<1>2. CASE FinishMessage(v)
  BY <1>2 DEF FinishMessage
<1>3. CASE SerialOut(v)
  BY <1>3 DEF SerialOut
<1>4. CASE SetUpSucceeds(v) \/ FlushNothing(v) \/ VmDestroy(v)
           \/ RunGuestReturns(v) \/ Reopen(v) \/ SerialIn(v) \/ OpenFile(v) \/ CloseFile(v)
           \/ WriteShared(v)
  <2>1. UNCHANGED consoleVars
    BY <1>4 DEF SetUpSucceeds, FlushNothing, VmDestroy, RunGuestReturns, Reopen,
       SerialIn, OpenFile, CloseFile, WriteShared
  <2> QED  BY <1>1, <1>2, <1>3, <2>1
<1>5. CASE Halts(v) \/ AccessRefused(v) \/ SetUpFails(v) \/ KvmFails(v)
  <2>1. UNCHANGED consoleVars \/ ((SetUpFails(v) \/ KvmFails(v)) /\ PrintUnlocked(v))
    BY <1>5 DEF Halts, AccessRefused, SetUpFails, KvmFails
  <2> QED  BY <1>1, <1>2, <1>3, <2>1
<1>6. CASE WaitForInput(v) \/ Unlock(v) \/ InputArrives(v) \/ InputFails(v)
  <2>1. LockInput(v) \/ UnlockInput(v) \/ GetCharacter(v) \/ EndOfInput
    BY <1>6 DEF WaitForInput, Unlock, InputArrives, InputFails
  <2> QED  BY <1>1, <1>2, <1>3, <2>1
<1> QED  BY <1>1, <1>2, <1>3, <1>4, <1>5, <1>6 DEF Step, HostStep, GuestExit

(* A thread that is in the middle of a message does nothing else. *)
LEMMA MessageFirst ==
    ASSUME ThreadType, \A u \in VMs : MessageControl(u), NEW v \in VMs, Step(v),
           writing[v] # None
    PROVE  FinishMessage(v)
<1>0. todo[v] \in Plans
  BY DEF ThreadType
<1>1. /\ todo[v] # <<>> /\ Head(todo[v]) \in {"flush", "cout", "cerr"}
      /\ Head(todo[v]) = "flush" => line[v] # <<>>
  BY DEF MessageControl, Has
<1>2. ~SetUpSucceeds(v) /\ ~SetUpFails(v)
  BY <1>1, SetUpApart DEF SetUpSucceeds, SetUpFails
<1>3. ~StartMessage(v) /\ ~FlushNothing(v)
  BY <1>1 DEF StartMessage, FlushNothing, Has
<1>4. /\ ~VmDestroy(v) /\ ~RunGuestReturns(v) /\ ~WaitForInput(v) /\ ~Unlock(v) /\ ~Reopen(v)
      /\ ~InputArrives(v) /\ ~InputFails(v)
  BY <1>1 DEF VmDestroy, RunGuestReturns, WaitForInput, Unlock, Reopen, Copying, InputArrives,
     InputFails, Has
<1>5. ~GuestExit(v)
  BY <1>1 DEF GuestExit, SerialOut, SerialIn, OpenFile, CloseFile, WriteShared, Halts,
     AccessRefused, KvmFails, Stop, Exit
<1> QED  BY <1>2, <1>3, <1>4, <1>5 DEF Step, HostStep

(* What a step counts and marks. *)
LEMMA StepCounts ==
    ASSUME ThreadType, NEW v \in VMs, Step(v)
    PROVE  /\ exits' \in [VMs -> Nat] /\ abandoned' \in [VMs -> BOOLEAN]
           /\ \A w \in VMs \ {v} : exits'[w] = exits[w] /\ abandoned'[w] = abandoned[w]
           /\ \/ exits'[v] = exits[v] /\ ~SerialOut(v)
              \/ exits'[v] = exits[v] + 1 /\ exits[v] < MaxExits[v] /\ abandoned'[v] = abandoned[v]
           /\ \/ abandoned'[v] = abandoned[v]
              \/ Halts(v) \/ AccessRefused(v) \/ (KvmFails(v) /\ abandoned'[v])
<1> USE DEF ThreadType
<1>1. CASE SetUpSucceeds(v) \/ SetUpFails(v) \/ StartMessage(v) \/ FinishMessage(v)
           \/ FlushNothing(v) \/ VmDestroy(v) \/ RunGuestReturns(v) \/ WaitForInput(v)
           \/ Unlock(v) \/ Reopen(v) \/ InputArrives(v) \/ InputFails(v)
  <2>1. exits' = exits /\ abandoned' = abandoned
    BY <1>1 DEF SetUpSucceeds, SetUpFails, StartMessage, FinishMessage, FlushNothing, VmDestroy,
       RunGuestReturns, WaitForInput, Unlock, Reopen, InputArrives, InputFails
  <2>2. ~SerialOut(v)
    <3>1. SerialOut(v) => exits' = [exits EXCEPT ![v] = @ + 1]
      BY DEF SerialOut, Exit
    <3>2. exits[v] + 1 # exits[v]
      OBVIOUS
    <3> QED  BY <2>1, <3>1, <3>2
  <2> QED  BY <2>1, <2>2
<1>2. CASE SerialOut(v) \/ SerialIn(v) \/ OpenFile(v) \/ CloseFile(v) \/ WriteShared(v)
  <2>1. Exit(v)
    BY <1>2 DEF SerialOut, SerialIn, OpenFile, CloseFile, WriteShared
  <2>2. /\ exits' = [exits EXCEPT ![v] = @ + 1] /\ abandoned' = abandoned
        /\ exits[v] < MaxExits[v]
    BY <2>1 DEF Exit
  <2> QED  BY <2>2
<1>3. CASE Halts(v) \/ AccessRefused(v) \/ KvmFails(v)
  <2>1. PICK flushes \in BOOLEAN : /\ abandoned' = [abandoned EXCEPT ![v] = ~flushes]
                                   /\ exits' = exits /\ (KvmFails(v) /\ ~Halts(v) /\ ~AccessRefused(v) => ~flushes)
    BY <1>3 DEF Halts, AccessRefused, KvmFails, Stop
  <2>2. ~SerialOut(v)
    <3>1. SerialOut(v) => exits' = [exits EXCEPT ![v] = @ + 1]
      BY DEF SerialOut, Exit
    <3>2. exits[v] + 1 # exits[v]
      OBVIOUS
    <3> QED  BY <2>1, <3>1, <3>2
  <2> QED  BY <1>3, <2>1, <2>2
<1> QED  BY <1>1, <1>2, <1>3 DEF Step, HostStep, GuestExit

(* Every step keeps the types, the bound and the mutex. *)
LEMMA TypedStep ==
    ASSUME Typed, NEW v \in VMs, Step(v)
    PROVE  Typed'
<1>0. ResourceType /\ ConsoleType /\ ThreadType /\ \A u \in VMs : MessageControl(u)
  BY DEF Typed
<1>1. ResourceType'
  BY <1>0, StepResources
<1>2. /\ ConsoleType'
      /\ \A w \in VMs \ {v} : writing'[w] = writing[w] /\ line'[w] = line[w]
  BY <1>0, StepConsole, ConsoleStep
<1>3. todo' \in [VMs -> Plans] /\ \A w \in VMs \ {v} : todo'[w] = todo[w]
  <2>1. todo' = [todo EXCEPT ![v] = todo'[v]] /\ todo \in [VMs -> Plans]
    BY <1>0, Moves DEF ThreadType
  <2>2. {<<>>, <<"input">>, <<"reopen">>} \subseteq Plans /\ FlushPlans \subseteq Plans
        /\ LeavePlans \subseteq Plans /\ SetUpPlans \subseteq Plans
    BY DEF Plans, RunPlans
  <2>3. /\ <<"vm_destroy", "return">> \in LeavePlans /\ <<"return">> \in LeavePlans
        /\ <<"ended">> \in LeavePlans /\ \A s \in Streams : Leave(s) \in LeavePlans
        /\ "cerr" \in Streams
    BY DEF LeavePlans, Streams
  <2>4. InputSteps \in FlushPlans /\ <<"flush">> \in FlushPlans
    BY EndPlans
  <2>5. todo[v] \in Plans /\ (todo[v] \in SetUpPlans => Tail(todo[v]) \in Plans)
    BY <2>1, <2>2, SetUpStep
  <2>6. todo'[v] \in Plans
    BY <1>0, <2>2, <2>3, <2>4, <2>5, Moves
  <2> QED  BY <2>1, <2>6
<1>4. ThreadType'
  BY <1>0, <1>3, StepCounts DEF ThreadType
<1>5. ASSUME NEW w \in VMs PROVE ExitsBound(w)'
  <2>0. /\ ExitsBound(w) /\ exits[w] \in Nat /\ MaxExits[w] \in Nat /\ Len(line[w]) \in Nat
        /\ line[w] \in Seq(Characters)
    BY <1>0, ExitsAssumption DEF Typed, ThreadType, ConsoleType
  <2>1. CASE w # v
    BY <1>0, <1>2, <2>0, <2>1, StepCounts DEF ExitsBound
  <2>2. CASE w = v /\ SerialOut(v)
    <3>1. exits'[v] = exits[v] + 1 /\ exits[v] < MaxExits[v]
      BY <1>0, <2>2, StepCounts
    <3>2. PICK c \in Characters : PushBack(v, c)
      BY <2>2 DEF SerialOut
    <3>3. line'[v] = Append(line[v], c)
      BY <1>0, <3>2 DEF PushBack, ConsoleType
    <3>4. Len(line'[v]) = Len(line[v]) + 1
      BY <2>0, <2>2, <3>3, AppendProperties
    <3> QED  BY <2>0, <2>2, <3>1, <3>4 DEF ExitsBound
  <2>3. CASE w = v /\ ~SerialOut(v)
    <3>1. line'[v] = line[v] \/ line'[v] = <<>>
      BY <1>0, <2>3, StepConsole DEF BeginMessage, EndMessage, EndFlush, consoleVars, LockInput,
         GetCharacter, EndOfInput, UnlockInput, PrintUnlocked, ConsoleType
    <3>2. Len(line'[v]) <= Len(line[v]) /\ Len(line'[v]) \in Nat
      BY <2>0, <2>3, <3>1
    <3>3. exits'[v] \in Nat /\ exits'[v] >= exits[v] /\ exits'[v] <= MaxExits[v]
      BY <1>0, <2>0, <2>3, StepCounts DEF ExitsBound
    <3> QED  BY <2>0, <2>3, <3>2, <3>3 DEF ExitsBound
  <2> QED  BY <2>1, <2>2, <2>3
<1>6. ASSUME NEW w \in VMs PROVE MessageControl(w)'
  <2>0. w # None /\ v # None
    BY VmAssumption
  <2>1. CASE StartMessage(v)
    <3>1. /\ consoleMutex = None /\ consoleMutex' = v /\ line' = line /\ todo' = todo
          /\ \A u \in VMs \ {v} : writing'[u] = writing[u]
      BY <1>2, <2>1 DEF StartMessage, BeginMessage
    <3>2. CASE w = v
      <4>1. Has(v, "flush") \/ Has(v, "cout") \/ Has(v, "cerr")
        BY <2>1 DEF StartMessage, Streams
      <4>2. Has(v, "flush") => line[v] # <<>>
        BY <2>1 DEF StartMessage, Streams, Has
      <4> QED  BY <3>1, <3>2, <4>1, <4>2 DEF MessageControl, Has
    <3>3. CASE w # v
      BY <1>0, <2>0, <3>1, <3>3 DEF MessageControl
    <3> QED  BY <3>2, <3>3
  <2>2. CASE FinishMessage(v)
    <3>1. writing[v] # None /\ (EndMessage(v) \/ EndFlush(v))
      BY <2>2 DEF FinishMessage
    <3>2. consoleMutex = v /\ writing'[v] = None
      BY <1>0, <3>1 DEF MessageControl, EndMessage, EndFlush, ConsoleType
    <3>3. CASE w # v
      BY <1>0, <1>2, <2>0, <3>2, <3>3 DEF MessageControl
    <3> QED  BY <3>2, <3>3 DEF MessageControl
  <2>3. CASE ~StartMessage(v) /\ ~FinishMessage(v)
    <3>1. writing[v] = None
      BY <1>0, <2>3, MessageFirst
    <3>2. writing' = writing /\ consoleMutex' = consoleMutex
      BY <2>3, StepConsole DEF PushBack, consoleVars, LockInput, GetCharacter, EndOfInput,
         UnlockInput, PrintUnlocked
    <3>3. CASE w # v
      BY <1>0, <1>2, <1>3, <3>2, <3>3 DEF MessageControl, Has
    <3> QED  BY <3>1, <3>2, <3>3 DEF MessageControl
  <2> QED  BY <2>1, <2>2, <2>3
<1> QED  BY <1>1, <1>2, <1>4, <1>5, <1>6 DEF Typed

(* So does every step of the system. *)
LEMMA TypedNext == Typed /\ [Next]_vars => Typed'
<1> SUFFICES ASSUME Typed, [Next]_vars PROVE Typed'
  OBVIOUS
<1>1. CASE \E v \in VMs : Step(v)
  BY <1>1, TypedStep
<1>2. CASE UNCHANGED vars
  BY <1>2 DEF vars, resourceVars, consoleVars, Typed, ResourceType, ConsoleType, ThreadType,
     ExitsBound, MessageControl, Has
<1>3. CASE MainFails
  <2>1. PrintUnlocked(Main) /\ UNCHANGED <<resourceVars, todo, exits, abandoned>>
    BY <1>3 DEF MainFails
  <2>2. intruders' \in [VMs -> SUBSET (VMs \cup {Main})]
    BY <2>1, FallIntoType DEF PrintUnlocked, Typed
  <2>3. UNCHANGED <<resourceVars, todo, exits, abandoned, consoleMutex, inputMutex, writing,
                    line, printed, sent>>
    BY <2>1 DEF PrintUnlocked
  <2> QED
    BY <2>2, <2>3 DEF resourceVars, Typed, ResourceType, ConsoleType, ThreadType, ExitsBound,
       MessageControl, Has
<1> QED  BY <1>1, <1>2, <1>3 DEF Next, Step, Terminated

LEMMA TypedInit == Init => Typed
<1> SUFFICES ASSUME Init PROVE Typed
  OBVIOUS
<1>1. ResourceType
  BY DEF Init, ResourceInit, ResourceType, FileStates
<1>2. ConsoleType
  BY DEF Init, ConsoleInit, ConsoleType
<1>3. ThreadType
  BY EndPlans DEF Init, ThreadType, Plans
<1>4. ASSUME NEW v \in VMs PROVE ExitsBound(v)
  <2>1. MaxExits[v] \in Nat /\ exits[v] = 0 /\ line[v] = <<>> /\ Len(<<>>) = 0
    BY ExitsAssumption DEF Init, ConsoleInit
  <2> QED  BY <2>1 DEF ExitsBound
<1>5. \A v \in VMs : MessageControl(v)
  BY DEF Init, ConsoleInit, MessageControl
<1> QED  BY <1>1, <1>2, <1>3, <1>4, <1>5 DEF Typed

LEMMA AlwaysTyped == Spec => []Typed
  BY TypedInit, TypedNext, PTL DEF Spec

(* Whatever fails and however the threads interleave, the state keeps its  *)
(* types, the line buffers stay within the exits of their guests, and a    *)
(* thread in the middle of a message has consoleMutex.                     *)
THEOREM TypeCorrect == Spec => []TypeOK
<1>1. Typed => TypeOK
  <2> SUFFICES ASSUME Typed PROVE TypeOK
    OBVIOUS
  <2>1. ResourceType /\ ConsoleType /\ ThreadType
    BY DEF Typed
  <2>2. ASSUME NEW v \in VMs PROVE exits[v] \in 0..MaxExits[v] /\ Len(line[v]) <= exits[v]
    BY <2>1, ExitsAssumption DEF Typed, ThreadType, ExitsBound
  <2>3. \A v \in VMs : writing[v] # None => consoleMutex = v
    BY DEF Typed, MessageControl
  <2> QED  BY <2>1, <2>2, <2>3 DEF ResourceType, ConsoleType, TypeOK
<1> QED  BY <1>1, AlwaysTyped, PTL

---------------------------------------------------------------------------
(* What falls into a message.                                              *)

(* A thread that has to print its last error begins to print it or waits. *)
LEMMA LeaveFirst ==
    ASSUME NEW v \in VMs, Step(v), todo[v] = Leave("cerr"), writing[v] = None
    PROVE  StartMessage(v)
<1>1. todo[v] # <<>> /\ Head(todo[v]) = "cerr"
  BY LeaveFacts DEF Streams
<1>2. ~SetUpSucceeds(v) /\ ~SetUpFails(v)
  BY <1>1, SetUpApart DEF SetUpSucceeds, SetUpFails
<1>3. ~FinishMessage(v) /\ ~FlushNothing(v)
  BY <1>1 DEF FinishMessage, FlushNothing, Has
<1>4. /\ ~VmDestroy(v) /\ ~RunGuestReturns(v) /\ ~WaitForInput(v) /\ ~Unlock(v) /\ ~Reopen(v)
      /\ ~InputArrives(v) /\ ~InputFails(v)
  BY <1>1 DEF VmDestroy, RunGuestReturns, WaitForInput, Unlock, Reopen, Copying, InputArrives,
     InputFails, Has
<1>5. ~GuestExit(v)
  BY <1>1 DEF GuestExit, SerialOut, SerialIn, OpenFile, CloseFile, WriteShared, Halts,
     AccessRefused, KvmFails, Stop, Exit
<1> QED  BY <1>2, <1>3, <1>4, <1>5 DEF Step, HostStep

(* A step of a thread keeps the intruders of every message.  When a        *)
(* message begins or ends none is under way, or only that one, because of  *)
(* consoleMutex; an unlocked print adds a thread that is to leave.         *)
LEMMA IntruderStep ==
    ASSUME Typed, \A u \in VMs : IntruderControl(u), NEW v \in VMs, Step(v), NEW w \in VMs
    PROVE  IntruderControl(w)'
<1>0. /\ ConsoleType /\ ThreadType /\ \A u \in VMs : MessageControl(u)
      /\ v # None /\ w # None
  BY VmAssumption DEF Typed
<1>1. todo' = [todo EXCEPT ![v] = todo'[v]] /\ todo \in [VMs -> Plans]
  BY <1>0, Moves DEF ThreadType
<1>2. CASE StartMessage(v)
  <2>1. consoleMutex = None /\ intruders' = FallInto(v)
    BY <1>2 DEF StartMessage, BeginMessage
  <2>2. writing[w] = None
    BY <1>0, <2>1 DEF MessageControl
  <2>3. intruders'[w] = {}
    BY <2>1, <2>2 DEF FallInto, IntruderControl
  <2> QED  BY <2>3 DEF IntruderControl
<1>3. CASE FinishMessage(v)
  <2>1. consoleMutex = v /\ intruders' = [FallInto(v) EXCEPT ![v] = {}]
    BY <1>0, <1>3 DEF FinishMessage, MessageControl, EndMessage, EndFlush
  <2>2. w # v => writing[w] = None
    BY <1>0, <2>1 DEF MessageControl
  <2>3. intruders'[w] = {}
    BY <2>1, <2>2 DEF FallInto, IntruderControl
  <2> QED  BY <2>3 DEF IntruderControl
<1>4. CASE ~StartMessage(v) /\ ~FinishMessage(v)
  <2>1. writing[v] = None /\ writing' = writing
    BY <1>0, <1>4, MessageFirst, StepConsole DEF PushBack, consoleVars, LockInput,
       GetCharacter, EndOfInput, UnlockInput, PrintUnlocked
  <2>2. ASSUME NEW u \in intruders[w]
        PROVE  u = Main \/ (u # w /\ todo'[u] = Leave("cerr") /\ writing'[u] = None)
    <3>1. u = Main \/ (u # w /\ todo[u] = Leave("cerr") /\ writing[u] = None)
      BY DEF IntruderControl
    <3>2. u \in VMs \cup {Main}
      BY <1>0 DEF ConsoleType
    <3>3. u = v => u = Main
      BY <1>4, <3>1, LeaveFirst
    <3> QED  BY <1>1, <2>1, <3>1, <3>2, <3>3
  <2>3. CASE intruders' = intruders
    BY <2>1, <2>2, <2>3 DEF IntruderControl
  <2>4. CASE (SetUpFails(v) \/ KvmFails(v)) /\ PrintUnlocked(v)
    <3>1. todo'[v] = Leave("cerr")
      BY <1>1, <2>4 DEF SetUpFails, KvmFails, Stop, Ahead
    <3>2. intruders'[w] = IF writing[w] # None THEN intruders[w] \cup {v} ELSE intruders[w]
      BY <2>4 DEF PrintUnlocked, FallInto
    <3> QED  BY <2>1, <2>2, <3>1, <3>2 DEF IntruderControl
  <2>5. intruders' = intruders \/ ((SetUpFails(v) \/ KvmFails(v)) /\ PrintUnlocked(v))
    BY <1>4, StepConsole DEF PushBack, consoleVars, LockInput, GetCharacter, EndOfInput,
       UnlockInput
  <2> QED  BY <2>3, <2>4, <2>5
<1> QED  BY <1>2, <1>3, <1>4

(* So does every step of the system. *)
LEMMA IntruderNext ==
    Typed /\ (\A v \in VMs : IntruderControl(v)) /\ [Next]_vars
        => \A v \in VMs : IntruderControl(v)'
<1> SUFFICES ASSUME Typed, \A v \in VMs : IntruderControl(v), [Next]_vars, NEW w \in VMs
             PROVE  IntruderControl(w)'
  OBVIOUS
<1>1. CASE \E v \in VMs : Step(v)
  BY <1>1, IntruderStep
<1>2. CASE MainFails
  <2>1. /\ intruders' = FallInto(Main) /\ writing' = writing /\ todo' = todo
    BY <1>2 DEF MainFails, PrintUnlocked
  <2>2. intruders'[w] = IF writing[w] # None THEN intruders[w] \cup {Main} ELSE intruders[w]
    BY <2>1 DEF FallInto
  <2> QED  BY <2>1, <2>2 DEF IntruderControl
<1>3. CASE UNCHANGED vars
  BY <1>3 DEF vars, consoleVars, IntruderControl
<1> QED  BY <1>1, <1>2, <1>3 DEF Next, Step, Terminated

LEMMA AlwaysIntruders == Spec => [](\A v \in VMs : IntruderControl(v))
<1>1. Init => \A v \in VMs : IntruderControl(v)
  BY DEF Init, ConsoleInit, IntruderControl
<1>2. Typed /\ (\A v \in VMs : IntruderControl(v)) /\ [Next]_vars
        => (\A v \in VMs : IntruderControl(v))'
  BY IntruderNext
<1> QED  BY <1>1, <1>2, AlwaysTyped, PTL DEF Spec

(* For any number of VMs, what falls into a message is an error of main or *)
(* the one line that vm.c prints for a thread that fails, which prints     *)
(* nothing more before the message is over.                                *)
THEOREM MessagesKeptWhole == Spec => []OnlyFailuresIntrude
<1>1. (\A v \in VMs : IntruderControl(v)) => OnlyFailuresIntrude
  BY DEF IntruderControl, OnlyFailuresIntrude
<1> QED  BY <1>1, AlwaysIntruders, PTL
---------------------------------------------------------------------------
(* The line buffers.                                                       *)

(* A step that leaves the buffer of a VM alone may go from a flush to a    *)
(* flush, or anywhere with an empty buffer, but not past a flush.          *)
LEMMA LineFrame ==
    ASSUME NEW v \in VMs, LineControl(v),
           line'[v] = line[v], printed'[v] = printed[v], sent'[v] = sent[v],
           \/ line[v] = <<>>
           \/ todo'[v] \in FlushPlans
           \/ todo[v] \in RunPlans /\ todo'[v] \in RunPlans
           \/ todo[v] \in RunPlans /\ todo'[v] \in LeavePlans /\ abandoned'[v]
           \/ /\ todo[v] \in LeavePlans /\ todo'[v] \in LeavePlans
              /\ abandoned'[v] = abandoned[v]
    PROVE  LineControl(v)'
<1>1. EndsLine(v)' <=> EndsLine(v)
  BY DEF EndsLine
<1>2. line[v] = <<>> => ~EndsLine(v)
  BY DEF EndsLine
<1>3. CASE line[v] = <<>>
  BY <1>1, <1>2, <1>3 DEF LineControl
<1>4. CASE todo'[v] \in FlushPlans
  BY <1>1, <1>4 DEF LineControl
<1>5. CASE todo[v] \in RunPlans
  BY <1>1, <1>2, <1>3, <1>4, <1>5, Kinds DEF LineControl
<1>6. CASE todo[v] \in LeavePlans /\ todo'[v] \in LeavePlans /\ abandoned'[v] = abandoned[v]
  BY <1>1, <1>6, Kinds DEF LineControl
<1> QED  BY <1>3, <1>4, <1>5, <1>6

(* The lists a thread goes through without touching its buffer. *)
LEMMA LineMoves ==
    ASSUME Typed, NEW v \in VMs, LineControl(v), Step(v), ~SerialOut(v), ~EndFlush(v)
    PROVE  \/ line[v] = <<>>
           \/ todo'[v] \in FlushPlans
           \/ todo[v] \in RunPlans /\ todo'[v] \in RunPlans
           \/ todo[v] \in RunPlans /\ todo'[v] \in LeavePlans /\ abandoned'[v]
           \/ /\ todo[v] \in LeavePlans /\ todo'[v] \in LeavePlans
              /\ abandoned'[v] = abandoned[v]
<1>0. ThreadType /\ ConsoleType /\ \A u \in VMs : MessageControl(u)
  BY DEF Typed
<1>1. todo[v] \in SetUpPlans \cup {<<"input">>} => line[v] = <<>>
  BY Kinds DEF LineControl
<1>2. <<>> \in RunPlans /\ <<"reopen">> \in RunPlans
  BY DEF RunPlans
<1>3. /\ <<"vm_destroy", "return">> \in LeavePlans /\ <<"return">> \in LeavePlans
      /\ <<"ended">> \in LeavePlans /\ Leave("cerr") \in LeavePlans
  BY EndPlans DEF LeavePlans, Streams
<1>4. InputSteps \in FlushPlans
  BY EndPlans
<1>5. CASE FlushNothing(v)
  BY <1>5 DEF FlushNothing
<1>6. CASE StartMessage(v)
  <2>1. todo'[v] = todo[v] /\ abandoned'[v] = abandoned[v]
    BY <1>6 DEF StartMessage
  <2> QED  BY <2>1 DEF LineControl
<1>7. CASE KvmFails(v)
  <2>1. abandoned'[v]
    BY <1>0, <1>7 DEF KvmFails, Stop, ThreadType
  <2>2. todo[v] = <<>> /\ todo'[v] = Leave("cerr")
    BY <1>0, <1>7 DEF KvmFails, Stop, Ahead, ThreadType
  <2> QED  BY <1>2, <1>3, <2>1, <2>2
<1>8. CASE FinishMessage(v) \/ VmDestroy(v) \/ RunGuestReturns(v)
  <2>1. abandoned'[v] = abandoned[v]
    BY <1>8 DEF FinishMessage, VmDestroy, RunGuestReturns
  <2>2. \/ todo'[v] \in FlushPlans
        \/ todo[v] \in LeavePlans /\ todo'[v] \in LeavePlans
    <3>1. CASE FinishMessage(v)
      <4>1. ~Has(v, "flush") /\ writing[v] # None /\ Ahead(v, Tail(todo[v]))
        BY <3>1 DEF FinishMessage, Advance
      <4>2. todo[v] \in Plans /\ todo[v] # <<>> /\ Head(todo[v]) \in Streams
            /\ todo'[v] = Tail(todo[v])
        BY <1>0, <4>1 DEF MessageControl, Has, Streams, ThreadType, Ahead
      <4> QED  BY <1>3, <4>2, FirstStep
    <3>2. CASE VmDestroy(v)
      <4>1. todo[v] \in Plans /\ todo[v] # <<>> /\ Head(todo[v]) = "vm_destroy"
            /\ todo'[v] = Tail(todo[v])
        BY <1>0, <3>2 DEF VmDestroy, Advance, Ahead, Has, ThreadType
      <4> QED  BY <1>3, <4>1, FirstStep
    <3>3. CASE RunGuestReturns(v)
      <4>1. todo[v] \in Plans /\ todo[v] # <<>> /\ Head(todo[v]) = "return"
            /\ todo'[v] = <<"ended">>
        BY <1>0, <3>3 DEF RunGuestReturns, Ahead, Has, ThreadType
      <4> QED  BY <1>3, <4>1, FirstStep
    <3> QED  BY <1>8, <3>1, <3>2, <3>3
  <2> QED  BY <2>1, <2>2
<1>9. CASE ~FlushNothing(v) /\ ~StartMessage(v) /\ ~KvmFails(v) /\ ~FinishMessage(v)
           /\ ~VmDestroy(v) /\ ~RunGuestReturns(v)
  <2>1. \/ todo[v] \in SetUpPlans \cup {<<"input">>}
        \/ todo'[v] \in FlushPlans
        \/ todo[v] \in {<<>>, <<"reopen">>} /\ todo'[v] \in {<<>>, <<"reopen">>}
    BY <1>0, <1>4, <1>9, Moves
  <2> QED  BY <1>1, <1>2, <2>1
<1> QED  BY <1>5, <1>6, <1>7, <1>8, <1>9

(* The history of the output: what was sent is printed or still buffered. *)
LEMMA LineStep ==
    ASSUME Typed, NEW v \in VMs, LineControl(v), Step(v)
    PROVE  LineControl(v)'
<1>0. /\ ConsoleType /\ ThreadType /\ \A u \in VMs : MessageControl(u)
      /\ line[v] \in Seq(Characters) /\ printed[v] \in Seq(Characters)
      /\ sent[v] \in Seq(Characters)
  BY DEF Typed, ConsoleType
<1>1. CASE SerialOut(v)
  <2>1. PICK c \in Characters :
          /\ PushBack(v, c) /\ todo[v] = <<>>
          /\ Ahead(v, IF c = Newline THEN <<"flush">> ELSE <<>>)
    BY <1>1 DEF SerialOut, Exit
  <2>2. /\ line'[v] = Append(line[v], c) /\ sent'[v] = Append(sent[v], c)
        /\ printed'[v] = printed[v]
    BY <1>0, <2>1 DEF PushBack, ConsoleType
  <2>3. todo'[v] = (IF c = Newline THEN <<"flush">> ELSE <<>>)
    BY <1>0, <2>1 DEF Ahead, ThreadType
  <2>4. sent'[v] = printed'[v] \o line'[v]
    <3>1. Append(sent[v], c) = sent[v] \o <<c>> /\ Append(line[v], c) = line[v] \o <<c>>
      BY <1>0, AppendIsConcat
    <3>2. \A p, q, r \in Seq(Characters) : (p \o q) \o r = p \o (q \o r)
      BY ConcatAssociative
    <3>3. (printed[v] \o line[v]) \o <<c>> = printed[v] \o (line[v] \o <<c>>)
      <4>1. <<c>> \in Seq(Characters)
        BY <2>1
      <4> QED  BY <1>0, <3>2, <4>1, Zenon
    <3> QED  BY <2>2, <3>1, <3>3 DEF LineControl
  <2>5. <<"flush">> \in FlushPlans /\ <<>> \in RunPlans /\ <<>> \notin FlushPlans
    BY EndPlans, Kinds DEF RunPlans
  <2>6. ~EndsLine(v)
    BY <2>1, <2>5 DEF LineControl
  <2>7. EndsLine(v)' => c = Newline
    <3>1. /\ Len(line'[v]) = Len(line[v]) + 1 /\ line'[v][Len(line[v]) + 1] = c
          /\ \A i \in 1..Len(line[v]) : line'[v][i] = line[v][i]
          /\ Len(line[v]) \in Nat
      BY <1>0, <2>1, <2>2, AppendProperties
    <3>2. ASSUME NEW i \in 1..Len(line'[v]), line'[v][i] = Newline PROVE c = Newline
      <4>1. CASE i = Len(line[v]) + 1
        BY <3>1, <3>2, <4>1
      <4>2. CASE i \in 1..Len(line[v])
        BY <2>6, <3>1, <3>2, <4>2 DEF EndsLine
      <4>3. i = Len(line[v]) + 1 \/ i \in 1..Len(line[v])
        BY <3>1
      <4> QED  BY <4>1, <4>2, <4>3
    <3> QED  BY <3>2 DEF EndsLine
  <2> QED  BY <2>3, <2>4, <2>5, <2>7 DEF LineControl
<1>2. CASE EndFlush(v)
  <2>1. line'[v] = <<>> /\ printed'[v] = printed[v] \o line[v] /\ sent'[v] = sent[v]
    BY <1>0, <1>2 DEF EndFlush, ConsoleType
  <2>2. printed[v] \o line[v] \in Seq(Characters)
    BY <1>0, ConcatProperties
  <2>3. sent'[v] = printed'[v] \o line'[v]
    BY <2>1, <2>2, ConcatEmptySeq DEF LineControl
  <2>4. ~EndsLine(v)'
    BY <2>1 DEF EndsLine
  <2> QED  BY <2>1, <2>3, <2>4 DEF LineControl
<1>3. CASE ~SerialOut(v) /\ ~EndFlush(v)
  <2>1. line'[v] = line[v] /\ printed'[v] = printed[v] /\ sent'[v] = sent[v]
    BY <1>3, StepConsole DEF BeginMessage, EndMessage, consoleVars, LockInput, GetCharacter,
       EndOfInput, UnlockInput, PrintUnlocked
  <2> QED  BY <1>3, <2>1, LineMoves, LineFrame
<1> QED  BY <1>1, <1>2, <1>3

(* Every step keeps LineControl for every VM. *)
LEMMA LineNext ==
    Typed /\ (\A v \in VMs : LineControl(v)) /\ [Next]_vars => \A v \in VMs : LineControl(v)'
<1> SUFFICES ASSUME Typed, \A v \in VMs : LineControl(v), [Next]_vars, NEW w \in VMs
             PROVE  LineControl(w)'
  OBVIOUS
<1>1. ASSUME NEW v \in VMs, Step(v) PROVE LineControl(w)'
  <2>1. CASE w = v
    BY <1>1, <2>1, LineStep
  <2>2. CASE w # v
    <3>1. ConsoleType /\ ThreadType /\ \A u \in VMs : MessageControl(u)
      BY DEF Typed
    <3>2. line'[w] = line[w] /\ printed'[w] = printed[w] /\ sent'[w] = sent[w]
      BY <1>1, <2>2, <3>1, StepConsole, ConsoleStep
    <3>3. todo'[w] = todo[w]
      <4>1. todo' = [todo EXCEPT ![v] = todo'[v]] /\ todo \in [VMs -> Plans]
        BY <1>1, <3>1, Moves DEF ThreadType
      <4> QED  BY <2>2, <4>1
    <3>4. abandoned'[w] = abandoned[w]
      BY <1>1, <2>2, <3>1, StepCounts
    <3> QED  BY <3>2, <3>3, <3>4 DEF LineControl, EndsLine
  <2> QED  BY <2>1, <2>2
<1>2. CASE UNCHANGED vars
  BY <1>2 DEF vars, consoleVars, LineControl, EndsLine
<1>3. CASE MainFails
  BY <1>3 DEF MainFails, PrintUnlocked, LineControl, EndsLine
<1> QED  BY <1>1, <1>2, <1>3 DEF Next, Step, Terminated

LEMMA AlwaysLines == Spec => [](\A v \in VMs : LineControl(v))
<1>1. Init => \A v \in VMs : LineControl(v)
  <2> SUFFICES ASSUME Init, NEW v \in VMs PROVE LineControl(v)
    OBVIOUS
  <2>1. line[v] = <<>> /\ printed[v] = <<>> /\ sent[v] = <<>>
    BY DEF Init, ConsoleInit
  <2>2. <<>> \o <<>> = <<>>
    OBVIOUS
  <2> QED  BY <2>1, <2>2 DEF LineControl, EndsLine
<1>2. Typed /\ (\A v \in VMs : LineControl(v)) /\ [Next]_vars
        => (\A v \in VMs : LineControl(v))'
  BY LineNext
<1> QED  BY <1>1, <1>2, AlwaysTyped, PTL DEF Spec

(* Every character a guest sends is printed once and in order or is still  *)
(* in its buffer, and a thread that ends leaves an unfinished line only    *)
(* when KVM failed.                                                        *)
THEOREM NoOutputIsLost == Spec => []OutputIsPrinted
<1>1. Typed /\ (\A v \in VMs : LineControl(v)) => OutputIsPrinted
  <2> SUFFICES ASSUME Typed, NEW v \in VMs, LineControl(v)
               PROVE  /\ sent[v] = printed[v] \o line[v]
                      /\ Ended(v) =>
                           IF abandoned[v]
                           THEN Newline \notin {line[v][i] : i \in 1..Len(line[v])}
                           ELSE line[v] = <<>>
    BY DEF OutputIsPrinted
  <2>1. <<"ended">> \notin FlushPlans \cup RunPlans
    BY Kinds DEF LeavePlans
  <2> QED  BY <2>1 DEF LineControl, EndsLine, Ended
<1> QED  BY <1>1, AlwaysTyped, AlwaysLines, PTL

(* What a guest has written is on the console before its thread waits for  *)
(* serialInputMutex or for a character.                                    *)
THEOREM PromptComesFirst == Spec => []PromptIsShown
<1>1. Typed /\ (\A v \in VMs : LineControl(v)) => PromptIsShown
  <2> SUFFICES ASSUME Typed, NEW v \in VMs, LineControl(v), Has(v, "input")
               PROVE  line[v] = <<>>
    BY DEF PromptIsShown
  <2>1. todo[v] = <<"input">>
    BY FirstStep DEF Typed, ThreadType, Has
  <2> QED  BY <2>1, Kinds DEF LineControl
<1> QED  BY <1>1, AlwaysTyped, AlwaysLines, PTL
---------------------------------------------------------------------------
(* Descriptors and mappings.                                               *)

(* No two things a thread can hold are the same. *)
LEMMA Distinct ==
    /\ \A d, e : First(d) # Second(e)
    /\ \A d, e : First(d) = First(e) => d = e
    /\ \A d, e : Second(d) = Second(e) => d = e
    /\ \A f, d : <<f>> # First(d) /\ <<f>> # Second(d)
    /\ \A f \in VmFields : <<f>> # <<"image">>
    /\ \A f, g : <<f>> = <<g>> => f = g
  BY DEF First, Second, VmFields

(* What a thread holds, one thing at a time. *)
Image(v) == Has(v, "read image")
Owned(v, r) ==
    \/ \E f \in fields[v] : r = <<f>>
    \/ \E d \in Descriptors : IsOpen(v, d) /\ r = HostDescriptor(v, d)
    \/ \E d \in reopened[v] : r = Second(d)
    \/ r = <<"image">> /\ Image(v)

LEMMA HoldsIsOwned == \A v, r : r \in Holds(v) <=> Owned(v, r)
  BY DEF Holds, Owned, HostDescriptors, Image

LEMMA HostDescriptorIs ==
    \A v, d : IF openFiles[v][d] = "copied" THEN HostDescriptor(v, d) = Second(d)
                                            ELSE HostDescriptor(v, d) = First(d)
  BY DEF HostDescriptor

(* A step of a thread that takes and gives back nothing. *)
LEMMA ResourceFrame ==
    ASSUME NEW v \in VMs, ResourceControl(v),
           UNCHANGED <<allocated, fields, openFiles, reopened, stray>>,
           Image(v)' <=> Image(v),
           reopened[v] = {} \/ todo'[v] = <<"reopen">>,
           todo'[v] \in {<<"return">>, <<"ended">>} => fields[v] = {},
           todo'[v] # <<"ended">>
    PROVE  ResourceControl(v)' /\ stray' = stray
<1>1. /\ allocated' = allocated /\ fields' = fields /\ openFiles' = openFiles
      /\ reopened' = reopened /\ stray' = stray
  OBVIOUS
<1>2. Holds(v)' = Holds(v)
  <2>1. HostDescriptors(v)' = HostDescriptors(v)
    BY <1>1 DEF HostDescriptors, HostDescriptor, IsOpen
  <2> QED  BY <1>1, <2>1 DEF Holds, Image
<1>3. Shared(v)' = Shared(v)
  BY <1>1 DEF Shared
<1> QED  BY <1>1, <1>2, <1>3 DEF ResourceControl

(* load_guest_image closes the image on every path. *)
LEMMA CloseImageOwned ==
    ASSUME Typed, ~stray, NEW v \in VMs, ResourceControl(v), reopened[v] = {},
           CloseImage(v), Image(v), ~Image(v)', todo'[v] \notin {<<"return">>, <<"ended">>}
    PROVE  ResourceControl(v)' /\ ~stray'
<1>0. ResourceType /\ allocated[v] = Holds(v)
  BY DEF Typed, ResourceControl
<1>1. /\ allocated'[v] = allocated[v] \ {<<"image">>}
      /\ stray' = (stray \/ ~({<<"image">>} \subseteq allocated[v]))
      /\ fields' = fields /\ openFiles' = openFiles /\ reopened' = reopened
  BY <1>0 DEF CloseImage, Release, ResourceType
<1>2. Owned(v, <<"image">>)
  BY DEF Owned
<1>3. ~stray'
  BY <1>0, <1>1, <1>2, HoldsIsOwned
<1>4. ASSUME NEW r PROVE r \in allocated'[v] <=> Owned(v, r)'
  <2>1. r \in allocated'[v] <=> Owned(v, r) /\ r # <<"image">>
    BY <1>0, <1>1, HoldsIsOwned
  <2>2. \A d : HostDescriptor(v, d) # <<"image">> /\ HostDescriptor(v, d)' = HostDescriptor(v, d)
              /\ IsOpen(v, d)' = IsOpen(v, d)
    BY <1>1, Distinct, HostDescriptorIs DEF HostDescriptor, IsOpen
  <2>3. \A f \in fields[v] : <<f>> # <<"image">>
    BY <1>0, Distinct DEF ResourceType
  <2> QED  BY <1>1, <2>1, <2>2, <2>3 DEF Owned
<1>5. \A r : r \in Holds(v)' <=> Owned(v, r)'
  BY DEF Holds, Owned, HostDescriptors, Image
<1>6. allocated'[v] = Holds(v)'
  BY <1>4, <1>5
<1> QED  BY <1>1, <1>3, <1>6 DEF ResourceControl

(* A field, a file or the image is added to what the thread holds. *)
LEMMA TakenOwned ==
    ASSUME Typed, NEW v \in VMs, ResourceControl(v), NEW r,
           Allocate(v, r), reopened[v] = {}, reopened'[v] = {},
           \A s : Owned(v, s)' <=> Owned(v, s) \/ s = r,
           todo'[v] \notin {<<"return">>, <<"ended">>}
    PROVE  ResourceControl(v)'
<1>0. ResourceType /\ allocated[v] = Holds(v)
  BY DEF Typed, ResourceControl
<1>1. allocated'[v] = allocated[v] \cup {r}
  BY <1>0 DEF Allocate, ResourceType
<1>2. \A s : s \in Holds(v)' <=> Owned(v, s)'
  BY DEF Holds, Owned, HostDescriptors, Image
<1>3. \A s : s \in allocated'[v] <=> s \in Holds(v)'
  BY <1>0, <1>1, <1>2, HoldsIsOwned
<1> QED  BY <1>3 DEF ResourceControl

(* Set-up: what vm_init acquires it remembers ... *)
LEMMA SetUpSucceedsOwned ==
    ASSUME Typed, ~stray, NEW v \in VMs, ResourceControl(v), todo[v] \in SetUpPlans,
           SetUpSucceeds(v)
    PROVE  ResourceControl(v)' /\ ~stray'
<1>0. /\ ResourceType /\ todo \in [VMs -> Plans]
      /\ allocated[v] = Holds(v) /\ reopened[v] = {}
  <2>1. <<"reopen">> \notin SetUpPlans
    BY Kinds DEF RunPlans
  <2> QED  BY <2>1 DEF Typed, ThreadType, ResourceControl
<1>1. /\ todo'[v] \notin {<<"return">>, <<"ended">>}
      /\ Image(v)' <=> Head(todo[v]) = "open image"
      /\ Image(v) <=> Head(todo[v]) = "read image"
  <2>1. todo[v] # <<>>
    BY SetUpStep
  <2>2. todo'[v] = Tail(todo[v])
    BY <1>0 DEF SetUpSucceeds, Advance, Ahead
  <2>3. {<<"return">>, <<"ended">>} \subseteq LeavePlans /\ <<>> \in RunPlans
    BY DEF LeavePlans, RunPlans
  <2>4. /\ Tail(todo[v]) \in SetUpPlans \cup {<<>>}
        /\ (Tail(todo[v]) # <<>> /\ Head(Tail(todo[v])) = "read image")
              <=> Head(todo[v]) = "open image"
    BY SetUpStep
  <2>5. todo'[v] \notin {<<"return">>, <<"ended">>}
    BY <2>2, <2>3, <2>4, Kinds
  <2> QED  BY <2>1, <2>2, <2>4, <2>5 DEF Image, Has
<1>2. "open image" \notin VmFields /\ "read image" \notin VmFields
  BY DEF VmFields
<1>3. CASE Head(todo[v]) \in VmFields
  <2>1. AcquireField(v, Head(todo[v])) /\ ~Image(v) /\ ~Image(v)'
    BY <1>1, <1>2, <1>3 DEF SetUpSucceeds
  <2>2. /\ Allocate(v, <<Head(todo[v])>>)
        /\ fields'[v] = fields[v] \cup {Head(todo[v])}
        /\ openFiles' = openFiles /\ reopened' = reopened /\ stray' = stray
    BY <1>0, <2>1 DEF AcquireField, ResourceType
  <2>3. \A s : Owned(v, s)' <=> Owned(v, s) \/ s = <<Head(todo[v])>>
    BY <2>1, <2>2 DEF Owned, HostDescriptor, IsOpen
  <2> QED  BY <1>0, <1>1, <2>2, <2>3, TakenOwned
<1>4. CASE Head(todo[v]) = "open image"
  <2>1. OpenImage(v) /\ ~Image(v) /\ Image(v)'
    BY <1>1, <1>2, <1>4 DEF SetUpSucceeds
  <2>2. /\ Allocate(v, <<"image">>) /\ fields' = fields
        /\ openFiles' = openFiles /\ reopened' = reopened /\ stray' = stray
    BY <2>1 DEF OpenImage
  <2>3. \A s : Owned(v, s)' <=> Owned(v, s) \/ s = <<"image">>
    BY <2>1, <2>2 DEF Owned, HostDescriptor, IsOpen
  <2> QED  BY <1>0, <1>1, <2>2, <2>3, TakenOwned
<1>5. CASE Head(todo[v]) = "read image"
  <2>1. CloseImage(v) /\ Image(v) /\ ~Image(v)'
    BY <1>1, <1>2, <1>5 DEF SetUpSucceeds
  <2> QED  BY <1>0, <1>1, <2>1, CloseImageOwned
<1>6. CASE Head(todo[v]) \notin VmFields \cup {"open image", "read image"}
  <2>1. UNCHANGED resourceVars /\ ~Image(v) /\ ~Image(v)'
    BY <1>1, <1>6 DEF SetUpSucceeds
  <2> QED  BY <1>0, <1>1, <2>1, ResourceFrame DEF resourceVars
<1> QED  BY <1>3, <1>4, <1>5, <1>6

(* ... and a failure leaves it for vm_destroy. *)
LEMMA SetUpFailsOwned ==
    ASSUME Typed, ~stray, NEW v \in VMs, ResourceControl(v), todo[v] \in SetUpPlans,
           SetUpFails(v)
    PROVE  ResourceControl(v)' /\ ~stray'
<1>0. /\ ResourceType /\ todo \in [VMs -> Plans]
      /\ allocated[v] = Holds(v) /\ reopened[v] = {}
  <2>1. <<"reopen">> \notin SetUpPlans
    BY Kinds DEF RunPlans
  <2> QED  BY <2>1 DEF Typed, ThreadType, ResourceControl
<1>1. todo'[v] \notin {<<"return">>, <<"ended">>} /\ ~Image(v)'
  <2>1. todo'[v] = Leave("cerr") /\ Leave("cerr") \in LeavePlans /\ "cerr" \in Streams
    BY <1>0, EndPlans DEF SetUpFails, Ahead, Streams
  <2>2. Head(Leave("cerr")) = "cerr"
    BY <2>1, LeaveFacts
  <2>3. Head(<<"return">>) = "return" /\ Head(<<"ended">>) = "ended"
    OBVIOUS
  <2> QED  BY <2>1, <2>2, <2>3 DEF Image, Has
<1>2. CASE Image(v)
  <2>1. CloseImage(v)
    BY <1>2 DEF SetUpFails, Image
  <2> QED  BY <1>0, <1>1, <1>2, <2>1, CloseImageOwned
<1>3. CASE ~Image(v)
  <2>1. UNCHANGED resourceVars
    BY <1>3 DEF SetUpFails, Image
  <2> QED  BY <1>0, <1>1, <1>3, <2>1, ResourceFrame DEF resourceVars
<1> QED  BY <1>2, <1>3

(* Some of what a thread holds is given back. *)
LEMMA GivenBackOwned ==
    ASSUME Typed, ~stray, NEW v \in VMs, ResourceControl(v), NEW closed,
           Release(v, closed), \A r \in closed : Owned(v, r),
           \A r : Owned(v, r)' <=> Owned(v, r) /\ r \notin closed
    PROVE  allocated'[v] = Holds(v)' /\ ~stray'
<1>0. ResourceType /\ allocated[v] = Holds(v)
  BY DEF Typed, ResourceControl
<1>1. /\ allocated'[v] = allocated[v] \ closed
      /\ stray' = (stray \/ ~(closed \subseteq allocated[v]))
  BY <1>0 DEF Release, ResourceType
<1>2. \A r : r \in Holds(v)' <=> Owned(v, r)'
  BY DEF Holds, Owned, HostDescriptors, Image
<1>3. closed \subseteq allocated[v]
  BY <1>0, HoldsIsOwned
<1>4. \A r : r \in allocated'[v] <=> r \in Holds(v)'
  BY <1>0, <1>1, <1>2, HoldsIsOwned
<1> QED  BY <1>1, <1>3, <1>4

(* vm_destroy gives back the fields that are valid, and only those. *)
LEMMA DestroyOwned ==
    ASSUME Typed, ~stray, NEW v \in VMs, ResourceControl(v), todo[v] \in LeavePlans,
           VmDestroy(v), todo'[v] = <<"return">>
    PROVE  ResourceControl(v)' /\ ~stray'
<1>0. ResourceType /\ ~Image(v) /\ ~Image(v)' /\ reopened[v] = {}
  <2>1. <<"return">> \in LeavePlans /\ <<"reopen">> \notin LeavePlans
    BY Kinds DEF LeavePlans, RunPlans
  <2> QED  BY <2>1, Kinds DEF Typed, ResourceControl, Image, Has
<1> DEFINE closed == {<<f>> : f \in fields[v]}
<1>1. /\ Release(v, closed) /\ fields'[v] = {}
      /\ openFiles' = openFiles /\ reopened' = reopened
  BY <1>0 DEF VmDestroy, DestroyVm, ResourceType
<1>2. \A r \in closed : Owned(v, r)
  BY DEF Owned
<1>3. ASSUME NEW r PROVE Owned(v, r)' <=> Owned(v, r) /\ r \notin closed
  <2>1. \A d : IsOpen(v, d)' = IsOpen(v, d) /\ HostDescriptor(v, d)' = HostDescriptor(v, d)
    BY <1>1 DEF IsOpen, HostDescriptor
  <2>2. \A d : HostDescriptor(v, d) \notin closed /\ Second(d) \notin closed
    BY Distinct, HostDescriptorIs
  <2> QED  BY <1>0, <1>1, <2>1, <2>2 DEF Owned
<1> HIDE DEF closed
<1>4. allocated'[v] = Holds(v)' /\ ~stray'
  BY <1>1, <1>2, <1>3, GivenBackOwned
<1>5. <<"return">> # <<"ended">>
  OBVIOUS
<1> QED  BY <1>0, <1>1, <1>4, <1>5 DEF ResourceControl

(* closeGuestFiles gives back every file: nothing is left. *)
LEMMA ReturnOwned ==
    ASSUME Typed, ~stray, NEW v \in VMs, ResourceControl(v), todo[v] = <<"return">>,
           RunGuestReturns(v), todo'[v] = <<"ended">>
    PROVE  ResourceControl(v)' /\ ~stray'
<1>0. ResourceType /\ ~Image(v) /\ ~Image(v)' /\ reopened[v] = {} /\ fields[v] = {}
  <2>1. <<"return">> \in LeavePlans /\ <<"ended">> \in LeavePlans /\ <<"reopen">> \notin LeavePlans
    BY Kinds DEF LeavePlans, RunPlans
  <2> QED  BY <2>1, Kinds DEF Typed, ResourceControl, Image, Has
<1> DEFINE closed == HostDescriptors(v)
<1>1. /\ Release(v, closed) /\ fields' = fields /\ reopened' = reopened
      /\ \A d \in Descriptors : openFiles'[v][d] = "closed"
  BY <1>0 DEF RunGuestReturns, CloseGuestFiles, ResourceType
<1>2. \A r \in closed : Owned(v, r)
  BY DEF Owned, HostDescriptors
<1>3. ASSUME NEW r PROVE Owned(v, r)' <=> Owned(v, r) /\ r \notin closed
  <2>1. \A d \in Descriptors : ~IsOpen(v, d)'
    BY <1>1 DEF IsOpen
  <2> QED  BY <1>0, <1>1, <2>1 DEF Owned, HostDescriptors
<1> HIDE DEF closed
<1>4. allocated'[v] = Holds(v)' /\ ~stray'
  BY <1>1, <1>2, <1>3, GivenBackOwned
<1> QED  BY <1>0, <1>1, <1>4 DEF ResourceControl, IsOpen

(* While the guest runs nothing is half-way. *)
LEMMA RunningOwned ==
    ASSUME NEW v \in VMs, ResourceControl(v), todo[v] = <<>>
    PROVE  reopened[v] = {} /\ ~Image(v)
  BY RunStep DEF ResourceControl, Image, Has

LEMMA OpenOwned ==
    ASSUME Typed, ~stray, NEW v \in VMs, ResourceControl(v), todo[v] = <<>>,
           OpenFile(v), todo'[v] = <<>>
    PROVE  ResourceControl(v)' /\ ~stray'
<1>0. ResourceType /\ reopened[v] = {} /\ ~Image(v) /\ ~Image(v)'
  BY RunningOwned DEF Typed, Image, Has
<1>1. PICK d \in Descriptors, s \in {"local"} \cup SharedNames :
          ~IsOpen(v, d) /\ OpenHostFile(v, d, s)
  BY DEF OpenFile
<1>2. /\ Allocate(v, First(d)) /\ fields' = fields /\ reopened' = reopened /\ stray' = stray
      /\ openFiles'[v][d] = s
      /\ \A e \in Descriptors : e # d => openFiles'[v][e] = openFiles[v][e]
  BY <1>0, <1>1 DEF OpenHostFile, ResourceType
<1>3. ASSUME NEW r PROVE Owned(v, r)' <=> Owned(v, r) \/ r = First(d)
  <2>1. /\ IsOpen(v, d)' /\ HostDescriptor(v, d)' = First(d)
        /\ \A e \in Descriptors : e # d => /\ IsOpen(v, e)' = IsOpen(v, e)
                                           /\ HostDescriptor(v, e)' = HostDescriptor(v, e)
    BY <1>2, NamesAssumption DEF IsOpen, HostDescriptor
  <2> QED  BY <1>0, <1>1, <1>2, <2>1 DEF Owned
<1>4. <<>> \notin {<<"return">>, <<"ended">>}
  OBVIOUS
<1> QED  BY <1>0, <1>2, <1>3, <1>4, TakenOwned

LEMMA CloseOwned ==
    ASSUME Typed, ~stray, NEW v \in VMs, ResourceControl(v), todo[v] = <<>>,
           CloseFile(v), todo'[v] = <<>>
    PROVE  ResourceControl(v)' /\ ~stray'
<1>0. ResourceType /\ reopened[v] = {} /\ ~Image(v) /\ ~Image(v)'
  BY RunningOwned DEF Typed, Image, Has
<1>1. PICK d \in Descriptors : IsOpen(v, d) /\ CloseHostFile(v, d)
  BY DEF CloseFile
<1> DEFINE closed == {HostDescriptor(v, d)}
<1>2. /\ Release(v, closed) /\ fields' = fields /\ reopened' = reopened
      /\ openFiles'[v][d] = "closed"
      /\ \A e \in Descriptors : e # d => openFiles'[v][e] = openFiles[v][e]
  BY <1>0, <1>1 DEF CloseHostFile, ResourceType
<1>3. \A r \in closed : Owned(v, r)
  BY <1>1 DEF Owned
<1>4. ASSUME NEW r PROVE Owned(v, r)' <=> Owned(v, r) /\ r \notin closed
  <2>1. /\ ~IsOpen(v, d)'
        /\ \A e \in Descriptors : e # d => /\ IsOpen(v, e)' = IsOpen(v, e)
                                           /\ HostDescriptor(v, e)' = HostDescriptor(v, e)
    BY <1>2 DEF IsOpen, HostDescriptor
  <2>2. \A e : e # d => HostDescriptor(v, e) # HostDescriptor(v, d)
    BY Distinct, HostDescriptorIs
  <2>3. \A f : <<f>> # HostDescriptor(v, d)
    BY Distinct, HostDescriptorIs
  <2> QED  BY <1>0, <1>1, <1>2, <2>1, <2>2, <2>3 DEF Owned
<1> HIDE DEF closed
<1>5. allocated'[v] = Holds(v)' /\ ~stray'
  BY <1>2, <1>3, <1>4, GivenBackOwned
<1>6. <<>> \notin {<<"return">>, <<"ended">>}
  OBVIOUS
<1> QED  BY <1>0, <1>2, <1>5, <1>6 DEF ResourceControl

(* reopenSharedFiles: one more descriptor, all of them closed again, or    *)
(* all of them in the place of the old ones.                               *)
LEMMA ReopenOwned ==
    ASSUME Typed, ~stray, NEW v \in VMs, ResourceControl(v), todo[v] = <<"reopen">>,
           Reopen(v), todo'[v] \in {<<>>, <<"reopen">>}
    PROVE  ResourceControl(v)' /\ ~stray'
<1>0. /\ ResourceType /\ ~Image(v) /\ ~Image(v)' /\ allocated[v] = Holds(v)
      /\ reopened[v] \subseteq Shared(v) /\ todo \in [VMs -> Plans]
      /\ <<"reopen">> # <<>> /\ Tail(<<"reopen">>) = <<>>
  BY RunStep DEF Typed, ThreadType, ResourceControl, Image, Has
<1>1. todo'[v] \notin {<<"return">>, <<"ended">>}
  <2>1. <<>> \notin {<<"return">>, <<"ended">>} /\ <<"reopen">> \notin {<<"return">>, <<"ended">>}
    OBVIOUS
  <2> QED  BY <2>1
<1>2. ASSUME NEW d \in Copied(v) \ reopened[v], ReopenOne(v, d), UNCHANGED todo
      PROVE  ResourceControl(v)' /\ ~stray'
  <2>1. /\ allocated'[v] = allocated[v] \cup {Second(d)}
        /\ fields' = fields /\ openFiles' = openFiles /\ stray' = stray
        /\ reopened'[v] = reopened[v] \cup {d}
    BY <1>0, <1>2 DEF ReopenOne, Allocate, ResourceType
  <2>2. ASSUME NEW r PROVE Owned(v, r)' <=> Owned(v, r) \/ r = Second(d)
    <3>1. \A e : IsOpen(v, e)' = IsOpen(v, e) /\ HostDescriptor(v, e)' = HostDescriptor(v, e)
      BY <2>1 DEF IsOpen, HostDescriptor
    <3> QED  BY <1>0, <2>1, <3>1 DEF Owned
  <2>3. \A r : r \in Holds(v)' <=> Owned(v, r)'
    BY DEF Holds, Owned, HostDescriptors, Image
  <2>4. \A r : r \in allocated'[v] <=> r \in Holds(v)'
    BY <1>0, <2>1, <2>2, <2>3, HoldsIsOwned
  <2>5. reopened'[v] \subseteq Shared(v)' /\ todo'[v] = <<"reopen">>
    BY <1>0, <1>2, <2>1 DEF Shared, Copied
  <2> QED  BY <1>1, <2>1, <2>4, <2>5 DEF ResourceControl
<1>3. CASE CloseReopenedFiles(v)
  <2> DEFINE closed == Unwound(v)
  <2>1. /\ Release(v, closed) /\ fields' = fields /\ openFiles' = openFiles
        /\ reopened'[v] = {}
    BY <1>0, <1>3 DEF CloseReopenedFiles, ResourceType
  <2>2. \A r \in closed : Owned(v, r)
    BY DEF Owned, Unwound
  <2>3. ASSUME NEW r PROVE Owned(v, r)' <=> Owned(v, r) /\ r \notin closed
    <3>1. \A e : IsOpen(v, e)' = IsOpen(v, e) /\ HostDescriptor(v, e)' = HostDescriptor(v, e)
      BY <2>1 DEF IsOpen, HostDescriptor
    <3>2. \A f : <<f>> \notin closed
      BY Distinct DEF Unwound
    <3>3. \A e \in Descriptors : HostDescriptor(v, e) \notin closed
      BY <1>0, NamesAssumption, Distinct, HostDescriptorIs DEF Unwound, Shared
    <3>4. r \in closed <=> \E d \in reopened[v] : r = Second(d)
      BY DEF Unwound
    <3> HIDE DEF closed
    <3> QED  BY <1>0, <2>1, <3>1, <3>2, <3>3, <3>4 DEF Owned
  <2> HIDE DEF closed
  <2>4. allocated'[v] = Holds(v)' /\ ~stray'
    BY <2>1, <2>2, <2>3, GivenBackOwned
  <2> QED  BY <1>1, <2>1, <2>4 DEF ResourceControl
<1>4. CASE Copied(v) = reopened[v] /\ AdoptReopenedFiles(v)
  <2> DEFINE closed == {First(d) : d \in reopened[v]}
  <2>1. /\ Release(v, closed) /\ fields' = fields /\ reopened'[v] = {}
        /\ \A d \in Descriptors :
              openFiles'[v][d] = IF d \in reopened[v] THEN "copied" ELSE openFiles[v][d]
    BY <1>0, <1>4 DEF AdoptReopenedFiles, ResourceType
  <2>2. \A d \in reopened[v] : d \in Descriptors /\ openFiles[v][d] \in SharedNames
    BY <1>0 DEF Shared
  <2>3. \A r \in closed : Owned(v, r)
    BY <2>2, NamesAssumption, HostDescriptorIs DEF Owned, IsOpen
  <2>4. ASSUME NEW d \in Descriptors
        PROVE  /\ IsOpen(v, d)' = IsOpen(v, d)
               /\ HostDescriptor(v, d)' =
                    IF d \in reopened[v] THEN Second(d) ELSE HostDescriptor(v, d)
               /\ d \in reopened[v] => IsOpen(v, d) /\ HostDescriptor(v, d) = First(d)
    BY <2>1, <2>2, NamesAssumption DEF IsOpen, HostDescriptor
  <2>5. ASSUME NEW r PROVE Owned(v, r)' <=> Owned(v, r) /\ r \notin closed
    <3>1. \A f : <<f>> \notin closed
      BY Distinct
    <3>2. \A d : Second(d) \notin closed
      BY Distinct
    <3>3. \A d \in Descriptors : HostDescriptor(v, d) \in closed <=> d \in reopened[v]
      BY <2>4, Distinct, HostDescriptorIs
    <3> HIDE DEF closed
    <3>4. ASSUME Owned(v, r)' PROVE Owned(v, r) /\ r \notin closed
      BY <1>0, <2>1, <2>2, <2>4, <3>1, <3>2, <3>3, <3>4 DEF Owned
    <3>5. ASSUME Owned(v, r), r \notin closed PROVE Owned(v, r)'
      BY <1>0, <2>1, <2>2, <2>4, <3>3, <3>5 DEF Owned
    <3> QED  BY <3>4, <3>5
  <2> HIDE DEF closed
  <2>6. allocated'[v] = Holds(v)' /\ ~stray'
    BY <2>1, <2>3, <2>5, GivenBackOwned
  <2> QED  BY <1>1, <2>1, <2>6 DEF ResourceControl
<1> QED  BY <1>2, <1>3, <1>4 DEF Reopen

(* Every step of a thread keeps what it holds. *)
LEMMA OwnedStep ==
    ASSUME Typed, ~stray, NEW v \in VMs, ResourceControl(v), Step(v)
    PROVE  ResourceControl(v)' /\ ~stray'
<1>0. ThreadType /\ todo[v] \in Plans /\ \A u \in VMs : MessageControl(u)
  BY DEF Typed, ThreadType
<1>1. CASE SetUpSucceeds(v) /\ todo[v] \in SetUpPlans
  BY <1>1, SetUpSucceedsOwned
<1>2. CASE SetUpFails(v) /\ todo[v] \in SetUpPlans
  BY <1>2, SetUpFailsOwned
<1>3. CASE VmDestroy(v) /\ todo[v] \in LeavePlans /\ todo'[v] = <<"return">>
  BY <1>3, DestroyOwned
<1>4. CASE RunGuestReturns(v) /\ todo[v] = <<"return">> /\ todo'[v] = <<"ended">>
  BY <1>4, ReturnOwned
<1>5. CASE OpenFile(v) /\ todo[v] = <<>> /\ todo'[v] = <<>>
  BY <1>5, OpenOwned
<1>6. CASE CloseFile(v) /\ todo[v] = <<>> /\ todo'[v] = <<>>
  BY <1>6, CloseOwned
<1>7. CASE Reopen(v) /\ todo[v] = <<"reopen">> /\ todo'[v] \in {<<>>, <<"reopen">>}
  BY <1>7, ReopenOwned
<1>8. CASE StartMessage(v) /\ todo'[v] = todo[v] /\ (Has(v, "flush") \/ Has(v, "cout") \/ Has(v, "cerr"))
  <2>1. UNCHANGED resourceVars
    BY <1>8 DEF StartMessage
  <2>2. Image(v)' <=> Image(v)
    BY <1>8 DEF Image, Has
  <2>3. todo[v] \notin {<<"return">>, <<"ended">>, <<"reopen">>}
    <3>1. /\ Head(<<"return">>) = "return" /\ Head(<<"ended">>) = "ended"
          /\ Head(<<"reopen">>) = "reopen"
      OBVIOUS
    <3> QED  BY <1>8, <3>1 DEF Has
  <2> QED  BY <1>8, <2>1, <2>2, <2>3, ResourceFrame DEF ResourceControl, resourceVars
<1>9. CASE /\ UNCHANGED <<allocated, fields, openFiles, reopened, stray>>
           /\ todo[v] \in FlushPlans \cup LeavePlans \cup {<<>>, <<"input">>}
           /\ todo'[v] \in FlushPlans \cup {Leave(s) : s \in Streams}
                  \cup {<<>>, <<"input">>, <<"reopen">>, <<"vm_destroy", "return">>}
  <2>1. /\ {Leave(s) : s \in Streams} \subseteq LeavePlans /\ <<>> \in RunPlans
        /\ <<"reopen">> \in RunPlans /\ <<"vm_destroy", "return">> \in LeavePlans
        /\ <<"return">> \in LeavePlans /\ <<"ended">> \in LeavePlans
    BY DEF LeavePlans, RunPlans
  <2>2. ~Image(v) /\ ~Image(v)'
    BY <1>9, <2>1, Kinds DEF Image, Has
  <2>3. todo[v] # <<"reopen">>
    BY <1>9, <2>1, Kinds, RunStep
  <2>4. todo'[v] \notin {<<"return">>, <<"ended">>}
    <3>1. \A s \in Streams : Head(Leave(s)) = s
      BY LeaveFacts
    <3>2. /\ Head(<<"return">>) = "return" /\ Head(<<"ended">>) = "ended"
          /\ Head(<<"vm_destroy", "return">>) = "vm_destroy"
      OBVIOUS
    <3>3. \A s \in Streams : Leave(s) \notin {<<"return">>, <<"ended">>}
      BY <3>1, <3>2 DEF Streams
    <3>4. <<"vm_destroy", "return">> \notin {<<"return">>, <<"ended">>}
      BY <3>2
    <3> QED  BY <1>9, <2>1, <3>3, <3>4, Kinds
  <2> QED  BY <1>9, <2>2, <2>3, <2>4, ResourceFrame DEF ResourceControl
<1>11. /\ <<"flush">> \in FlushPlans /\ InputSteps \in FlushPlans /\ "cerr" \in Streams
  BY EndPlans DEF Streams
<1>12. \/ SetUpSucceeds(v) /\ todo[v] \in SetUpPlans
       \/ SetUpFails(v) /\ todo[v] \in SetUpPlans
       \/ VmDestroy(v) /\ todo[v] \in LeavePlans /\ todo'[v] = <<"return">>
       \/ RunGuestReturns(v) /\ todo[v] = <<"return">> /\ todo'[v] = <<"ended">>
       \/ OpenFile(v) /\ todo[v] = <<>> /\ todo'[v] = <<>>
       \/ CloseFile(v) /\ todo[v] = <<>> /\ todo'[v] = <<>>
       \/ Reopen(v) /\ todo[v] = <<"reopen">> /\ todo'[v] \in {<<>>, <<"reopen">>}
       \/ /\ StartMessage(v) /\ todo'[v] = todo[v]
          /\ Has(v, "flush") \/ Has(v, "cout") \/ Has(v, "cerr")
       \/ /\ FinishMessage(v) \/ FlushNothing(v) \/ WaitForInput(v) \/ Unlock(v)
             \/ SerialOut(v) \/ SerialIn(v) \/ WriteShared(v) \/ Halts(v) \/ AccessRefused(v)
             \/ KvmFails(v) \/ InputArrives(v) \/ InputFails(v)
          /\ todo[v] \in FlushPlans \cup LeavePlans \cup {<<>>, <<"input">>}
          /\ todo'[v] \in FlushPlans \cup {Leave(s) : s \in Streams}
                  \cup {<<>>, <<"input">>, <<"reopen">>, <<"vm_destroy", "return">>}
  BY <1>0, <1>11, Moves
<1>13. FinishMessage(v) \/ FlushNothing(v) \/ WaitForInput(v) \/ Unlock(v)
          \/ SerialOut(v) \/ SerialIn(v) \/ WriteShared(v) \/ Halts(v) \/ AccessRefused(v)
          \/ KvmFails(v) \/ InputArrives(v) \/ InputFails(v)
        => UNCHANGED <<allocated, fields, openFiles, reopened, stray>>
  BY DEF FinishMessage, FlushNothing, WaitForInput, Unlock, SerialOut, SerialIn, WriteShared,
     BeginCopy, Halts, AccessRefused, KvmFails, Stop, InputArrives, InputFails, resourceVars
<1> QED
  BY <1>1, <1>2, <1>3, <1>4, <1>5, <1>6, <1>7, <1>8, <1>9, <1>12, <1>13

LEMMA OwnedNext ==
    Typed /\ ~stray /\ (\A v \in VMs : ResourceControl(v)) /\ [Next]_vars
        => ~stray' /\ \A v \in VMs : ResourceControl(v)'
<1> SUFFICES ASSUME Typed, ~stray, \A v \in VMs : ResourceControl(v), [Next]_vars
             PROVE  ~stray' /\ \A v \in VMs : ResourceControl(v)'
  OBVIOUS
<1>1. ASSUME NEW v \in VMs, Step(v) PROVE ~stray' /\ \A w \in VMs : ResourceControl(w)'
  <2>1. ResourceControl(v)' /\ ~stray'
    BY <1>1, OwnedStep
  <2>2. ASSUME NEW w \in VMs \ {v} PROVE ResourceControl(w)'
    <3>1. ResourceType /\ ThreadType /\ \A u \in VMs : MessageControl(u)
      BY DEF Typed
    <3>2. /\ allocated'[w] = allocated[w] /\ fields'[w] = fields[w]
          /\ openFiles'[w] = openFiles[w] /\ reopened'[w] = reopened[w]
      BY <1>1, <3>1, StepResources
    <3>3. todo'[w] = todo[w]
      <4>1. todo' = [todo EXCEPT ![v] = todo'[v]] /\ todo \in [VMs -> Plans]
        BY <1>1, <3>1, Moves DEF ThreadType
      <4> QED  BY <4>1
    <3>4. Holds(w)' = Holds(w)
      <4>1. HostDescriptors(w)' = HostDescriptors(w)
        BY <3>2 DEF HostDescriptors, HostDescriptor, IsOpen
      <4> QED  BY <3>2, <3>3, <4>1 DEF Holds, Has
    <3>5. Shared(w)' = Shared(w) /\ \A d : IsOpen(w, d)' = IsOpen(w, d)
      BY <3>2 DEF Shared, IsOpen
    <3> QED  BY <3>2, <3>3, <3>4, <3>5 DEF ResourceControl
  <2> QED  BY <2>1, <2>2
<1>2. CASE UNCHANGED <<resourceVars, todo>>
  <2>1. UNCHANGED <<allocated, fields, openFiles, reopened, stray, todo>>
    BY <1>2 DEF resourceVars
  <2>2. ASSUME NEW w \in VMs PROVE ResourceControl(w)'
    <3>1. /\ HostDescriptors(w)' = HostDescriptors(w) /\ Shared(w)' = Shared(w)
          /\ \A d : IsOpen(w, d)' = IsOpen(w, d)
      BY <2>1 DEF HostDescriptors, HostDescriptor, IsOpen, Shared
    <3>2. Holds(w)' = Holds(w)
      BY <2>1, <3>1 DEF Holds, Has
    <3> QED  BY <2>1, <3>1, <3>2 DEF ResourceControl
  <2> QED  BY <2>1, <2>2
<1> QED  BY <1>1, <1>2 DEF Next, Step, Terminated, MainFails, vars, resourceVars

(* All parts of the invariant hold together. *)
THEOREM InvariantHolds == Spec => []IInv
<1> DEFINE AllOwned == ~stray /\ \A v \in VMs : ResourceControl(v)
<1>1. Init => AllOwned
  <2> SUFFICES ASSUME Init PROVE AllOwned
    OBVIOUS
  <2>1. ~stray
    BY DEF Init, ResourceInit
  <2>2. ASSUME NEW v \in VMs PROVE ResourceControl(v)
    <3>1. /\ allocated[v] = {} /\ fields[v] = {} /\ reopened[v] = {} /\ todo[v] = SetUp
          /\ \A d \in Descriptors : ~IsOpen(v, d)
      BY DEF Init, ResourceInit, IsOpen
    <3>2. SetUp # <<>> /\ Head(SetUp) = "kvm_fd"
      <4>1. SetUp \in Seq(SetUpSteps) /\ Len(SetUp) = 13
        BY SetUpSequence
      <4>2. SubSeq(SetUp, 1, Len(SetUp)) = SetUp
        BY <4>1, SubSeqFull
      <4>3. 1 \in 1..Len(SetUp)
        BY <4>1
      <4>4. SetUp # <<>> /\ Head(SetUp) = SetUp[1]
        BY <4>1, <4>2, <4>3, Suffix
      <4> QED  BY <4>4, SetUpNames
    <3>3. SetUp \notin {<<"return">>, <<"ended">>, <<"reopen">>}
      <4>1. /\ Head(<<"return">>) = "return" /\ Head(<<"ended">>) = "ended"
            /\ Head(<<"reopen">>) = "reopen"
        OBVIOUS
      <4> QED  BY <3>2, <4>1
    <3>4. Holds(v) = {}
      BY <3>1, <3>2 DEF Holds, HostDescriptors, Has
    <3> QED  BY <3>1, <3>3, <3>4 DEF ResourceControl
  <2> QED  BY <2>1, <2>2
<1>2. Typed /\ AllOwned /\ [Next]_vars => AllOwned'
  BY OwnedNext
<1>3. Typed /\ AllOwned /\ (\A v \in VMs : IntruderControl(v)) /\ (\A v \in VMs : LineControl(v))
        => IInv
  BY DEF IInv
<1> QED  BY <1>1, <1>2, <1>3, AlwaysTyped, AlwaysIntruders, AlwaysLines, PTL DEF Spec

(* Whatever fails, on any number of threads, the kernel keeps for a VM     *)
(* exactly the descriptors and mappings the program remembers, none is     *)
(* closed twice, and a thread that has ended holds nothing.                *)
THEOREM NoHandleIsLost == Spec => []HandlesOwned
<1>1. IInv => HandlesOwned
  <2> SUFFICES ASSUME IInv PROVE HandlesOwned
    OBVIOUS
  <2>1. ~stray /\ \A v \in VMs : ResourceControl(v)
    BY DEF IInv
  <2>2. ASSUME NEW v \in VMs, Ended(v) PROVE Holds(v) = {}
    <3>1. /\ <<"ended">> # <<"reopen">> /\ <<"ended">> # <<>>
          /\ Head(<<"ended">>) = "ended"
      OBVIOUS
    <3>2. /\ fields[v] = {} /\ reopened[v] = {} /\ HostDescriptors(v) = {}
          /\ ~Has(v, "read image")
      BY <2>1, <2>2, <3>1 DEF ResourceControl, Ended, HostDescriptors, Has
    <3> QED  BY <3>2 DEF Holds
  <2>3. ASSUME NEW v \in VMs
        PROVE  allocated[v] = Holds(v) /\ (Ended(v) => allocated[v] = {})
    BY <2>1, <2>2 DEF ResourceControl
  <2> QED  BY <2>1, <2>3 DEF HandlesOwned, Holds
<1> QED  BY <1>1, InvariantHolds, PTL
=============================================================================
