------------------------------ MODULE FileIOProofs ------------------------------
(***************************************************************************)
(* Proofs about FileIO, for any number of VMs, files, descriptors and      *)
(* bytes.  Every request is first reduced to what it does to the files and *)
(* to the descriptor table of its VM (Effect); each invariant is then      *)
(* shown to survive the five effects there are.                            *)
(***************************************************************************)
EXTENDS FileIO, SequenceTheorems, TLAPS

(* The state as functions: every table maps descriptors below the next one *)
(* to entries, whose file exists.                                          *)
IsTable(t) == DOMAIN t \subseteq Nat /\ t \in [DOMAIN t -> OpenFileType]
FilesTyped ==
    /\ DOMAIN dir \subseteq Paths /\ dir \in [DOMAIN dir -> DOMAIN contents]
    /\ DOMAIN contents \subseteq FileIds /\ contents \in [DOMAIN contents -> Seq(Byte)]
TablesTyped ==
    /\ openFiles = [v \in VMs |-> openFiles[v]]
    /\ \A v \in VMs :
        /\ IsTable(openFiles[v])
        /\ \A d \in DOMAIN openFiles[v] :
                d < nextDescriptor[v] /\ openFiles[v][d].file \in DOMAIN contents
Answers == [VMs -> [result : Int, data : Seq(Byte)]]
Typed ==
    /\ FilesTyped /\ TablesTyped
    /\ nextDescriptor \in [VMs -> Nat]
    /\ answer \in Answers
    /\ ended \subseteq VMs

(* Where -f takes originals from: outside the directories of the VMs. *)
OriginalsOutside == \A n \in DOMAIN SharedFiles : SharedFiles[n][1] \notin VMs

(* Files have one name each. *)
Distinct == \A p, q \in DOMAIN dir : dir[p] = dir[q] => p = q

(* A shared descriptor reads the original of its name.  A descriptor of a  *)
(* private file has that file to its VM: nobody else has it open, and it   *)
(* is in no directory but the VM's.                                        *)
SharedEntry(directory, o) ==
    /\ o.name \in DOMAIN SharedFiles /\ o.hostPath = SharedFiles[o.name]
    /\ o.file = directory[o.hostPath] /\ o.mode = "O_RDONLY"
OwnEntry(directory, v, o) ==
    \A p \in DOMAIN directory : directory[p] = o.file => p[1] = v
EntriesOf(directory, v, t) ==
    \A d \in DOMAIN t : IF t[d].shared THEN SharedEntry(directory, t[d])
                       ELSE OwnEntry(directory, v, t[d])
Entries == \A v \in VMs : EntriesOf(dir, v, openFiles[v])
Apart ==
    \A v, u \in VMs : v # u =>
        \A d \in DOMAIN openFiles[v], e \in DOMAIN openFiles[u] :
            ~openFiles[v][d].shared => openFiles[u][e].file # openFiles[v][d].file
Separated == OriginalsUntouched /\ Distinct /\ Entries /\ Apart
---------------------------------------------------------------------------
(* Maps, and sequences of bytes.                                           *)

(* A map with one more entry. *)
LEMMA WithMap ==
    ASSUME NEW f, NEW x, NEW y
    PROVE  /\ DOMAIN With(f, x, y) = DOMAIN f \cup {x}
           /\ With(f, x, y)[x] = y
           /\ \A z \in DOMAIN f : z # x => With(f, x, y)[z] = f[z]
BY DEF With
LEMMA WithType ==
    ASSUME NEW S, NEW f, f \in [DOMAIN f -> S], NEW x, NEW y \in S
    PROVE  With(f, x, y) \in [DOMAIN f \cup {x} -> S]
BY DEF With

(* A map without one of its entries. *)
LEMMA WithoutMap ==
    ASSUME NEW f, NEW x
    PROVE  /\ DOMAIN Without(f, x) = DOMAIN f \ {x}
           /\ \A z \in DOMAIN f : z # x => Without(f, x)[z] = f[z]
BY DEF Without
LEMMA WithoutType ==
    ASSUME NEW S, NEW f, f \in [DOMAIN f -> S], NEW x
    PROVE  Without(f, x) \in [DOMAIN f \ {x} -> S]
BY DEF Without

(* An interval has one upper bound. *)
LEMMA SameInterval ==
    ASSUME NEW j \in Nat, NEW k \in Nat, 1..j = 1..k
    PROVE  j = k
<1>1. (k > 0 => k \in 1..j) /\ (j > 0 => j \in 1..k)
  OBVIOUS
<1> QED  BY <1>1

(* Blocks are sequences. *)
LEMMA BlockIsSeq ==
    ASSUME NEW n \in Nat, NEW b \in Blocks(Byte, n)
    PROVE  b \in Seq(Byte) /\ Len(b) \in 0..n
<1>1. PICK k \in 0..n : b \in [1..k -> Byte]
  BY DEF Blocks
<1>2. k \in Nat
  OBVIOUS
<1>3. b \in Seq(Byte)
  BY <1>1, <1>2
<1>4. Len(b) \in Nat /\ DOMAIN b = 1..Len(b)
  BY <1>3, LenProperties
<1>5. 1..Len(b) = 1..k
  BY <1>1, <1>4
<1>6. Len(b) = k
  BY <1>2, <1>4, <1>5, SameInterval
<1> QED  BY <1>3, <1>6

(* What a write leaves in a file. *)
LEMMA OverlayIsSeq ==
    ASSUME NEW s \in Seq(Byte), NEW offset \in Nat, NEW data \in Seq(Byte)
    PROVE  /\ Overlay(s, offset, data) \in Seq(Byte)
           /\ Len(Overlay(s, offset, data)) = Larger(Len(s), offset + Len(data))
<1> DEFINE m == Larger(Len(s), offset + Len(data))
           Value(i) == IF i \in (offset + 1)..(offset + Len(data)) THEN data[i - offset]
                       ELSE IF i <= Len(s) THEN s[i] ELSE 0
<1>1. Len(s) \in Nat /\ Len(data) \in Nat
  OBVIOUS
<1>2. m \in Nat
  BY <1>1 DEF Larger
<1>3. ASSUME NEW i \in 1..m PROVE Value(i) \in Byte
  <2>1. CASE i \in (offset + 1)..(offset + Len(data))
    <3>1. i - offset \in 1..Len(data)
      BY <1>1, <1>2, <2>1
    <3> QED  BY <2>1, <3>1, ElementOfSeq
  <2>2. CASE i \notin (offset + 1)..(offset + Len(data)) /\ i <= Len(s)
    <3>1. i \in 1..Len(s)
      BY <1>1, <1>2, <2>2
    <3> QED  BY <2>2, <3>1, ElementOfSeq
  <2>3. CASE i \notin (offset + 1)..(offset + Len(data)) /\ ~(i <= Len(s))
    BY <2>3, FilesAssumption
  <2> QED  BY <2>1, <2>2, <2>3
<1>4. Overlay(s, offset, data) = [i \in 1..m |-> Value(i)]
  BY DEF Overlay
<1> HIDE DEF m, Value
<1>5. [i \in 1..m |-> Value(i)] \in [1..m -> Byte]
  BY <1>3
<1>6. [i \in 1..m |-> Value(i)] \in Seq(Byte) /\ Len([i \in 1..m |-> Value(i)]) = m
  BY <1>2, <1>3, IsASeq
<1> QED  BY <1>4, <1>6 DEF m

(* What a read returns. *)
LEMMA SliceIsSeq ==
    ASSUME NEW s \in Seq(Byte), NEW offset \in Nat, NEW count \in Nat
    PROVE  /\ Slice(s, offset, count) \in Seq(Byte)
           /\ offset + Len(Slice(s, offset, count)) <= Larger(offset, Len(s))
<1> DEFINE n == Smaller(offset + count, Len(s))
<1>1. Len(s) \in Nat
  OBVIOUS
<1>2. n \in Nat /\ n <= Len(s)
  BY <1>1 DEF Smaller
<1>3. Slice(s, offset, count) = SubSeq(s, offset + 1, n)
  BY DEF Slice
<1>4. CASE offset + 1 <= n
  <2>1. SubSeq(s, offset + 1, n) \in Seq(Byte) /\ Len(SubSeq(s, offset + 1, n)) = n - offset
    BY <1>1, <1>2, <1>4, SubSeqProperties
  <2> QED  BY <1>1, <1>2, <1>3, <1>4, <2>1 DEF Larger
<1>5. CASE ~(offset + 1 <= n)
  <2>1. SubSeq(s, offset + 1, n) = <<>>
    BY <1>1, <1>2, <1>5, SubSeqEmpty
  <2>2. Len(SubSeq(s, offset + 1, n)) = 0 /\ SubSeq(s, offset + 1, n) \in Seq(Byte)
    BY <2>1, EmptySeq
  <2> QED  BY <1>1, <1>2, <1>3, <2>2 DEF Larger
<1> QED  BY <1>4, <1>5
---------------------------------------------------------------------------
(* What a step does to the files and to the table of its VM.               *)

(* An entry that differs in its offset at most, and a table of such        *)
(* entries, some of which may have been closed.                            *)
SameEntry(o, p) ==
    /\ p \in OpenFileType
    /\ p.name = o.name /\ p.flags = o.flags /\ p.hostPath = o.hostPath
    /\ p.shared = o.shared /\ p.file = o.file /\ p.mode = o.mode
SameTable(t, u) ==
    /\ IsTable(u) /\ DOMAIN u \subseteq DOMAIN t
    /\ \A d \in DOMAIN u : SameEntry(t[d], u[d])

(* Only v's table changes. *)
Only(v) == openFiles' = [openFiles EXCEPT ![v] = openFiles'[v]]

(* A request that leaves all files as they are. *)
Keeps(v) ==
    /\ UNCHANGED <<dir, contents, nextDescriptor>>
    /\ SameTable(openFiles[v], openFiles'[v])

(* openFile succeeds. *)
NewEntry(name, flags, resolved, id) ==
    [name |-> name, flags |-> flags, hostPath |-> resolved.path,
     shared |-> resolved.shared, file |-> id, offset |-> 0,
     mode |-> IF resolved.shared THEN "O_RDONLY" ELSE toHostOpenFlags(flags)]
Finds(resolved, id) ==
    /\ resolved.path \in DOMAIN dir /\ id = dir[resolved.path]
    /\ UNCHANGED <<dir, contents>>
Creates(resolved, id) ==
    /\ resolved.path \notin DOMAIN dir /\ ~resolved.shared /\ id \in NewFiles
    /\ dir' = With(dir, resolved.path, id)
    /\ contents' = With(contents, id, <<>>)
OpensAs(v, name, flags) ==
    \E resolved \in Resolutions(v, name), id \in FileIds :
        /\ Finds(resolved, id) \/ Creates(resolved, id)
        /\ openFiles'[v] = With(openFiles[v], nextDescriptor[v],
                                NewEntry(name, flags, resolved, id))
        /\ nextDescriptor' = [nextDescriptor EXCEPT ![v] = @ + 1]
Opens(v) == \E name \in Names, flags \in FlagSets : OpensAs(v, name, flags)

(* Files are no longer than MaxSize. *)
Bounded == \A f \in DOMAIN contents : Len(contents[f]) <= MaxSize

(* writeFile on a descriptor of a private file. *)
Writes(v) ==
    \E d \in DOMAIN openFiles[v], new \in Seq(Byte) :
        /\ ~openFiles[v][d].shared
        /\ Bounded => Len(new) <= MaxSize
        /\ contents' = [contents EXCEPT ![openFiles[v][d].file] = new]
        /\ SameTable(openFiles[v], openFiles'[v])
        /\ UNCHANGED <<dir, nextDescriptor>>

(* The first write to a shared file, when the copy succeeds, and when not. *)
Copies(v) ==
    \E d \in DOMAIN openFiles[v], copy \in NewFiles, new \in Seq(Byte) :
        /\ openFiles[v][d].shared
        /\ Bounded => Len(new) <= MaxSize
        /\ openFiles[v][d].hostPath \in DOMAIN dir
        /\ Local(v, openFiles[v][d].name) \notin DOMAIN dir
        /\ dir' = With(dir, Local(v, openFiles[v][d].name), copy)
        /\ contents' = With(contents, copy, new)
        /\ SameTable(reopenSharedFiles(v, openFiles[v][d].name, copy), openFiles'[v])
        /\ UNCHANGED nextDescriptor
Fails(v) ==
    /\ \E d \in DOMAIN openFiles[v] :
            openFiles[v][d].shared /\ PrepareFails(v, openFiles[v][d])
    /\ UNCHANGED <<openFiles, nextDescriptor>>

Effect(v) ==
    /\ Only(v) /\ answer' \in Answers
    /\ Keeps(v) \/ Opens(v) \/ Writes(v) \/ Copies(v) \/ Fails(v)

(* The table of one VM is replaced. *)
LEMMA OneTable ==
    ASSUME openFiles = [v \in VMs |-> openFiles[v]], NEW v \in VMs, NEW t,
           openFiles' = [openFiles EXCEPT ![v] = t]
    PROVE  Only(v) /\ openFiles'[v] = t
BY DEF Only

(* Nothing happens to a table that is left alone. *)
LEMMA NoTable ==
    ASSUME TablesTyped, NEW v \in VMs, openFiles' = openFiles
    PROVE  Only(v) /\ SameTable(openFiles[v], openFiles'[v])
<1>1. openFiles = [w \in VMs |-> openFiles[w]] /\ IsTable(openFiles[v])
  BY DEF TablesTyped
<1>2. Only(v)
  BY <1>1 DEF Only
<1>3. SameTable(openFiles[v], openFiles[v])
  BY <1>1 DEF SameTable, SameEntry, IsTable
<1> QED  BY <1>2, <1>3

(* One descriptor is moved to another offset. *)
LEMMA MoveEntry ==
    ASSUME NEW t, IsTable(t), NEW d \in DOMAIN t, NEW position \in Nat
    PROVE  /\ SameTable(t, [t EXCEPT ![d].offset = position])
           /\ DOMAIN [t EXCEPT ![d].offset = position] = DOMAIN t
           /\ [t EXCEPT ![d].offset = position][d].offset = position
           /\ \A e \in DOMAIN t : e # d => [t EXCEPT ![d].offset = position][e] = t[e]
<1> DEFINE p == [t[d] EXCEPT !.offset = position]
           u == [t EXCEPT ![d] = p]
<1>1. [t EXCEPT ![d].offset = position] = u
  OBVIOUS
<1>2. t[d] \in OpenFileType
  BY DEF IsTable
<1>3. SameEntry(t[d], p) /\ p.offset = position
  BY <1>2 DEF SameEntry, OpenFileType
<1> HIDE DEF p
<1>4. DOMAIN u = DOMAIN t /\ u[d] = p /\ \A e \in DOMAIN t : e # d => u[e] = t[e]
  BY DEF IsTable
<1>5. \A e \in DOMAIN t : SameEntry(t[e], t[e])
  BY DEF IsTable, SameEntry
<1>6. \A e \in DOMAIN t : SameEntry(t[e], u[e])
  BY <1>3, <1>4, <1>5
<1>7. u = [e \in DOMAIN t |-> u[e]]
  BY DEF IsTable
<1>8. IsTable(u)
  BY <1>4, <1>6, <1>7 DEF IsTable, SameEntry
<1> QED  BY <1>1, <1>3, <1>4, <1>6, <1>8 DEF SameTable

(* An answer has the type of an answer. *)
LEMMA AnswerType ==
    ASSUME answer \in Answers, NEW v \in VMs, NEW result \in Int, NEW data \in Seq(Byte),
           Answer(v, result, data)
    PROVE  answer' \in Answers
BY DEF Answer, Answers

(* A refused request. *)
LEMMA RejectEffect ==
    ASSUME Typed, NEW v \in VMs, Reject(v)
    PROVE  Effect(v)
<1>1. <<>> \in Seq(Byte) /\ -1 \in Int
  OBVIOUS
<1>2. answer' \in Answers
  BY <1>1, AnswerType DEF Typed, Reject
<1>3. Keeps(v) /\ Only(v)
  BY NoTable DEF Typed, Reject, Keeps
<1> QED  BY <1>2, <1>3 DEF Effect

LEMMA OpenEffect ==
    ASSUME Typed, NEW v \in VMs, NEW name \in Names, NEW flags \in FlagSets,
           OpenFile(v, name, flags)
    PROVE  Effect(v)
<1>1. CASE Reject(v)
  BY <1>1, RejectEffect
<1>2. ASSUME NEW resolved \in Resolutions(v, name), NEW id \in FileIds,
             Finds(resolved, id) \/ Creates(resolved, id),
             Enter(v, name, flags, resolved, id)
      PROVE  Effect(v)
  <2>1. openFiles' = [openFiles EXCEPT ![v] =
                        With(openFiles[v], nextDescriptor[v], NewEntry(name, flags, resolved, id))]
    BY <1>2 DEF Enter, NewEntry
  <2>2. /\ Only(v)
        /\ openFiles'[v] = With(openFiles[v], nextDescriptor[v],
                                NewEntry(name, flags, resolved, id))
    BY <2>1, OneTable DEF Typed, TablesTyped
  <2>3. nextDescriptor[v] \in Int /\ <<>> \in Seq(Byte)
    BY DEF Typed
  <2>4. answer' \in Answers
    BY <1>2, <2>3, AnswerType DEF Enter, Typed
  <2>5. Opens(v)
    BY <1>2, <2>2 DEF Opens, OpensAs, Enter
  <2> QED  BY <2>2, <2>4, <2>5 DEF Effect
<1>3. ASSUME NEW resolved \in Resolutions(v, name), resolved.path \in DOMAIN dir,
             Enter(v, name, flags, resolved, dir[resolved.path]), UNCHANGED <<dir, contents>>
      PROVE  Effect(v)
  <2>1. dir[resolved.path] \in FileIds
    BY <1>3 DEF Typed, FilesTyped
  <2> QED  BY <1>2, <1>3, <2>1 DEF Finds
<1>4. ASSUME NEW resolved \in Resolutions(v, name), resolved.path \notin DOMAIN dir,
             ~resolved.shared, NEW id \in NewFiles,
             dir' = With(dir, resolved.path, id), contents' = With(contents, id, <<>>),
             Enter(v, name, flags, resolved, id)
      PROVE  Effect(v)
  BY <1>2, <1>4 DEF Creates, NewFiles
<1> QED  BY <1>1, <1>3, <1>4 DEF OpenFile

LEMMA CloseEffect ==
    ASSUME Typed, NEW v \in VMs, NEW d, CloseFile(v, d)
    PROVE  Effect(v)
<1>1. CASE Reject(v)
  BY <1>1, RejectEffect
<1>2. CASE /\ IsOpen(v, d)
           /\ openFiles' = [openFiles EXCEPT ![v] = Without(@, d)]
           /\ \E result \in {0, -1} : Answer(v, result, <<>>)
           /\ UNCHANGED <<dir, contents, nextDescriptor>>
  <2>1. Only(v) /\ openFiles'[v] = Without(openFiles[v], d)
    BY <1>2, OneTable DEF Typed, TablesTyped
  <2>2. \A e \in DOMAIN openFiles[v] : SameEntry(openFiles[v][e], openFiles[v][e])
    BY DEF Typed, TablesTyped, IsTable, SameEntry
  <2>3. SameTable(openFiles[v], Without(openFiles[v], d))
    <3>1. /\ IsTable(openFiles[v])
          /\ openFiles[v] \in [DOMAIN openFiles[v] -> OpenFileType]
      BY DEF Typed, TablesTyped, IsTable
    <3>2. /\ DOMAIN Without(openFiles[v], d) = DOMAIN openFiles[v] \ {d}
          /\ \A e \in DOMAIN openFiles[v] : e # d => Without(openFiles[v], d)[e] = openFiles[v][e]
          /\ Without(openFiles[v], d) \in [DOMAIN openFiles[v] \ {d} -> OpenFileType]
      BY <3>1, WithoutMap, WithoutType
    <3>3. IsTable(Without(openFiles[v], d))
      BY <3>1, <3>2 DEF IsTable
    <3> QED  BY <2>2, <3>2, <3>3 DEF SameTable
  <2>4. <<>> \in Seq(Byte) /\ {0, -1} \subseteq Int
    OBVIOUS
  <2>5. answer' \in Answers
    BY <1>2, <2>4, AnswerType DEF Typed
  <2> QED  BY <1>2, <2>1, <2>3, <2>5 DEF Keeps, Effect
<1> QED  BY <1>1, <1>2 DEF CloseFile

(* A descriptor moves, nothing else does. *)
LEMMA MoveEffect ==
    ASSUME Typed, NEW v \in VMs, NEW d \in DOMAIN openFiles[v], NEW position \in Nat,
           openFiles' = [openFiles EXCEPT ![v][d].offset = position],
           UNCHANGED <<dir, contents, nextDescriptor>>
    PROVE  Only(v) /\ Keeps(v)
<1>1. openFiles' = [openFiles EXCEPT ![v] = [openFiles[v] EXCEPT ![d].offset = position]]
  OBVIOUS
<1>2. Only(v) /\ openFiles'[v] = [openFiles[v] EXCEPT ![d].offset = position]
  BY <1>1, OneTable DEF Typed, TablesTyped
<1>3. SameTable(openFiles[v], [openFiles[v] EXCEPT ![d].offset = position])
  BY MoveEntry DEF Typed, TablesTyped
<1> QED  BY <1>2, <1>3 DEF Keeps

(* The entry of an open descriptor. *)
LEMMA EntryType ==
    ASSUME Typed, NEW v \in VMs, NEW d \in DOMAIN openFiles[v]
    PROVE  /\ openFiles[v][d] \in OpenFileType
           /\ openFiles[v][d].offset \in Nat
           /\ openFiles[v][d].file \in DOMAIN contents
           /\ contents[openFiles[v][d].file] \in Seq(Byte)
           /\ openFiles[v][d].hostPath \in DOMAIN dir =>
                contents[dir[openFiles[v][d].hostPath]] \in Seq(Byte)
           /\ Local(v, openFiles[v][d].name) \in Paths
<1>1. openFiles[v][d] \in OpenFileType /\ openFiles[v][d].file \in DOMAIN contents
  BY DEF Typed, TablesTyped, IsTable
<1>2. openFiles[v][d].offset \in Nat /\ openFiles[v][d].name \in Names
  BY <1>1 DEF OpenFileType
<1>3. contents \in [DOMAIN contents -> Seq(Byte)] /\ dir \in [DOMAIN dir -> DOMAIN contents]
  BY DEF Typed, FilesTyped
<1> QED  BY <1>1, <1>2, <1>3 DEF Local, Paths

LEMMA ReadEffect ==
    ASSUME Typed, NEW v \in VMs, NEW d, NEW count \in Int, NEW inside,
           ReadFile(v, d, count, inside)
    PROVE  Effect(v)
<1> DEFINE data == Slice(contents[openFiles[v][d].file], openFiles[v][d].offset, count)
<1>1. CASE Reject(v)
  BY <1>1, RejectEffect
<1>2. CASE /\ MayReadFile(v, d, count)
           /\ Answer(v, Len(data), data)
           /\ openFiles' = [openFiles EXCEPT ![v][d].offset = @ + Len(data)]
           /\ UNCHANGED <<dir, contents, nextDescriptor>>
  <2>1. d \in DOMAIN openFiles[v] /\ count \in Nat
    BY <1>2 DEF MayReadFile, IsOpen
  <2>2. data \in Seq(Byte)
    BY <2>1, EntryType, SliceIsSeq
  <2> HIDE DEF data
  <2>3. Len(data) \in Nat /\ Len(data) \in Int
    BY <2>2
  <2>4. openFiles[v][d].offset + Len(data) \in Nat
    BY <2>1, <2>3, EntryType
  <2>5. openFiles' = [openFiles EXCEPT ![v][d].offset = openFiles[v][d].offset + Len(data)]
    BY <1>2
  <2>6. Only(v) /\ Keeps(v)
    BY <1>2, <2>1, <2>4, <2>5, MoveEffect
  <2>7. answer' \in Answers
    BY <1>2, <2>2, <2>3, AnswerType DEF Typed
  <2> QED  BY <2>6, <2>7 DEF Effect
<1> QED  BY <1>1, <1>2 DEF ReadFile

LEMMA SeekEffect ==
    ASSUME Typed, NEW v \in VMs, NEW d, NEW whence, NEW offset \in Int,
           SeekFile(v, d, whence, offset)
    PROVE  Effect(v)
<1> DEFINE position == IF whence = "SET" THEN offset ELSE Len(contents[openFiles[v][d].file])
<1>1. CASE Reject(v)
  BY <1>1, RejectEffect
<1>2. CASE /\ MaySeek(v, d, whence, position)
           /\ openFiles' = [openFiles EXCEPT ![v][d].offset = position]
           /\ Answer(v, IF position <= IntMax THEN position ELSE -1, <<>>)
           /\ UNCHANGED <<dir, contents, nextDescriptor>>
  <2>1. d \in DOMAIN openFiles[v] /\ position >= 0
    BY <1>2 DEF MaySeek, IsOpen
  <2>2. position \in Nat
    BY <2>1, EntryType
  <2> HIDE DEF position
  <2>3. Only(v) /\ Keeps(v)
    BY <1>2, <2>1, <2>2, MoveEffect
  <2>4. (IF position <= IntMax THEN position ELSE -1) \in Int /\ <<>> \in Seq(Byte)
    BY <2>2
  <2>5. answer' \in Answers
    BY <1>2, <2>4, AnswerType DEF Typed
  <2> QED  BY <2>3, <2>5 DEF Effect
<1> QED  BY <1>1, <1>2 DEF SeekFile

(* Every entry of a table is the same as itself. *)
LEMMA SameAsItself ==
    ASSUME NEW t, IsTable(t)
    PROVE  SameTable(t, t)
BY DEF IsTable, SameTable, SameEntry

(* The end of writeFile changes the file of the descriptor, if any, and    *)
(* the descriptor's offset.                                                *)
LEMMA WriteThroughEffect ==
    ASSUME Typed, NEW v \in VMs, NEW t, IsTable(t), NEW d \in DOMAIN t,
           NEW c, c \in [DOMAIN c -> Seq(Byte)], t[d].file \in DOMAIN c,
           NEW data \in Seq(Byte), NEW inside, WriteThrough(v, d, data, inside, t, c)
    PROVE  /\ Only(v) /\ answer' \in Answers /\ SameTable(t, openFiles'[v])
           /\ \E new \in Seq(Byte) :
                /\ contents' = [c EXCEPT ![t[d].file] = new]
                /\ Len(c[t[d].file]) <= MaxSize => Len(new) <= MaxSize
<1>1. /\ t[d] \in OpenFileType /\ t[d].offset \in Nat
      /\ c[t[d].file] \in Seq(Byte)
  <2>1. t[d] \in OpenFileType
    BY DEF IsTable
  <2> QED  BY <2>1 DEF OpenFileType
<1>2. -1 \in Int /\ 0 \in Int /\ <<>> \in Seq(Byte)
  OBVIOUS
<1>3. ASSUME openFiles' = [openFiles EXCEPT ![v] = t], contents' = c,
             Answer(v, 0, <<>>) \/ Answer(v, -1, <<>>)
      PROVE  /\ Only(v) /\ answer' \in Answers /\ SameTable(t, openFiles'[v])
             /\ \E new \in Seq(Byte) :
                  /\ contents' = [c EXCEPT ![t[d].file] = new]
                  /\ Len(c[t[d].file]) <= MaxSize => Len(new) <= MaxSize
  <2>1. answer' \in Answers
    BY <1>2, <1>3, AnswerType DEF Typed
  <2>2. Only(v) /\ openFiles'[v] = t
    BY <1>3, OneTable DEF Typed, TablesTyped
  <2>3. contents' = [c EXCEPT ![t[d].file] = c[t[d].file]]
    BY <1>3
  <2> QED  BY <1>1, <2>1, <2>2, <2>3, SameAsItself
<1>4. ASSUME NEW count \in 1..Len(data), Answer(v, count, <<>>),
             t[d].offset + Len(data) <= MaxSize,
             openFiles' = [openFiles EXCEPT ![v] = [t EXCEPT ![d].offset = @ + count]],
             contents' = [c EXCEPT ![t[d].file] =
                            Overlay(@, t[d].offset, SubSeq(data, 1, count))]
      PROVE  /\ Only(v) /\ answer' \in Answers /\ SameTable(t, openFiles'[v])
             /\ \E new \in Seq(Byte) :
                  /\ contents' = [c EXCEPT ![t[d].file] = new]
                  /\ Len(c[t[d].file]) <= MaxSize => Len(new) <= MaxSize
  <2>1. count \in Nat /\ count \in Int /\ t[d].offset + count \in Nat
    BY <1>1
  <2>2. answer' \in Answers
    BY <1>2, <1>4, <2>1, AnswerType DEF Typed
  <2>3. openFiles' = [openFiles EXCEPT ![v] = [t EXCEPT ![d].offset = t[d].offset + count]]
    BY <1>4
  <2>4. Only(v) /\ openFiles'[v] = [t EXCEPT ![d].offset = t[d].offset + count]
    BY <2>3, OneTable DEF Typed, TablesTyped
  <2>5. SameTable(t, openFiles'[v])
    BY <2>1, <2>4, MoveEntry
  <2>6. SubSeq(data, 1, count) \in Seq(Byte) /\ Len(SubSeq(data, 1, count)) = count
    <3>1. \A i \in 1..count : data[i] \in Byte
      <4>1. ASSUME NEW i \in 1..count PROVE data[i] \in Byte
        <5>1. i \in 1..Len(data)
          BY <2>1
        <5> QED  BY <5>1, ElementOfSeq
      <4> QED  BY <4>1
    <3> QED  BY <2>1, <3>1, SubSeqProperties
  <2> DEFINE new == Overlay(c[t[d].file], t[d].offset, SubSeq(data, 1, count))
  <2>7. new \in Seq(Byte) /\ Len(new) = Larger(Len(c[t[d].file]), t[d].offset + count)
    <3> DEFINE part == SubSeq(data, 1, count)
    <3>1. part \in Seq(Byte) /\ Len(part) = count
      BY <2>6
    <3> HIDE DEF part
    <3>2. /\ Overlay(c[t[d].file], t[d].offset, part) \in Seq(Byte)
          /\ Len(Overlay(c[t[d].file], t[d].offset, part))
                = Larger(Len(c[t[d].file]), t[d].offset + Len(part))
      BY <1>1, <3>1, OverlayIsSeq
    <3> QED  BY <3>1, <3>2 DEF part
  <2>8. contents' = [c EXCEPT ![t[d].file] = new]
    BY <1>4
  <2> HIDE DEF new
  <2>9. Len(c[t[d].file]) <= MaxSize => Len(new) <= MaxSize
    <3>1. Len(data) \in Nat /\ MaxSize \in Nat
      BY FilesAssumption
    <3> QED  BY <1>1, <1>4, <2>1, <2>7, <3>1 DEF Larger
  <2> QED  BY <2>2, <2>4, <2>5, <2>7, <2>8, <2>9
<1> QED  BY <1>3, <1>4 DEF WriteThrough

(* reopenSharedFiles yields a table again. *)
LEMMA ReopenType ==
    ASSUME Typed, NEW v \in VMs, NEW name \in Names, NEW copy \in FileIds
    PROVE  /\ IsTable(reopenSharedFiles(v, name, copy))
           /\ DOMAIN reopenSharedFiles(v, name, copy) = DOMAIN openFiles[v]
           /\ \A d \in DOMAIN openFiles[v] :
                LET o == openFiles[v][d]
                    p == reopenSharedFiles(v, name, copy)[d]
                IN  IF o.shared /\ o.name = name
                    THEN /\ p.name = o.name /\ p.flags = o.flags /\ p.offset = o.offset
                         /\ p.file = copy /\ p.hostPath = Local(v, name) /\ ~p.shared
                         /\ p.mode = toHostOpenFlags(o.flags)
                    ELSE p = o
<1> DEFINE t == reopenSharedFiles(v, name, copy)
           Moved(o) == [o EXCEPT !.file = copy, !.hostPath = Local(v, name), !.shared = FALSE,
                                 !.mode = toHostOpenFlags(o.flags)]
<1>1. IsTable(openFiles[v])
  BY DEF Typed, TablesTyped
<1>2. \A flags : toHostOpenFlags(flags) \in {"O_RDONLY", "O_WRONLY", "O_RDWR"}
  BY DEF toHostOpenFlags
<1>3. Local(v, name) \in Paths
  BY DEF Local, Paths
<1>4. ASSUME NEW o \in OpenFileType
      PROVE  /\ Moved(o) \in OpenFileType
             /\ Moved(o).name = o.name /\ Moved(o).flags = o.flags /\ Moved(o).offset = o.offset
             /\ Moved(o).file = copy /\ Moved(o).hostPath = Local(v, name) /\ ~Moved(o).shared
             /\ Moved(o).mode = toHostOpenFlags(o.flags)
  BY <1>2, <1>3 DEF OpenFileType
<1>5. t = [d \in DOMAIN openFiles[v] |->
              IF openFiles[v][d].shared /\ openFiles[v][d].name = name
              THEN Moved(openFiles[v][d]) ELSE openFiles[v][d]]
  BY DEF reopenSharedFiles
<1> HIDE DEF t, Moved
<1>6. \A d \in DOMAIN openFiles[v] : openFiles[v][d] \in OpenFileType
  BY <1>1 DEF IsTable
<1>7. IsTable(t)
  BY <1>1, <1>4, <1>5, <1>6 DEF IsTable
<1> QED  BY <1>4, <1>5, <1>6, <1>7 DEF t

LEMMA WriteEffect ==
    ASSUME Typed, NEW v \in VMs, NEW d, NEW data \in Seq(Byte), NEW inside, NEW negative,
           WriteFile(v, d, data, inside, negative)
    PROVE  Effect(v)
<1> DEFINE o == openFiles[v][d]
           path == Local(v, o.name)
<1>1. CASE Reject(v)
  BY <1>1, RejectEffect
<1>2. CASE /\ MayWriteFile(v, d, negative) /\ ~openFiles[v][d].shared
           /\ WriteThrough(v, d, data, inside, openFiles[v], contents)
           /\ UNCHANGED <<dir, nextDescriptor>>
  <2>1. d \in DOMAIN openFiles[v] /\ IsTable(openFiles[v])
    BY <1>2 DEF MayWriteFile, IsOpen, Typed, TablesTyped
  <2>2. contents \in [DOMAIN contents -> Seq(Byte)] /\ openFiles[v][d].file \in DOMAIN contents
    BY <2>1, EntryType DEF Typed, FilesTyped
  <2>3. /\ Only(v) /\ answer' \in Answers /\ SameTable(openFiles[v], openFiles'[v])
        /\ \E new \in Seq(Byte) :
             /\ contents' = [contents EXCEPT ![openFiles[v][d].file] = new]
             /\ Len(contents[openFiles[v][d].file]) <= MaxSize => Len(new) <= MaxSize
    BY <1>2, <2>1, <2>2, WriteThroughEffect
  <2>4. Writes(v)
    BY <1>2, <2>1, <2>2, <2>3 DEF Writes, Bounded
  <2> QED  BY <2>3, <2>4 DEF Effect
<1>3. CASE /\ MayWriteFile(v, d, negative) /\ openFiles[v][d].shared
           /\ PrepareFails(v, o) /\ Answer(v, -1, <<>>)
           /\ UNCHANGED <<openFiles, nextDescriptor>>
  <2>1. d \in DOMAIN openFiles[v]
    BY <1>3 DEF MayWriteFile, IsOpen
  <2>2. -1 \in Int /\ <<>> \in Seq(Byte)
    OBVIOUS
  <2>3. answer' \in Answers
    BY <1>3, <2>2, AnswerType DEF Typed
  <2>4. Only(v)
    BY <1>3, NoTable DEF Typed
  <2>5. Fails(v)
    BY <1>3, <2>1 DEF Fails
  <2> QED  BY <2>3, <2>4, <2>5 DEF Effect
<1>4. ASSUME MayWriteFile(v, d, negative), openFiles[v][d].shared,
             o.hostPath \in DOMAIN dir, path \notin DOMAIN dir,
             NEW copy \in NewFiles, dir' = With(dir, path, copy),
             WriteThrough(v, d, data, inside, reopenSharedFiles(v, o.name, copy),
                          With(contents, copy, contents[dir[o.hostPath]])),
             UNCHANGED nextDescriptor
      PROVE  Effect(v)
  <2> DEFINE t == reopenSharedFiles(v, o.name, copy)
             source == contents[dir[o.hostPath]]
             c == With(contents, copy, source)
  <2>1. d \in DOMAIN openFiles[v] /\ o \in OpenFileType
    BY <1>4, EntryType DEF MayWriteFile, IsOpen
  <2>2. o.name \in Names /\ copy \in FileIds
    BY <2>1 DEF OpenFileType, NewFiles
  <2>3. IsTable(t) /\ d \in DOMAIN t /\ t[d].file = copy
    BY <1>4, <2>1, <2>2, ReopenType
  <2>4. contents \in [DOMAIN contents -> Seq(Byte)] /\ source \in Seq(Byte)
    BY <1>4, <2>1, EntryType DEF Typed, FilesTyped
  <2> HIDE DEF source
  <2>5. /\ DOMAIN c = DOMAIN contents \cup {copy} /\ c \in [DOMAIN c -> Seq(Byte)]
        /\ t[d].file \in DOMAIN c
    <3>1. DOMAIN c = DOMAIN contents \cup {copy}
      BY WithMap
    <3>2. c \in [DOMAIN contents \cup {copy} -> Seq(Byte)]
      BY <2>4, WithType
    <3> QED  BY <2>3, <3>1, <3>2
  <2>6. WriteThrough(v, d, data, inside, t, c)
    BY <1>4 DEF source
  <2> HIDE DEF t
  <2>7. c = With(contents, copy, source)
    OBVIOUS
  <2> HIDE DEF c
  <2>8. /\ Only(v) /\ answer' \in Answers /\ SameTable(t, openFiles'[v])
        /\ \E new \in Seq(Byte) :
             /\ contents' = [c EXCEPT ![t[d].file] = new]
             /\ Len(c[t[d].file]) <= MaxSize => Len(new) <= MaxSize
    BY <2>3, <2>5, <2>6, WriteThroughEffect
  <2>9. PICK new \in Seq(Byte) : /\ contents' = [c EXCEPT ![copy] = new]
                                 /\ Len(c[copy]) <= MaxSize => Len(new) <= MaxSize
    BY <2>3, <2>8
  <2>10. Bounded => Len(new) <= MaxSize
    <3>1. c[copy] = source /\ dir[o.hostPath] \in DOMAIN contents
      BY <1>4, <2>7 DEF With, Typed, FilesTyped
    <3> QED  BY <2>9, <3>1 DEF Bounded, source
  <2>11. contents' = With(contents, copy, new)
    BY <2>5, <2>7, <2>9 DEF With
  <2>12. Copies(v)
    BY <1>4, <2>1, <2>8, <2>10, <2>11 DEF Copies, t
  <2> QED  BY <2>8, <2>12 DEF Effect
<1> QED  BY <1>1, <1>2, <1>3, <1>4 DEF WriteFile

(* The table of a VM that ends is emptied. *)
LEMMA EndEffect ==
    ASSUME Typed, NEW v \in VMs, CloseGuestFiles(v)
    PROVE  Effect(v)
<1>1. openFiles' = [openFiles EXCEPT ![v] = <<>>]
  BY DEF CloseGuestFiles
<1>2. Only(v) /\ openFiles'[v] = <<>>
  BY <1>1, OneTable DEF Typed, TablesTyped
<1>3. DOMAIN <<>> = {} /\ <<>> \in [{} -> OpenFileType]
  OBVIOUS
<1>4. SameTable(openFiles[v], <<>>)
  BY <1>3 DEF SameTable, IsTable
<1> QED  BY <1>2, <1>4 DEF CloseGuestFiles, Keeps, Effect, Typed

(* Every step has one of the effects, on the table of one VM. *)
LEMMA StepEffect ==
    ASSUME Typed, NEW v \in VMs \ ended,
           (Request(v) /\ UNCHANGED ended) \/ CloseGuestFiles(v)
    PROVE  Effect(v)
<1>1. CASE CloseGuestFiles(v)
  BY <1>1, EndEffect
<1>2. CASE Reject(v)
  BY <1>2, RejectEffect
<1>3. CASE \E name \in Names, flags \in FlagSets : OpenFile(v, name, flags)
  BY <1>3, OpenEffect
<1>4. ASSUME NEW d \in 2..MaxDescriptor[v], CloseFile(v, d) PROVE Effect(v)
  BY <1>4, CloseEffect
<1>5. ASSUME NEW d \in 2..MaxDescriptor[v],
             \E count \in -1..MaxCount, inside \in BOOLEAN :
                (inside \/ count = 1) /\ ReadFile(v, d, count, inside)
      PROVE  Effect(v)
  BY <1>5, ReadEffect
<1>6. ASSUME NEW d \in 2..MaxDescriptor[v], NEW data \in Blocks(Byte, MaxCount),
             WriteFile(v, d, data, TRUE, FALSE)
      PROVE  Effect(v)
  <2>1. data \in Seq(Byte)
    BY BlockIsSeq, FilesAssumption
  <2> QED  BY <1>6, <2>1, WriteEffect
<1>7. ASSUME NEW d \in 2..MaxDescriptor[v],
             \/ WriteFile(v, d, << 0 >>, FALSE, FALSE)
             \/ WriteFile(v, d, <<>>, TRUE, TRUE)
      PROVE  Effect(v)
  <2>1. <<0>> \in Seq(Byte) /\ <<>> \in Seq(Byte)
    BY FilesAssumption
  <2> QED  BY <1>7, <2>1, WriteEffect
<1>8. ASSUME NEW d \in 2..MaxDescriptor[v],
             \E whence \in {"SET", "END", "OTHER"}, offset \in -1..IntMax :
                SeekFile(v, d, whence, offset)
      PROVE  Effect(v)
  BY <1>8, SeekEffect
<1> QED  BY <1>1, <1>2, <1>3, <1>4, <1>5, <1>6, <1>7, <1>8 DEF Request
---------------------------------------------------------------------------
(* Types.                                                                  *)

(* The tables of the other VMs stay. *)
LEMMA OthersStay ==
    ASSUME Typed, NEW v \in VMs, Only(v)
    PROVE  /\ openFiles' = [w \in VMs |-> openFiles'[w]]
           /\ \A u \in VMs : u # v => openFiles'[u] = openFiles[u]
<1>1. openFiles = [w \in VMs |-> openFiles[w]]
  BY DEF Typed, TablesTyped
<1> DEFINE t == openFiles'[v]
<1>2. openFiles' = [openFiles EXCEPT ![v] = t]
  BY DEF Only
<1> HIDE DEF t
<1> QED  BY <1>1, <1>2

(* What is left to show of the tables when one of them has changed. *)
LEMMA TablesType ==
    ASSUME Typed, NEW v \in VMs, Only(v), DOMAIN contents \subseteq DOMAIN contents',
           IsTable(openFiles'[v]),
           \A d \in DOMAIN openFiles'[v] :
                d < nextDescriptor'[v] /\ openFiles'[v][d].file \in DOMAIN contents',
           \A u \in VMs : u # v => nextDescriptor'[u] = nextDescriptor[u]
    PROVE  TablesTyped'
<1>1. ASSUME NEW u \in VMs
      PROVE  /\ IsTable(openFiles'[u])
             /\ \A d \in DOMAIN openFiles'[u] :
                  d < nextDescriptor'[u] /\ openFiles'[u][d].file \in DOMAIN contents'
  <2>1. CASE u = v
    BY <2>1
  <2>2. CASE u # v
    <3>1. openFiles'[u] = openFiles[u] /\ nextDescriptor'[u] = nextDescriptor[u]
      BY <2>2, OthersStay
    <3> QED  BY <3>1 DEF Typed, TablesTyped
  <2> QED  BY <2>1, <2>2
<1>2. openFiles' = [w \in VMs |-> openFiles'[w]]
  BY OthersStay
<1> QED  BY <1>1, <1>2 DEF TablesTyped, IsTable

(* Where a name resolves to is a path, and the path of a private file is   *)
(* in the VM's directory.                                                  *)
LEMMA ResolutionType ==
    ASSUME NEW v \in VMs, NEW name \in Names, NEW resolved \in Resolutions(v, name)
    PROVE  /\ resolved.path \in Paths /\ resolved.shared \in BOOLEAN
           /\ resolved.shared => /\ name \in DOMAIN SharedFiles
                                 /\ resolved.path = SharedFiles[name]
           /\ ~resolved.shared => resolved.path = Local(v, name)
<1>1. \/ resolved = [path |-> Local(v, name), shared |-> FALSE]
      \/ /\ resolved = [path |-> SharedFiles[name], shared |-> TRUE]
         /\ name \in DOMAIN SharedFiles
  BY DEF Resolutions, resolveFile
<1>2. Local(v, name) \in Paths
  BY DEF Local, Paths
<1>3. name \in DOMAIN SharedFiles => SharedFiles[name] \in Paths
  BY FilesAssumption
<1>4. CASE resolved = [path |-> Local(v, name), shared |-> FALSE]
  <2>1. resolved.path = Local(v, name) /\ resolved.shared = FALSE
    BY <1>4
  <2> QED  BY <1>2, <2>1
<1>5. CASE /\ resolved = [path |-> SharedFiles[name], shared |-> TRUE]
           /\ name \in DOMAIN SharedFiles
  <2>1. resolved.path = SharedFiles[name] /\ resolved.shared = TRUE
    BY <1>5
  <2> QED  BY <1>3, <1>5, <2>1
<1> QED  BY <1>1, <1>4, <1>5

(* What the new entry of openFile holds. *)
LEMMA NewEntryType ==
    ASSUME NEW v \in VMs, NEW name \in Names, NEW flags \in FlagSets,
           NEW resolved \in Resolutions(v, name), NEW id \in FileIds
    PROVE  /\ NewEntry(name, flags, resolved, id) \in OpenFileType
           /\ NewEntry(name, flags, resolved, id).name = name
           /\ NewEntry(name, flags, resolved, id).flags = flags
           /\ NewEntry(name, flags, resolved, id).hostPath = resolved.path
           /\ NewEntry(name, flags, resolved, id).shared = resolved.shared
           /\ NewEntry(name, flags, resolved, id).file = id
           /\ NewEntry(name, flags, resolved, id).offset = 0
           /\ NewEntry(name, flags, resolved, id).mode =
                IF resolved.shared THEN "O_RDONLY" ELSE toHostOpenFlags(flags)
<1>1. toHostOpenFlags(flags) \in {"O_RDONLY", "O_WRONLY", "O_RDWR"}
  BY DEF toHostOpenFlags
<1>2. resolved.path \in Paths /\ resolved.shared \in BOOLEAN
  BY ResolutionType
<1> QED  BY <1>1, <1>2 DEF NewEntry, OpenFileType

(* The file system with one more file. *)
LEMMA NewFile ==
    ASSUME FilesTyped, NEW path \in Paths, NEW id \in NewFiles, NEW s \in Seq(Byte),
           dir' = With(dir, path, id), contents' = With(contents, id, s)
    PROVE  /\ FilesTyped' /\ DOMAIN contents' = DOMAIN contents \cup {id}
           /\ DOMAIN dir' = DOMAIN dir \cup {path} /\ dir'[path] = id
           /\ contents'[id] = s
           /\ \A p \in DOMAIN dir : p # path => dir'[p] = dir[p]
           /\ \A f \in DOMAIN contents : f # id /\ contents'[f] = contents[f]
<1>1. id \in FileIds /\ id \notin DOMAIN contents
  BY DEF NewFiles
<1>2. /\ DOMAIN contents' = DOMAIN contents \cup {id} /\ contents'[id] = s
      /\ \A f \in DOMAIN contents : f # id => contents'[f] = contents[f]
      /\ contents' \in [DOMAIN contents \cup {id} -> Seq(Byte)]
  <2>1. contents \in [DOMAIN contents -> Seq(Byte)]
    BY DEF FilesTyped
  <2>2. contents' \in [DOMAIN contents \cup {id} -> Seq(Byte)]
    BY <2>1, WithType
  <2>3. DOMAIN contents' = DOMAIN contents \cup {id} /\ contents'[id] = s
    BY DEF With
  <2>4. \A f \in DOMAIN contents : f # id => contents'[f] = contents[f]
    BY DEF With
  <2> QED  BY <2>2, <2>3, <2>4
<1>3. dir \in [DOMAIN dir -> DOMAIN contents \cup {id}]
  BY DEF FilesTyped
<1>4. /\ DOMAIN dir' = DOMAIN dir \cup {path} /\ dir'[path] = id
      /\ \A p \in DOMAIN dir : p # path => dir'[p] = dir[p]
      /\ dir' \in [DOMAIN dir \cup {path} -> DOMAIN contents \cup {id}]
  <2>1. dir' \in [DOMAIN dir \cup {path} -> DOMAIN contents \cup {id}]
    BY <1>3, WithType
  <2>2. DOMAIN dir' = DOMAIN dir \cup {path} /\ dir'[path] = id
    BY DEF With
  <2>3. \A p \in DOMAIN dir : p # path => dir'[p] = dir[p]
    BY DEF With
  <2> QED  BY <2>1, <2>2, <2>3
<1> QED  BY <1>1, <1>2, <1>4 DEF FilesTyped

(* Types survive each effect. *)
LEMMA TypedKeeps ==
    ASSUME Typed, NEW v \in VMs, Only(v), Keeps(v)
    PROVE  FilesTyped' /\ TablesTyped' /\ nextDescriptor' \in [VMs -> Nat]
<1>1. FilesTyped'
  BY DEF Typed, FilesTyped, Keeps
<1>2. IsTable(openFiles'[v]) /\ nextDescriptor' = nextDescriptor /\ contents' = contents
  BY DEF Keeps, SameTable
<1>3. ASSUME NEW d \in DOMAIN openFiles'[v]
      PROVE  d < nextDescriptor'[v] /\ openFiles'[v][d].file \in DOMAIN contents'
  <2>1. d \in DOMAIN openFiles[v] /\ openFiles'[v][d].file = openFiles[v][d].file
    BY DEF Keeps, SameTable, SameEntry
  <2> QED  BY <1>2, <2>1 DEF Typed, TablesTyped
<1>4. TablesTyped'
  BY <1>2, <1>3, TablesType
<1> QED  BY <1>1, <1>2, <1>4 DEF Typed

LEMMA TypedWrites ==
    ASSUME Typed, NEW v \in VMs, Only(v), Writes(v)
    PROVE  FilesTyped' /\ TablesTyped' /\ nextDescriptor' \in [VMs -> Nat]
<1>1. PICK d \in DOMAIN openFiles[v], new \in Seq(Byte) :
        /\ contents' = [contents EXCEPT ![openFiles[v][d].file] = new]
        /\ SameTable(openFiles[v], openFiles'[v])
        /\ UNCHANGED <<dir, nextDescriptor>>
  BY DEF Writes
<1>2. contents' \in [DOMAIN contents -> Seq(Byte)] /\ DOMAIN contents' = DOMAIN contents
  BY <1>1 DEF Typed, FilesTyped
<1>3. FilesTyped'
  BY <1>1, <1>2 DEF Typed, FilesTyped
<1>4. ASSUME NEW e \in DOMAIN openFiles'[v]
      PROVE  e < nextDescriptor'[v] /\ openFiles'[v][e].file \in DOMAIN contents'
  <2>1. e \in DOMAIN openFiles[v] /\ openFiles'[v][e].file = openFiles[v][e].file
    BY <1>1 DEF SameTable, SameEntry
  <2> QED  BY <1>1, <1>2, <2>1 DEF Typed, TablesTyped
<1>5. IsTable(openFiles'[v])
  BY <1>1 DEF SameTable
<1>6. TablesTyped'
  BY <1>1, <1>2, <1>4, <1>5, TablesType
<1> QED  BY <1>1, <1>3, <1>6 DEF Typed

LEMMA TypedCopies ==
    ASSUME Typed, NEW v \in VMs, Only(v), Copies(v)
    PROVE  FilesTyped' /\ TablesTyped' /\ nextDescriptor' \in [VMs -> Nat]
<1>1. PICK d \in DOMAIN openFiles[v], copy \in NewFiles, new \in Seq(Byte) :
        /\ dir' = With(dir, Local(v, openFiles[v][d].name), copy)
        /\ contents' = With(contents, copy, new)
        /\ SameTable(reopenSharedFiles(v, openFiles[v][d].name, copy), openFiles'[v])
        /\ UNCHANGED nextDescriptor
  BY DEF Copies
<1>2. /\ openFiles[v][d].name \in Names /\ copy \in FileIds
      /\ Local(v, openFiles[v][d].name) \in Paths
  BY EntryType DEF OpenFileType, NewFiles
<1>3. FilesTyped' /\ DOMAIN contents' = DOMAIN contents \cup {copy}
  BY <1>1, <1>2, NewFile DEF Typed
<1>4. ASSUME NEW e \in DOMAIN openFiles'[v]
      PROVE  e < nextDescriptor'[v] /\ openFiles'[v][e].file \in DOMAIN contents'
  <2> DEFINE t == reopenSharedFiles(v, openFiles[v][d].name, copy)
  <2>1. e \in DOMAIN t /\ openFiles'[v][e].file = t[e].file
    BY <1>1 DEF SameTable, SameEntry
  <2>2. e \in DOMAIN openFiles[v] /\ t[e].file \in {copy, openFiles[v][e].file}
    BY <1>2, <2>1, ReopenType
  <2> QED  BY <1>1, <1>3, <2>1, <2>2 DEF Typed, TablesTyped
<1>5. IsTable(openFiles'[v])
  BY <1>1 DEF SameTable
<1>6. TablesTyped'
  BY <1>1, <1>3, <1>4, <1>5, TablesType
<1> QED  BY <1>1, <1>3, <1>6 DEF Typed

LEMMA TypedFails ==
    ASSUME Typed, NEW v \in VMs, Only(v), Fails(v)
    PROVE  FilesTyped' /\ TablesTyped' /\ nextDescriptor' \in [VMs -> Nat]
<1>1. PICK d \in DOMAIN openFiles[v] : PrepareFails(v, openFiles[v][d])
  BY DEF Fails
<1> DEFINE path == Local(v, openFiles[v][d].name)
           source == contents[dir[openFiles[v][d].hostPath]]
<1>2. path \in Paths
  BY EntryType
<1>3. FilesTyped' /\ DOMAIN contents \subseteq DOMAIN contents'
  <2>1. CASE UNCHANGED <<dir, contents>>
    BY <2>1 DEF Typed, FilesTyped
  <2>2. CASE dir' = Without(dir, path) /\ UNCHANGED contents
    <3>1. dir \in [DOMAIN dir -> DOMAIN contents] /\ DOMAIN dir \subseteq Paths
      BY DEF Typed, FilesTyped
    <3>2. dir' \in [DOMAIN dir \ {path} -> DOMAIN contents]
      BY <2>2, <3>1, WithoutType
    <3> QED  BY <2>2, <3>1, <3>2 DEF Typed, FilesTyped
  <2>3. ASSUME NEW id \in NewFiles, NEW copied \in 0..Len(source),
               openFiles[v][d].hostPath \in DOMAIN dir,
               dir' = With(dir, path, id),
               contents' = With(contents, id, SubSeq(source, 1, copied))
        PROVE  FilesTyped' /\ DOMAIN contents \subseteq DOMAIN contents'
    <3>1. source \in Seq(Byte)
      BY <2>3, EntryType
    <3> HIDE DEF source
    <3>2. \A i \in 1..copied : source[i] \in Byte
      <4>1. ASSUME NEW i \in 1..copied PROVE source[i] \in Byte
        <5>1. i \in 1..Len(source)
          BY <3>1
        <5> QED  BY <3>1, <5>1, ElementOfSeq
      <4> QED  BY <4>1
    <3>3. SubSeq(source, 1, copied) \in Seq(Byte)
      BY <3>1, <3>2, SubSeqProperties
    <3> HIDE DEF path
    <3>4. FilesTyped' /\ DOMAIN contents' = DOMAIN contents \cup {id}
      BY <1>2, <2>3, <3>3, NewFile DEF Typed
    <3> QED  BY <3>4
  <2> QED  BY <1>1, <2>1, <2>2, <2>3 DEF PrepareFails
<1>4. IsTable(openFiles'[v]) /\ openFiles' = openFiles /\ nextDescriptor' = nextDescriptor
  BY DEF Typed, TablesTyped, Fails
<1>5. TablesTyped'
  BY <1>3, <1>4, TablesType DEF Typed, TablesTyped
<1> QED  BY <1>3, <1>4, <1>5 DEF Typed

LEMMA TypedOpens ==
    ASSUME Typed, NEW v \in VMs, Only(v), Opens(v)
    PROVE  FilesTyped' /\ TablesTyped' /\ nextDescriptor' \in [VMs -> Nat]
<1>0. PICK name \in Names, flags \in FlagSets : OpensAs(v, name, flags)
  BY DEF Opens
<1>1. PICK resolved \in Resolutions(v, name), id \in FileIds :
        /\ Finds(resolved, id) \/ Creates(resolved, id)
        /\ openFiles'[v] = With(openFiles[v], nextDescriptor[v],
                                NewEntry(name, flags, resolved, id))
        /\ nextDescriptor' = [nextDescriptor EXCEPT ![v] = @ + 1]
  BY <1>0 DEF OpensAs
<1> DEFINE next == nextDescriptor[v]
           entry == NewEntry(name, flags, resolved, id)
<1>2. FilesTyped' /\ DOMAIN contents \subseteq DOMAIN contents' /\ id \in DOMAIN contents'
  <2>1. CASE Finds(resolved, id)
    BY <2>1 DEF Finds, Typed, FilesTyped
  <2>2. CASE Creates(resolved, id)
    <3>1. <<>> \in Seq(Byte) /\ resolved.path \in Paths /\ id \in NewFiles
      BY <2>2, ResolutionType DEF Creates
    <3>2. FilesTyped' /\ DOMAIN contents' = DOMAIN contents \cup {id}
      BY <2>2, <3>1, NewFile DEF Creates, Typed
    <3> QED  BY <3>2
  <2> QED  BY <1>1, <2>1, <2>2
<1>3. entry \in OpenFileType /\ entry.file = id
  BY NewEntryType
<1> HIDE DEF entry
<1>4. /\ next \in Nat /\ nextDescriptor' \in [VMs -> Nat] /\ nextDescriptor'[v] = next + 1
      /\ \A u \in VMs : u # v => nextDescriptor'[u] = nextDescriptor[u]
  BY <1>1 DEF Typed
<1>5. /\ IsTable(openFiles[v])
      /\ \A d \in DOMAIN openFiles[v] : d < next /\ openFiles[v][d].file \in DOMAIN contents
  BY DEF Typed, TablesTyped
<1> HIDE DEF next
<1>6. openFiles'[v] = With(openFiles[v], next, entry)
  BY <1>1 DEF next, entry
<1>7. /\ DOMAIN openFiles'[v] = DOMAIN openFiles[v] \cup {next}
      /\ openFiles'[v][next] = entry
      /\ \A d \in DOMAIN openFiles[v] : d # next => openFiles'[v][d] = openFiles[v][d]
  BY <1>6 DEF With
<1>8. openFiles'[v] \in [DOMAIN openFiles[v] \cup {next} -> OpenFileType]
  <2>1. openFiles[v] \in [DOMAIN openFiles[v] -> OpenFileType]
    BY <1>5 DEF IsTable
  <2>2. With(openFiles[v], next, entry) \in [DOMAIN openFiles[v] \cup {next} -> OpenFileType]
    BY <1>3, <2>1, WithType
  <2> QED  BY <1>6, <2>2
<1>9. IsTable(openFiles'[v])
  BY <1>4, <1>5, <1>7, <1>8 DEF IsTable
<1>10. ASSUME NEW d \in DOMAIN openFiles'[v]
       PROVE  d < nextDescriptor'[v] /\ openFiles'[v][d].file \in DOMAIN contents'
  <2>1. CASE d = next
    BY <1>2, <1>3, <1>4, <1>7, <2>1
  <2>2. CASE d # next
    <3>1. d \in DOMAIN openFiles[v] /\ openFiles'[v][d] = openFiles[v][d]
      BY <1>7, <2>2
    <3>2. d \in Nat /\ d < next
      BY <1>5, <3>1 DEF IsTable
    <3> QED  BY <1>2, <1>4, <1>5, <3>1, <3>2
  <2> QED  BY <2>1, <2>2
<1>11. TablesTyped'
  BY <1>2, <1>4, <1>9, <1>10, TablesType
<1> QED  BY <1>2, <1>4, <1>11

(* The files a run starts with: one for every path, with its contents. *)
LEMMA InitFiles ==
    ASSUME Init
    PROVE  /\ FilesTyped /\ Distinct /\ DOMAIN dir = DOMAIN Initial
           /\ \A p \in DOMAIN dir : contents[dir[p]] = Initial[p]
           /\ DOMAIN contents = {dir[p] : p \in DOMAIN dir}
<1>1. /\ dir \in [DOMAIN Initial -> FileIds] /\ DOMAIN dir = DOMAIN Initial
      /\ \A p, q \in DOMAIN dir : dir[p] = dir[q] => p = q
      /\ contents = [f \in {dir[p] : p \in DOMAIN dir} |->
                        Initial[CHOOSE p \in DOMAIN dir : dir[p] = f]]
  BY DEF Init
<1>2. DOMAIN contents = {dir[p] : p \in DOMAIN dir}
  BY <1>1
<1>3. ASSUME NEW p \in DOMAIN dir PROVE contents[dir[p]] = Initial[p]
  <2> DEFINE q == CHOOSE q \in DOMAIN dir : dir[q] = dir[p]
  <2>1. q \in DOMAIN dir /\ dir[q] = dir[p]
    OBVIOUS
  <2>2. contents[dir[p]] = Initial[q]
    BY <1>1
  <2> QED  BY <1>1, <2>1, <2>2
<1>4. \A p \in DOMAIN dir : Initial[p] \in Seq(Byte) /\ p \in Paths
  BY <1>1, FilesAssumption
<1>5. \A f \in DOMAIN contents : contents[f] \in Seq(Byte) /\ f \in FileIds
  BY <1>1, <1>2, <1>3, <1>4
<1>6. contents = [f \in DOMAIN contents |-> contents[f]]
  BY <1>1
<1>7. FilesTyped
  BY <1>1, <1>2, <1>4, <1>5, <1>6 DEF FilesTyped
<1> QED  BY <1>1, <1>2, <1>3, <1>7 DEF Distinct

LEMMA TypedInit == Init => Typed
<1> SUFFICES ASSUME Init PROVE Typed
  OBVIOUS
<1>1. /\ openFiles = [v \in VMs |-> <<>>]
      /\ nextDescriptor = [v \in VMs |-> 3]
      /\ answer = [v \in VMs |-> [result |-> 0, data |-> <<>>]]
      /\ ended = {}
  BY DEF Init
<1>2. DOMAIN <<>> = {} /\ <<>> \in [{} -> OpenFileType] /\ <<>> \in Seq(Byte)
  OBVIOUS
<1>3. TablesTyped
  BY <1>1, <1>2 DEF TablesTyped, IsTable
<1>4. answer \in Answers
  BY <1>1, <1>2 DEF Answers
<1> QED  BY <1>1, <1>3, <1>4, InitFiles DEF Typed

LEMMA TypedNext == Typed /\ [Next]_vars => Typed'
<1> SUFFICES ASSUME Typed, [Next]_vars PROVE Typed'
  OBVIOUS
<1>1. ASSUME NEW v \in VMs \ ended,
             (Request(v) /\ UNCHANGED ended) \/ CloseGuestFiles(v)
      PROVE  Typed'
  <2>1. Effect(v)
    BY <1>1, StepEffect
  <2>2. FilesTyped' /\ TablesTyped' /\ nextDescriptor' \in [VMs -> Nat]
    BY <2>1, TypedKeeps, TypedWrites, TypedCopies, TypedFails, TypedOpens DEF Effect
  <2>3. ended' \subseteq VMs
    BY <1>1 DEF CloseGuestFiles, Typed
  <2> QED  BY <2>1, <2>2, <2>3 DEF Typed, Effect, Answers
<1>2. CASE UNCHANGED vars
  BY <1>2 DEF vars, Typed, FilesTyped, TablesTyped, IsTable, Answers
<1> QED  BY <1>1, <1>2 DEF Next

LEMMA AlwaysTyped == Spec => []Typed
BY TypedInit, TypedNext, PTL DEF Spec

(* The files, the descriptor tables, the answers: for any number of VMs    *)
(* and any failures, every path leads to a file, and every entry of a      *)
(* table is one that openFile could have made.                             *)
THEOREM TypeCorrect == Spec => []TypeOK
<1>1. Typed => TypeOK
  BY DEF Typed, FilesTyped, TablesTyped, IsTable, Answers, TypeOK
<1> QED  BY <1>1, AlwaysTyped, PTL
---------------------------------------------------------------------------
(* Originals and the files of other VMs.                                   *)

(* A step of v changes the directory in v's own part, and only to take a   *)
(* path away or to give one to a new file.                                 *)
DirConfined(v) ==
    /\ \A p \in Paths : p[1] # v =>
            /\ p \in DOMAIN dir' <=> p \in DOMAIN dir
            /\ p \in DOMAIN dir => dir'[p] = dir[p]
    /\ \A p \in DOMAIN dir' : \/ p \in DOMAIN dir /\ dir'[p] = dir[p]
                              \/ dir'[p] \notin DOMAIN contents

(* It writes to no file that another VM has open or can find. *)
ContentsConfined(v) ==
    /\ \A p \in DOMAIN dir : p[1] # v => contents'[dir[p]] = contents[dir[p]]
    /\ \A u \in VMs : u # v => \A d \in DOMAIN openFiles[u] :
            contents'[openFiles[u][d].file] = contents[openFiles[u][d].file]

(* The file of an entry of v was v's before, is new, or was found in v's   *)
(* directory, or outside all directories when the entry is shared.         *)
Provenance(v, o) ==
    \/ \E d \in DOMAIN openFiles[v] :
            openFiles[v][d].file = o.file /\ openFiles[v][d].shared = o.shared
    \/ o.file \notin DOMAIN contents
    \/ \E p \in DOMAIN dir : /\ o.file = dir[p]
                             /\ IF o.shared THEN p[1] \notin VMs ELSE p[1] = v

Confined(v) ==
    /\ DirConfined(v) /\ ContentsConfined(v) /\ Distinct'
    /\ \A d \in DOMAIN openFiles'[v] : Provenance(v, openFiles'[v][d])
    /\ EntriesOf(dir', v, openFiles'[v])

(* An original is found where it was, and its path is nobody's. *)
LEMMA Originals ==
    ASSUME OriginalsOutside, OriginalsUntouched, NEW n \in DOMAIN SharedFiles
    PROVE  /\ SharedFiles[n] \in Paths /\ SharedFiles[n] \in DOMAIN dir
           /\ \A v \in VMs : SharedFiles[n][1] # v
BY FilesAssumption DEF OriginalsOutside, OriginalsUntouched

(* Entries keep their meaning in the new directory. *)
LEMMA EntriesStay ==
    ASSUME OriginalsOutside, OriginalsUntouched, NEW v \in VMs, DirConfined(v),
           NEW u \in VMs, NEW o, o.file \in DOMAIN contents
    PROVE  /\ SharedEntry(dir, o) => SharedEntry(dir', o)
           /\ OwnEntry(dir, u, o) => OwnEntry(dir', u, o)
<1>1. ASSUME SharedEntry(dir, o) PROVE SharedEntry(dir', o)
  <2>1. o.name \in DOMAIN SharedFiles /\ o.hostPath = SharedFiles[o.name]
    BY <1>1 DEF SharedEntry
  <2>2. dir'[o.hostPath] = dir[o.hostPath]
    BY <2>1, Originals DEF DirConfined
  <2> QED  BY <1>1, <2>2 DEF SharedEntry
<1>2. ASSUME OwnEntry(dir, u, o) PROVE OwnEntry(dir', u, o)
  BY <1>2 DEF OwnEntry, DirConfined
<1> QED  BY <1>1, <1>2

(* The private files of two VMs stay apart. *)
LEMMA ApartStays ==
    ASSUME Typed, OriginalsOutside, Separated, NEW v \in VMs, Only(v),
           \A d \in DOMAIN openFiles'[v] : Provenance(v, openFiles'[v][d])
    PROVE  Apart'
<1>1. ASSUME NEW u \in VMs, u # v, NEW d \in DOMAIN openFiles'[v], NEW e \in DOMAIN openFiles'[u],
             ~openFiles'[v][d].shared \/ ~openFiles'[u][e].shared
      PROVE  openFiles'[u][e].file # openFiles'[v][d].file
  <2>1. openFiles'[u] = openFiles[u] /\ openFiles[u][e].file \in DOMAIN contents
    BY <1>1, OthersStay DEF Typed, TablesTyped
  <2>2. CASE \E c \in DOMAIN openFiles[v] :
                /\ openFiles[v][c].file = openFiles'[v][d].file
                /\ openFiles[v][c].shared = openFiles'[v][d].shared
    BY <1>1, <2>1, <2>2 DEF Separated, Apart
  <2>3. CASE openFiles'[v][d].file \notin DOMAIN contents
    BY <2>1, <2>3
  <2>4. ASSUME NEW p \in DOMAIN dir, openFiles'[v][d].file = dir[p],
               IF openFiles'[v][d].shared THEN p[1] \notin VMs ELSE p[1] = v,
               openFiles'[u][e].file = openFiles'[v][d].file
        PROVE  FALSE
    <3>1. p[1] # u
      BY <1>1, <2>4
    <3>2. CASE ~openFiles[u][e].shared
      <4>1. OwnEntry(dir, u, openFiles[u][e])
        BY <1>1, <2>1, <3>2 DEF Separated, Entries, EntriesOf
      <4> QED  BY <2>1, <2>4, <3>1, <4>1 DEF OwnEntry
    <3>3. CASE openFiles[u][e].shared
      <4>1. /\ openFiles[u][e].name \in DOMAIN SharedFiles
            /\ openFiles[u][e].file = dir[SharedFiles[openFiles[u][e].name]]
        BY <1>1, <2>1, <3>3 DEF Separated, Entries, EntriesOf, SharedEntry
      <4>2. SharedFiles[openFiles[u][e].name] = p
        BY <2>1, <2>4, <4>1, Originals DEF Separated, Distinct
      <4>3. p[1] = v
        BY <1>1, <2>1, <2>4, <3>3
      <4> QED  BY <4>1, <4>2, <4>3, Originals DEF Separated
    <3> QED  BY <3>2, <3>3
  <2> QED  BY <1>1, <2>2, <2>3, <2>4 DEF Provenance
<1>2. ASSUME NEW w \in VMs, NEW u \in VMs, w # u,
             NEW d \in DOMAIN openFiles'[w], NEW e \in DOMAIN openFiles'[u],
             ~openFiles'[w][d].shared
      PROVE  openFiles'[u][e].file # openFiles'[w][d].file
  <2>1. CASE w = v
    BY <1>1, <1>2, <2>1
  <2>2. CASE u = v
    BY <1>1, <1>2, <2>2
  <2>3. CASE w # v /\ u # v
    <3>1. openFiles'[w] = openFiles[w] /\ openFiles'[u] = openFiles[u]
      BY <2>3, OthersStay
    <3> QED  BY <1>2, <3>1 DEF Separated, Apart
  <2> QED  BY <2>1, <2>2, <2>3
<1> QED  BY <1>2 DEF Apart

(* A confined step keeps everything apart ... *)
LEMMA ConfinedSeparates ==
    ASSUME Typed, OriginalsOutside, Separated, NEW v \in VMs, Only(v), Confined(v)
    PROVE  Separated'
<1>1. OriginalsUntouched /\ DirConfined(v) /\ ContentsConfined(v)
  BY DEF Separated, Confined
<1>2. ASSUME NEW n \in DOMAIN SharedFiles
      PROVE  /\ SharedFiles[n] \in DOMAIN dir'
             /\ contents'[dir'[SharedFiles[n]]] = Initial[SharedFiles[n]]
  <2>1. SharedFiles[n] \in Paths /\ SharedFiles[n] \in DOMAIN dir /\ SharedFiles[n][1] # v
    BY <1>1, Originals
  <2>2. SharedFiles[n] \in DOMAIN dir' /\ dir'[SharedFiles[n]] = dir[SharedFiles[n]]
    BY <1>1, <2>1 DEF DirConfined
  <2>3. contents'[dir[SharedFiles[n]]] = contents[dir[SharedFiles[n]]]
    BY <1>1, <2>1 DEF ContentsConfined
  <2> QED  BY <1>1, <2>2, <2>3 DEF OriginalsUntouched
<1>3. OriginalsUntouched'
  BY <1>2 DEF OriginalsUntouched
<1>4. ASSUME NEW u \in VMs PROVE EntriesOf(dir', u, openFiles'[u])
  <2>1. CASE u = v
    BY <2>1 DEF Confined
  <2>2. CASE u # v
    <3>1. openFiles'[u] = openFiles[u]
      BY <2>2, OthersStay
    <3>2. EntriesOf(dir, u, openFiles[u])
      BY DEF Separated, Entries
    <3>3. ASSUME NEW d \in DOMAIN openFiles[u]
          PROVE  IF openFiles[u][d].shared THEN SharedEntry(dir', openFiles[u][d])
                 ELSE OwnEntry(dir', u, openFiles[u][d])
      <4>1. openFiles[u][d].file \in DOMAIN contents
        BY DEF Typed, TablesTyped
      <4>2. /\ SharedEntry(dir, openFiles[u][d]) => SharedEntry(dir', openFiles[u][d])
            /\ OwnEntry(dir, u, openFiles[u][d]) => OwnEntry(dir', u, openFiles[u][d])
        BY <1>1, <4>1, EntriesStay
      <4> QED  BY <3>2, <4>2 DEF EntriesOf
    <3> QED  BY <3>1, <3>3 DEF EntriesOf
  <2> QED  BY <2>1, <2>2
<1>5. Entries'
  BY <1>4 DEF Entries, EntriesOf, SharedEntry, OwnEntry
<1>6. Apart'
  BY ApartStays DEF Confined
<1> QED  BY <1>3, <1>5, <1>6 DEF Separated, Confined

(* ... and so each effect is confined. *)

(* Entries that differ in the offset only mean the same. *)
LEMMA SameTableSameEntries ==
    ASSUME NEW v \in VMs, NEW t, NEW u, SameTable(t, u), NEW directory,
           EntriesOf(directory, v, t)
    PROVE  EntriesOf(directory, v, u)
<1>1. ASSUME NEW d \in DOMAIN u
      PROVE  IF u[d].shared THEN SharedEntry(directory, u[d]) ELSE OwnEntry(directory, v, u[d])
  <2>1. d \in DOMAIN t /\ SameEntry(t[d], u[d])
    BY DEF SameTable
  <2>2. IF t[d].shared THEN SharedEntry(directory, t[d]) ELSE OwnEntry(directory, v, t[d])
    BY <2>1 DEF EntriesOf
  <2> QED  BY <2>1, <2>2 DEF SameEntry, SharedEntry, OwnEntry
<1> QED  BY <1>1 DEF EntriesOf

LEMMA SameTableProvenance ==
    ASSUME NEW v \in VMs, SameTable(openFiles[v], openFiles'[v])
    PROVE  \A d \in DOMAIN openFiles'[v] : Provenance(v, openFiles'[v][d])
BY DEF SameTable, SameEntry, Provenance

LEMMA KeepsConfined ==
    ASSUME Typed, Separated, NEW v \in VMs, Keeps(v)
    PROVE  Confined(v)
<1>1. dir' = dir /\ contents' = contents /\ SameTable(openFiles[v], openFiles'[v])
  BY DEF Keeps
<1>2. DirConfined(v) /\ ContentsConfined(v)
  BY <1>1 DEF DirConfined, ContentsConfined
<1>3. Distinct'
  BY <1>1 DEF Separated, Distinct
<1>4. EntriesOf(dir, v, openFiles[v])
  BY DEF Separated, Entries
<1>5. EntriesOf(dir', v, openFiles'[v])
  BY <1>1, <1>4, SameTableSameEntries
<1> QED  BY <1>1, <1>2, <1>3, <1>5, SameTableProvenance DEF Confined

LEMMA WritesConfined ==
    ASSUME Typed, Separated, NEW v \in VMs, Writes(v)
    PROVE  Confined(v)
<1>1. PICK d \in DOMAIN openFiles[v], new \in Seq(Byte) :
        /\ ~openFiles[v][d].shared
        /\ contents' = [contents EXCEPT ![openFiles[v][d].file] = new]
        /\ SameTable(openFiles[v], openFiles'[v])
        /\ UNCHANGED <<dir, nextDescriptor>>
  BY DEF Writes
<1>2. contents \in [DOMAIN contents -> Seq(Byte)] /\ dir \in [DOMAIN dir -> DOMAIN contents]
  BY DEF Typed, FilesTyped
<1>3. \A f \in DOMAIN contents : f # openFiles[v][d].file => contents'[f] = contents[f]
  BY <1>1, <1>2
<1>4. OwnEntry(dir, v, openFiles[v][d])
  BY <1>1 DEF Separated, Entries, EntriesOf
<1>5. DirConfined(v) /\ Distinct'
  BY <1>1 DEF DirConfined, Separated, Distinct
<1>6. ASSUME NEW p \in DOMAIN dir, p[1] # v PROVE contents'[dir[p]] = contents[dir[p]]
  <2>1. dir[p] \in DOMAIN contents /\ dir[p] # openFiles[v][d].file
    BY <1>2, <1>4, <1>6 DEF OwnEntry
  <2> QED  BY <1>3, <2>1
<1>7. ASSUME NEW u \in VMs, u # v, NEW e \in DOMAIN openFiles[u]
      PROVE  contents'[openFiles[u][e].file] = contents[openFiles[u][e].file]
  <2>1. openFiles[u][e].file \in DOMAIN contents
    BY DEF Typed, TablesTyped
  <2>2. openFiles[u][e].file # openFiles[v][d].file
    BY <1>1, <1>7 DEF Separated, Apart
  <2> QED  BY <1>3, <2>1, <2>2
<1>8. ContentsConfined(v)
  BY <1>6, <1>7 DEF ContentsConfined
<1>9. EntriesOf(dir, v, openFiles[v])
  BY DEF Separated, Entries
<1>10. EntriesOf(dir', v, openFiles'[v])
  BY <1>1, <1>9, SameTableSameEntries
<1> QED  BY <1>1, <1>5, <1>8, <1>10, SameTableProvenance DEF Confined

(* A new file in v's directory. *)
LEMMA NewFileConfined ==
    ASSUME Typed, Distinct, NEW v \in VMs, NEW path \in Paths, path[1] = v,
           path \notin DOMAIN dir, NEW id \in NewFiles, NEW s \in Seq(Byte),
           dir' = With(dir, path, id), contents' = With(contents, id, s)
    PROVE  DirConfined(v) /\ ContentsConfined(v) /\ Distinct'
<1>1. /\ DOMAIN dir' = DOMAIN dir \cup {path} /\ dir'[path] = id
      /\ \A p \in DOMAIN dir : p # path => dir'[p] = dir[p]
      /\ \A f \in DOMAIN contents : contents'[f] = contents[f]
  BY NewFile DEF Typed
<1>2. id \notin DOMAIN contents /\ \A p \in DOMAIN dir : dir[p] \in DOMAIN contents
  BY DEF NewFiles, Typed, FilesTyped
<1>3. \A p \in DOMAIN dir' : p = path \/ (p \in DOMAIN dir /\ dir'[p] = dir[p])
  BY <1>1
<1>4. DirConfined(v)
  BY <1>1, <1>2, <1>3 DEF DirConfined
<1>5. ContentsConfined(v)
  BY <1>1, <1>2 DEF ContentsConfined, Typed, TablesTyped
<1>6. Distinct'
  BY <1>1, <1>2, <1>3 DEF Distinct
<1> QED  BY <1>4, <1>5, <1>6

LEMMA CopiesConfined ==
    ASSUME Typed, OriginalsOutside, Separated, NEW v \in VMs, Copies(v)
    PROVE  Confined(v)
<1>1. PICK d \in DOMAIN openFiles[v], copy \in NewFiles, new \in Seq(Byte) :
        /\ Local(v, openFiles[v][d].name) \notin DOMAIN dir
        /\ dir' = With(dir, Local(v, openFiles[v][d].name), copy)
        /\ contents' = With(contents, copy, new)
        /\ SameTable(reopenSharedFiles(v, openFiles[v][d].name, copy), openFiles'[v])
  BY DEF Copies
<1> DEFINE name == openFiles[v][d].name
           path == Local(v, name)
           t == reopenSharedFiles(v, name, copy)
<1>2. /\ name \in Names /\ copy \in FileIds /\ path \in Paths
  BY EntryType DEF OpenFileType, NewFiles
<1>3. path[1] = v
  BY DEF Local
<1>4. /\ DirConfined(v) /\ ContentsConfined(v) /\ Distinct'
      /\ \A p \in DOMAIN dir' : dir'[p] = copy => p = path
      /\ copy \notin DOMAIN contents
  <2>1. path \notin DOMAIN dir /\ dir' = With(dir, path, copy)
    BY <1>1
  <2>2. Distinct
    BY DEF Separated
  <2> HIDE DEF path
  <2>3. DirConfined(v) /\ ContentsConfined(v) /\ Distinct'
    BY <1>1, <1>2, <1>3, <2>1, <2>2, NewFileConfined
  <2>4. copy \notin DOMAIN contents /\ path \in DOMAIN dir' /\ dir'[path] = copy
    BY <2>1 DEF NewFiles, With
  <2> QED  BY <2>3, <2>4 DEF Distinct
<1>5. ASSUME NEW e \in DOMAIN openFiles'[v]
      PROVE  /\ Provenance(v, openFiles'[v][e])
             /\ IF openFiles'[v][e].shared THEN SharedEntry(dir', openFiles'[v][e])
                ELSE OwnEntry(dir', v, openFiles'[v][e])
  <2>1. e \in DOMAIN t /\ SameEntry(t[e], openFiles'[v][e])
    BY <1>1 DEF SameTable
  <2>2. e \in DOMAIN openFiles[v]
    BY <1>2, <2>1, ReopenType
  <2>3. CASE openFiles[v][e].shared /\ openFiles[v][e].name = name
    <3>1. t[e].file = copy /\ ~t[e].shared
      BY <1>2, <2>2, <2>3, ReopenType
    <3>2. openFiles'[v][e].file = copy /\ ~openFiles'[v][e].shared
      BY <2>1, <3>1 DEF SameEntry
    <3>3. OwnEntry(dir', v, openFiles'[v][e])
      BY <1>3, <1>4, <3>2 DEF OwnEntry
    <3> QED  BY <1>4, <3>2, <3>3 DEF Provenance
  <2>4. CASE ~(openFiles[v][e].shared /\ openFiles[v][e].name = name)
    <3>1. t[e] = openFiles[v][e]
      BY <1>2, <2>2, <2>4, ReopenType
    <3>2. SameEntry(openFiles[v][e], openFiles'[v][e])
      BY <2>1, <3>1
    <3>3. Provenance(v, openFiles'[v][e])
      BY <2>2, <3>2 DEF SameEntry, Provenance
    <3>4. openFiles[v][e].file \in DOMAIN contents
      BY <2>2 DEF Typed, TablesTyped
    <3>5. IF openFiles[v][e].shared THEN SharedEntry(dir, openFiles[v][e])
          ELSE OwnEntry(dir, v, openFiles[v][e])
      BY <2>2 DEF Separated, Entries, EntriesOf
    <3>6. IF openFiles[v][e].shared THEN SharedEntry(dir', openFiles[v][e])
          ELSE OwnEntry(dir', v, openFiles[v][e])
      BY <1>4, <3>4, <3>5, EntriesStay DEF Separated
    <3> QED  BY <3>2, <3>3, <3>6 DEF SameEntry, SharedEntry, OwnEntry
  <2> QED  BY <2>3, <2>4
<1>6. EntriesOf(dir', v, openFiles'[v])
  BY <1>5 DEF EntriesOf
<1> QED  BY <1>4, <1>5, <1>6 DEF Confined

LEMMA FailsConfined ==
    ASSUME Typed, OriginalsOutside, Separated, NEW v \in VMs, Fails(v)
    PROVE  Confined(v)
<1>1. PICK d \in DOMAIN openFiles[v] : PrepareFails(v, openFiles[v][d])
  BY DEF Fails
<1> DEFINE path == Local(v, openFiles[v][d].name)
           source == contents[dir[openFiles[v][d].hostPath]]
<1>2. path \in Paths /\ path[1] = v
  BY EntryType DEF Local
<1>3. DirConfined(v) /\ ContentsConfined(v) /\ Distinct'
  <2>1. CASE UNCHANGED <<dir, contents>>
    BY <2>1 DEF DirConfined, ContentsConfined, Separated, Distinct
  <2>2. CASE dir' = Without(dir, path) /\ UNCHANGED contents
    <3> HIDE DEF path
    <3>1. /\ DOMAIN dir' = DOMAIN dir \ {path}
          /\ \A p \in DOMAIN dir' : dir'[p] = dir[p]
      BY <2>2 DEF Without
    <3>2. DirConfined(v)
      BY <1>2, <3>1 DEF DirConfined
    <3> QED  BY <2>2, <3>1, <3>2 DEF ContentsConfined, Separated, Distinct
  <2>3. ASSUME NEW id \in NewFiles, NEW copied \in 0..Len(source),
               openFiles[v][d].hostPath \in DOMAIN dir, path \notin DOMAIN dir,
               dir' = With(dir, path, id),
               contents' = With(contents, id, SubSeq(source, 1, copied))
        PROVE  DirConfined(v) /\ ContentsConfined(v) /\ Distinct'
    <3>1. source \in Seq(Byte)
      BY <2>3, EntryType
    <3> HIDE DEF source, path
    <3>2. \A i \in 1..copied : source[i] \in Byte
      <4>1. ASSUME NEW i \in 1..copied PROVE source[i] \in Byte
        <5>1. i \in 1..Len(source)
          BY <3>1
        <5> QED  BY <3>1, <5>1, ElementOfSeq
      <4> QED  BY <4>1
    <3>3. SubSeq(source, 1, copied) \in Seq(Byte)
      BY <3>1, <3>2, SubSeqProperties
    <3>4. Distinct
      BY DEF Separated
    <3> QED  BY <1>2, <2>3, <3>3, <3>4, NewFileConfined
  <2> QED  BY <1>1, <2>1, <2>2, <2>3 DEF PrepareFails
<1>4. openFiles' = openFiles
  BY DEF Fails
<1>5. \A e \in DOMAIN openFiles[v] : Provenance(v, openFiles[v][e])
  BY DEF Provenance
<1>6. ASSUME NEW e \in DOMAIN openFiles[v]
      PROVE  IF openFiles[v][e].shared THEN SharedEntry(dir', openFiles[v][e])
             ELSE OwnEntry(dir', v, openFiles[v][e])
  <2>1. openFiles[v][e].file \in DOMAIN contents
    BY DEF Typed, TablesTyped
  <2>2. IF openFiles[v][e].shared THEN SharedEntry(dir, openFiles[v][e])
        ELSE OwnEntry(dir, v, openFiles[v][e])
    BY DEF Separated, Entries, EntriesOf
  <2> QED  BY <1>3, <2>1, <2>2, EntriesStay DEF Separated
<1>7. EntriesOf(dir', v, openFiles'[v])
  BY <1>4, <1>6 DEF EntriesOf
<1> QED  BY <1>3, <1>4, <1>5, <1>7 DEF Confined

LEMMA OpensConfined ==
    ASSUME Typed, OriginalsOutside, Separated, NEW v \in VMs, Opens(v)
    PROVE  Confined(v)
<1>0. PICK name \in Names, flags \in FlagSets : OpensAs(v, name, flags)
  BY DEF Opens
<1>1. PICK resolved \in Resolutions(v, name), id \in FileIds :
        /\ Finds(resolved, id) \/ Creates(resolved, id)
        /\ openFiles'[v] = With(openFiles[v], nextDescriptor[v],
                                NewEntry(name, flags, resolved, id))
  BY <1>0 DEF OpensAs
<1> DEFINE entry == NewEntry(name, flags, resolved, id)
           next == nextDescriptor[v]
<1>2. /\ entry.name = name /\ entry.hostPath = resolved.path
      /\ entry.shared = resolved.shared /\ entry.file = id
      /\ entry.mode = IF resolved.shared THEN "O_RDONLY" ELSE toHostOpenFlags(flags)
  BY NewEntryType
<1>3. /\ resolved.path \in Paths /\ resolved.shared \in BOOLEAN
      /\ resolved.shared => name \in DOMAIN SharedFiles /\ resolved.path = SharedFiles[name]
      /\ ~resolved.shared => resolved.path[1] = v
  <2>1. Local(v, name)[1] = v
    BY DEF Local
  <2> QED  BY <2>1, ResolutionType
<1>4. openFiles'[v] = With(openFiles[v], next, entry)
  BY <1>1
<1> HIDE DEF entry, next
<1>5. /\ DOMAIN openFiles'[v] = DOMAIN openFiles[v] \cup {next}
      /\ openFiles'[v][next] = entry
      /\ \A d \in DOMAIN openFiles[v] : d # next => openFiles'[v][d] = openFiles[v][d]
  BY <1>4 DEF With
<1>6. /\ DirConfined(v) /\ ContentsConfined(v) /\ Distinct'
      /\ Provenance(v, entry)
      /\ IF entry.shared THEN SharedEntry(dir', entry) ELSE OwnEntry(dir', v, entry)
  <2>1. CASE Finds(resolved, id)
    <3>1. /\ DirConfined(v) /\ ContentsConfined(v) /\ Distinct'
          /\ dir' = dir /\ id = dir[resolved.path] /\ resolved.path \in DOMAIN dir
      BY <2>1 DEF Finds, DirConfined, ContentsConfined, Separated, Distinct
    <3>2. CASE resolved.shared
      <4>1. SharedEntry(dir', entry)
        BY <1>2, <1>3, <3>1, <3>2 DEF SharedEntry
      <4>2. resolved.path[1] \notin VMs
        BY <1>3, <3>2 DEF OriginalsOutside
      <4>3. Provenance(v, entry)
        BY <1>2, <3>1, <3>2, <4>2 DEF Provenance
      <4> QED  BY <1>2, <3>1, <3>2, <4>1, <4>3
    <3>3. CASE ~resolved.shared
      <4>1. \A p \in DOMAIN dir : dir[p] = id => p = resolved.path
        BY <3>1 DEF Separated, Distinct
      <4>2. OwnEntry(dir', v, entry)
        BY <1>2, <1>3, <3>1, <3>3, <4>1 DEF OwnEntry
      <4>3. Provenance(v, entry)
        BY <1>2, <1>3, <3>1, <3>3 DEF Provenance
      <4> QED  BY <1>2, <3>1, <3>3, <4>2, <4>3
    <3> QED  BY <1>3, <3>2, <3>3
  <2>2. CASE Creates(resolved, id)
    <3>1. /\ resolved.path \notin DOMAIN dir /\ ~resolved.shared /\ id \in NewFiles
          /\ dir' = With(dir, resolved.path, id) /\ contents' = With(contents, id, <<>>)
          /\ <<>> \in Seq(Byte)
      BY <2>2 DEF Creates
    <3>2. Distinct /\ resolved.path[1] = v
      BY <1>3, <3>1 DEF Separated
    <3>3. /\ DirConfined(v) /\ ContentsConfined(v) /\ Distinct'
          /\ \A p \in DOMAIN dir' : dir'[p] = id => p = resolved.path
          /\ id \notin DOMAIN contents
      <4>1. DirConfined(v) /\ ContentsConfined(v) /\ Distinct'
        BY <1>3, <3>1, <3>2, NewFileConfined
      <4>2. /\ id \notin DOMAIN contents
            /\ resolved.path \in DOMAIN dir' /\ dir'[resolved.path] = id
        BY <3>1 DEF NewFiles, With
      <4> QED  BY <4>1, <4>2 DEF Distinct
    <3>4. OwnEntry(dir', v, entry)
      BY <1>2, <3>2, <3>3 DEF OwnEntry
    <3> QED  BY <1>2, <3>1, <3>3, <3>4 DEF Provenance
  <2> QED  BY <1>1, <2>1, <2>2
<1>7. ASSUME NEW d \in DOMAIN openFiles'[v]
      PROVE  /\ Provenance(v, openFiles'[v][d])
             /\ IF openFiles'[v][d].shared THEN SharedEntry(dir', openFiles'[v][d])
                ELSE OwnEntry(dir', v, openFiles'[v][d])
  <2>1. CASE d = next
    BY <1>5, <1>6, <2>1
  <2>2. CASE d # next
    <3>1. d \in DOMAIN openFiles[v] /\ openFiles'[v][d] = openFiles[v][d]
      BY <1>5, <2>2
    <3>2. openFiles[v][d].file \in DOMAIN contents
      BY <3>1 DEF Typed, TablesTyped
    <3>3. IF openFiles[v][d].shared THEN SharedEntry(dir, openFiles[v][d])
          ELSE OwnEntry(dir, v, openFiles[v][d])
      BY <3>1 DEF Separated, Entries, EntriesOf
    <3>4. IF openFiles[v][d].shared THEN SharedEntry(dir', openFiles[v][d])
          ELSE OwnEntry(dir', v, openFiles[v][d])
      BY <1>6, <3>2, <3>3, EntriesStay DEF Separated
    <3>5. Provenance(v, openFiles'[v][d])
      BY <3>1 DEF Provenance
    <3> QED  BY <3>1, <3>4, <3>5
  <2> QED  BY <2>1, <2>2
<1>8. EntriesOf(dir', v, openFiles'[v])
  BY <1>7 DEF EntriesOf
<1> QED  BY <1>6, <1>7, <1>8 DEF Confined

LEMMA EffectConfined ==
    ASSUME Typed, OriginalsOutside, Separated, NEW v \in VMs, Effect(v)
    PROVE  Confined(v)
BY KeepsConfined, WritesConfined, CopiesConfined, FailsConfined, OpensConfined DEF Effect

LEMMA SeparatedInit == ASSUME OriginalsOutside PROVE Init => Separated
<1> SUFFICES ASSUME Init PROVE Separated
  OBVIOUS
<1>1. /\ Distinct /\ DOMAIN dir = DOMAIN Initial
      /\ \A p \in DOMAIN dir : contents[dir[p]] = Initial[p]
  BY InitFiles
<1>2. OriginalsUntouched
  BY <1>1, FilesAssumption DEF OriginalsUntouched
<1>3. \A v \in VMs : DOMAIN openFiles[v] = {}
  BY DEF Init
<1> QED  BY <1>1, <1>2, <1>3 DEF Separated, Entries, EntriesOf, Apart

LEMMA SeparatedNext ==
    ASSUME OriginalsOutside
    PROVE  Typed /\ Separated /\ [Next]_vars => Separated'
<1> SUFFICES ASSUME Typed, Separated, [Next]_vars PROVE Separated'
  OBVIOUS
<1>1. ASSUME NEW v \in VMs \ ended,
             (Request(v) /\ UNCHANGED ended) \/ CloseGuestFiles(v)
      PROVE  Separated'
  <2>1. Effect(v)
    BY <1>1, StepEffect
  <2>2. Confined(v)
    BY <2>1, EffectConfined
  <2> QED  BY <2>1, <2>2, ConfinedSeparates DEF Effect
<1>2. CASE UNCHANGED vars
  BY <1>2 DEF vars, Separated, OriginalsUntouched, Distinct, Entries, EntriesOf,
              SharedEntry, OwnEntry, Apart
<1> QED  BY <1>1, <1>2 DEF Next

LEMMA AlwaysSeparated == ASSUME OriginalsOutside PROVE Spec => [](Typed /\ Separated)
<1>1. Init => Separated
  BY SeparatedInit
<1>2. Typed /\ Separated /\ [Next]_vars => Separated'
  BY SeparatedNext
<1> QED  BY <1>1, <1>2, AlwaysTyped, PTL DEF Spec

(* With the originals outside the directories of the VMs, no request of    *)
(* any VM changes one, whatever fails on the way.                          *)
THEOREM NoOriginalIsWritten ==
    ASSUME OriginalsOutside
    PROVE  Spec => []OriginalsUntouched
<1>1. Typed /\ Separated => OriginalsUntouched
  BY DEF Separated
<1> QED  BY <1>1, AlwaysSeparated, PTL

(* What another VM finds and has open does not change in a confined step. *)
LEMMA ConfinedIsolates ==
    ASSUME Typed, OriginalsOutside, Separated, NEW v \in VMs, Only(v), Confined(v),
           NEW u \in VMs, u # v
    PROVE  VisibleFiles(u)' = VisibleFiles(u) /\ VisibleTable(u)' = VisibleTable(u)
<1>1. DirConfined(v) /\ ContentsConfined(v) /\ OriginalsUntouched
  BY DEF Confined, Separated
<1>2. ASSUME NEW n \in Names
      PROVE  /\ resolveFile(u, n)' = resolveFile(u, n)
             /\ resolveFile(u, n).path \in Paths /\ resolveFile(u, n).path[1] # v
  <2>1. Local(u, n) \in Paths /\ Local(u, n)[1] = u
    BY DEF Local, Paths
  <2>2. Local(u, n) \in DOMAIN dir' <=> Local(u, n) \in DOMAIN dir
    BY <1>1, <2>1 DEF DirConfined
  <2>3. n \in DOMAIN SharedFiles => SharedFiles[n] \in Paths /\ SharedFiles[n][1] # v
    BY <1>1, Originals
  <2>4. \/ resolveFile(u, n).path = Local(u, n)
        \/ n \in DOMAIN SharedFiles /\ resolveFile(u, n).path = SharedFiles[n]
    BY DEF resolveFile
  <2>5. resolveFile(u, n)' = resolveFile(u, n)
    BY <2>2 DEF resolveFile
  <2> QED  BY <2>1, <2>3, <2>4, <2>5
<1>3. ASSUME NEW n \in Names
      PROVE  /\ resolveFile(u, n)'.path \in DOMAIN dir' <=> resolveFile(u, n).path \in DOMAIN dir
             /\ resolveFile(u, n).path \in DOMAIN dir =>
                  contents'[dir'[resolveFile(u, n)'.path]]
                    = contents[dir[resolveFile(u, n).path]]
  BY <1>1, <1>2 DEF DirConfined, ContentsConfined
<1>4. VisibleFiles(u)' = VisibleFiles(u)
  <2> DEFINE D == {n \in Names : resolveFile(u, n).path \in DOMAIN dir}
             File(n) == contents[dir[resolveFile(u, n).path]]
             E == {n \in Names : resolveFile(u, n)'.path \in DOMAIN dir'}
             NewFileOf(n) == contents'[dir'[resolveFile(u, n)'.path]]
  <2>1. D = E /\ \A n \in D : File(n) = NewFileOf(n)
    BY <1>3
  <2>2. VisibleFiles(u) = [n \in D |-> File(n)]
    BY DEF VisibleFiles
  <2>3. VisibleFiles(u)' = [n \in E |-> NewFileOf(n)]
    BY DEF VisibleFiles
  <2> HIDE DEF D, E, File, NewFileOf
  <2> QED  BY <2>1, <2>2, <2>3
<1>5. openFiles'[u] = openFiles[u]
  BY OthersStay
<1>6. \A d \in DOMAIN openFiles[u] :
            contents'[openFiles[u][d].file] = contents[openFiles[u][d].file]
  BY <1>1 DEF ContentsConfined
<1>7. VisibleTable(u)' = VisibleTable(u)
  BY <1>5, <1>6 DEF VisibleTable
<1> QED  BY <1>4, <1>7

(* A request, whether it succeeds or fails half way, is visible to the VM  *)
(* that made it at most.                                                   *)
THEOREM RequestsAreIsolated ==
    ASSUME OriginalsOutside
    PROVE  Spec => Isolation
<1> DEFINE Isolated(v) == \A u \in VMs \ {v} : /\ VisibleFiles(u)' = VisibleFiles(u)
                                               /\ VisibleTable(u)' = VisibleTable(u)
           IsolatedStep == \E v \in VMs : Isolated(v)
<1>1. ASSUME Typed, Separated, [Next]_vars PROVE [IsolatedStep]_vars
  <2>1. ASSUME NEW v \in VMs \ ended,
               (Request(v) /\ UNCHANGED ended) \/ CloseGuestFiles(v)
        PROVE  IsolatedStep
    <3>1. Effect(v)
      BY <1>1, <2>1, StepEffect
    <3>2. Confined(v) /\ Only(v)
      BY <1>1, <3>1, EffectConfined DEF Effect
    <3>3. Isolated(v)
      BY <1>1, <3>2, ConfinedIsolates
    <3> QED  BY <3>3
  <2> QED  BY <1>1, <2>1 DEF Next
<1>2. Typed /\ Separated /\ [Next]_vars => [IsolatedStep]_vars
  BY <1>1
<1> QED  BY <1>2, AlwaysSeparated, PTL DEF Spec, Isolation
---------------------------------------------------------------------------
(* Descriptors and names, when no failure goes unnoticed: files are only   *)
(* ever added to the directory.                                            *)

Resolve(directory, v, name) ==
    IF Local(v, name) \notin DOMAIN directory /\ name \in DOMAIN SharedFiles
    THEN [path |-> SharedFiles[name], shared |-> TRUE]
    ELSE [path |-> Local(v, name), shared |-> FALSE]
CoherentEntry(directory, v, o) ==
    /\ Resolve(directory, v, o.name).path \in DOMAIN directory
    /\ o.file = directory[Resolve(directory, v, o.name).path]
    /\ o.hostPath = Resolve(directory, v, o.name).path
    /\ o.shared = Resolve(directory, v, o.name).shared
    /\ o.mode = IF o.shared THEN "O_RDONLY" ELSE toHostOpenFlags(o.flags)
Coherent ==
    /\ \A n \in DOMAIN SharedFiles : SharedFiles[n] \in DOMAIN dir
    /\ \A v \in VMs : \A d \in DOMAIN openFiles[v] : CoherentEntry(dir, v, openFiles[v][d])

(* The names a lookup of v can tell apart. *)
LEMMA ResolveCases ==
    ASSUME NEW v \in VMs, NEW name, NEW directory
    PROVE  /\ Local(v, name) \in DOMAIN directory =>
                /\ Resolve(directory, v, name).path = Local(v, name)
                /\ Resolve(directory, v, name).shared = FALSE
           /\ Local(v, name) \notin DOMAIN directory /\ name \in DOMAIN SharedFiles =>
                /\ Resolve(directory, v, name).path = SharedFiles[name]
                /\ Resolve(directory, v, name).shared = TRUE
           /\ name \notin DOMAIN SharedFiles =>
                /\ Resolve(directory, v, name).path = Local(v, name)
                /\ Resolve(directory, v, name).shared = FALSE
BY DEF Resolve

LEMMA SameTableCoherent ==
    ASSUME NEW v \in VMs, NEW t, NEW u, SameTable(t, u), NEW directory,
           \A d \in DOMAIN t : CoherentEntry(directory, v, t[d])
    PROVE  \A d \in DOMAIN u : CoherentEntry(directory, v, u[d])
<1> SUFFICES ASSUME NEW d \in DOMAIN u PROVE CoherentEntry(directory, v, u[d])
  OBVIOUS
<1>1. SameEntry(t[d], u[d]) /\ CoherentEntry(directory, v, t[d])
  BY DEF SameTable
<1> QED  BY <1>1 DEF SameEntry, CoherentEntry

(* A new file of v changes what one name of v means. *)
LEMMA GrowthCoherent ==
    ASSUME NEW v \in VMs, NEW m, NEW id, dir' = With(dir, Local(v, m), id),
           Local(v, m) \notin DOMAIN dir,
           NEW u \in VMs, NEW o, CoherentEntry(dir, u, o), u # v \/ o.name # m
    PROVE  CoherentEntry(dir', u, o)
<1>1. DOMAIN dir' = DOMAIN dir \cup {Local(v, m)}
  BY DEF With
<1>2. \A p \in DOMAIN dir : dir'[p] = dir[p]
  BY DEF With
<1>3. Local(u, o.name) # Local(v, m)
  BY DEF Local
<1>4. Resolve(dir', u, o.name) = Resolve(dir, u, o.name)
  BY <1>1, <1>3 DEF Resolve
<1> QED  BY <1>1, <1>2, <1>4 DEF CoherentEntry

(* What is left to show when one table has changed. *)
LEMMA CoherentTables ==
    ASSUME Typed, Coherent, NEW v \in VMs, Only(v),
           \A d \in DOMAIN openFiles'[v] : CoherentEntry(dir', v, openFiles'[v][d]),
           \A u \in VMs : u # v => \A d \in DOMAIN openFiles[u] :
                CoherentEntry(dir', u, openFiles[u][d]),
           DOMAIN dir \subseteq DOMAIN dir'
    PROVE  Coherent'
<1>1. ASSUME NEW u \in VMs, NEW d \in DOMAIN openFiles'[u]
      PROVE  CoherentEntry(dir', u, openFiles'[u][d])
  <2>1. CASE u = v
    BY <2>1
  <2>2. CASE u # v
    BY <1>1, <2>2, OthersStay
  <2> QED  BY <2>1, <2>2
<1>2. \A n \in DOMAIN SharedFiles : SharedFiles[n] \in DOMAIN dir'
  BY DEF Coherent
<1> QED  BY <1>1, <1>2 DEF Coherent, CoherentEntry, Resolve

LEMMA CoherentSameDir ==
    ASSUME Typed, Coherent, NEW v \in VMs, Only(v), dir' = dir,
           SameTable(openFiles[v], openFiles'[v])
    PROVE  Coherent'
<1>1. \A u \in VMs : \A d \in DOMAIN openFiles[u] : CoherentEntry(dir', u, openFiles[u][d])
  BY DEF Coherent
<1>2. \A d \in DOMAIN openFiles'[v] : CoherentEntry(dir', v, openFiles'[v][d])
  BY <1>1, SameTableCoherent
<1> QED  BY <1>1, <1>2, CoherentTables

LEMMA CoherentCopies ==
    ASSUME Typed, Coherent, NEW v \in VMs, Only(v), Copies(v)
    PROVE  Coherent'
<1>1. PICK d \in DOMAIN openFiles[v], copy \in NewFiles, new \in Seq(Byte) :
        /\ openFiles[v][d].shared
        /\ Local(v, openFiles[v][d].name) \notin DOMAIN dir
        /\ dir' = With(dir, Local(v, openFiles[v][d].name), copy)
        /\ SameTable(reopenSharedFiles(v, openFiles[v][d].name, copy), openFiles'[v])
  BY DEF Copies
<1> DEFINE name == openFiles[v][d].name
           path == Local(v, name)
           t == reopenSharedFiles(v, name, copy)
<1>2. name \in Names /\ copy \in FileIds
  BY EntryType DEF OpenFileType, NewFiles
<1>3. \A u \in VMs : \A e \in DOMAIN openFiles[u] : CoherentEntry(dir, u, openFiles[u][e])
  BY DEF Coherent
<1>4. name \in DOMAIN SharedFiles
  BY <1>1, <1>3, ResolveCases DEF CoherentEntry
<1>5. DOMAIN dir' = DOMAIN dir \cup {path} /\ dir'[path] = copy
  BY <1>1 DEF With
<1>6. ASSUME NEW e \in DOMAIN t PROVE CoherentEntry(dir', v, t[e])
  <2>1. e \in DOMAIN openFiles[v]
    BY <1>2, ReopenType
  <2>2. CASE openFiles[v][e].shared /\ openFiles[v][e].name = name
    <3>1. /\ t[e].name = name /\ t[e].flags = openFiles[v][e].flags
          /\ t[e].file = copy /\ t[e].hostPath = path /\ ~t[e].shared
          /\ t[e].mode = toHostOpenFlags(openFiles[v][e].flags)
      BY <1>2, <2>1, <2>2, ReopenType
    <3>2. t[e] \in OpenFileType
      BY <1>2, ReopenType DEF IsTable
    <3>3. t[e].shared = FALSE
      BY <3>1, <3>2 DEF OpenFileType
    <3>4. Resolve(dir', v, t[e].name).path = path /\ Resolve(dir', v, t[e].name).shared = FALSE
      <4>1. path \in DOMAIN dir'
        BY <1>5
      <4>2. Resolve(dir', v, name) = [path |-> path, shared |-> FALSE]
        BY <4>1 DEF Resolve
      <4> QED  BY <3>1, <4>2
    <3> QED  BY <1>5, <3>1, <3>3, <3>4 DEF CoherentEntry
  <2>3. CASE openFiles[v][e].name # name
    <3>1. t[e] = openFiles[v][e]
      BY <1>2, <2>1, <2>3, ReopenType
    <3> QED  BY <1>1, <1>3, <2>1, <2>3, <3>1, GrowthCoherent
  <2>4. CASE ~openFiles[v][e].shared /\ openFiles[v][e].name = name
    <3>1. Resolve(dir, v, name).shared = TRUE
      BY <1>1, <1>4, ResolveCases
    <3> QED  BY <1>3, <2>1, <2>4, <3>1 DEF CoherentEntry
  <2> QED  BY <2>2, <2>3, <2>4
<1>7. \A e \in DOMAIN openFiles'[v] : CoherentEntry(dir', v, openFiles'[v][e])
  BY <1>1, <1>6, SameTableCoherent
<1>8. \A u \in VMs : u # v => \A e \in DOMAIN openFiles[u] :
            CoherentEntry(dir', u, openFiles[u][e])
  BY <1>1, <1>3, GrowthCoherent
<1> QED  BY <1>5, <1>7, <1>8, CoherentTables

LEMMA CoherentOpens ==
    ASSUME Typed, Coherent, HostFaults = {}, NEW v \in VMs, Only(v), Opens(v)
    PROVE  Coherent'
<1>0. PICK name \in Names, flags \in FlagSets : OpensAs(v, name, flags)
  BY DEF Opens
<1>1. PICK resolved \in Resolutions(v, name), id \in FileIds :
        /\ Finds(resolved, id) \/ Creates(resolved, id)
        /\ openFiles'[v] = With(openFiles[v], nextDescriptor[v],
                                NewEntry(name, flags, resolved, id))
  BY <1>0 DEF OpensAs
<1> DEFINE entry == NewEntry(name, flags, resolved, id)
           next == nextDescriptor[v]
<1>2. /\ entry.name = name /\ entry.flags = flags /\ entry.hostPath = resolved.path
      /\ entry.shared = resolved.shared /\ entry.file = id
      /\ entry.mode = IF resolved.shared THEN "O_RDONLY" ELSE toHostOpenFlags(flags)
  BY NewEntryType
<1>3. resolved = Resolve(dir, v, name)
  BY DEF Resolutions, resolveFile, Resolve
<1>4. openFiles'[v] = With(openFiles[v], next, entry)
  BY <1>1
<1> HIDE DEF entry, next
<1>5. /\ DOMAIN openFiles'[v] = DOMAIN openFiles[v] \cup {next}
      /\ openFiles'[v][next] = entry
      /\ \A d \in DOMAIN openFiles[v] : d # next => openFiles'[v][d] = openFiles[v][d]
  BY <1>4 DEF With
<1>6. \A u \in VMs : \A e \in DOMAIN openFiles[u] : CoherentEntry(dir, u, openFiles[u][e])
  BY DEF Coherent
<1>7. /\ \A u \in VMs : \A e \in DOMAIN openFiles[u] : CoherentEntry(dir', u, openFiles[u][e])
      /\ CoherentEntry(dir', v, entry) /\ DOMAIN dir \subseteq DOMAIN dir'
  <2>1. CASE Finds(resolved, id)
    BY <1>2, <1>3, <1>6, <2>1 DEF Finds, CoherentEntry
  <2>2. CASE Creates(resolved, id)
    <3>1. resolved.path \notin DOMAIN dir /\ ~resolved.shared
          /\ dir' = With(dir, resolved.path, id)
      BY <2>2 DEF Creates
    <3>2. name \notin DOMAIN SharedFiles /\ resolved.path = Local(v, name)
      BY <1>3, <3>1 DEF Resolve
    <3>3. DOMAIN dir' = DOMAIN dir \cup {Local(v, name)} /\ dir'[Local(v, name)] = id
      BY <3>1, <3>2 DEF With
    <3>4. /\ Resolve(dir', v, name).path = Local(v, name)
          /\ Resolve(dir', v, name).shared = FALSE
          /\ resolved.shared = FALSE
      <4>1. Resolve(dir', v, name) = [path |-> Local(v, name), shared |-> FALSE]
        BY <3>2 DEF Resolve
      <4>2. resolved = [path |-> Local(v, name), shared |-> FALSE]
        BY <1>3, <3>2 DEF Resolve
      <4> QED  BY <4>1, <4>2
    <3>5. CoherentEntry(dir', v, entry)
      BY <1>2, <3>2, <3>3, <3>4 DEF CoherentEntry
    <3>6. ASSUME NEW u \in VMs, NEW e \in DOMAIN openFiles[u]
          PROVE  CoherentEntry(dir', u, openFiles[u][e])
      <4>1. u # v \/ openFiles[u][e].name # name
        BY <1>3, <1>6, <3>1 DEF CoherentEntry
      <4> QED  BY <1>6, <3>1, <3>2, <4>1, GrowthCoherent
    <3> QED  BY <3>3, <3>5, <3>6
  <2> QED  BY <1>1, <2>1, <2>2
<1>8. \A d \in DOMAIN openFiles'[v] : CoherentEntry(dir', v, openFiles'[v][d])
  BY <1>5, <1>7
<1> QED  BY <1>7, <1>8, CoherentTables

LEMMA CoherentFails ==
    ASSUME Typed, Coherent, HostFaults = {}, NEW v \in VMs, Only(v), Fails(v)
    PROVE  UNCHANGED <<dir, contents, openFiles>>
<1>1. PICK d \in DOMAIN openFiles[v] :
            openFiles[v][d].shared /\ PrepareFails(v, openFiles[v][d])
  BY DEF Fails
<1>2. Local(v, openFiles[v][d].name) \notin DOMAIN dir
  BY <1>1, ResolveCases DEF Coherent, CoherentEntry
<1> QED  BY <1>1, <1>2 DEF PrepareFails, Fails

LEMMA CoherentStutter ==
    ASSUME Coherent, dir' = dir, openFiles' = openFiles
    PROVE  Coherent'
<1>1. \A n \in DOMAIN SharedFiles : SharedFiles[n] \in DOMAIN dir'
  BY DEF Coherent
<1>2. \A u \in VMs : \A d \in DOMAIN openFiles'[u] : CoherentEntry(dir', u, openFiles'[u][d])
  BY DEF Coherent
<1> QED  BY <1>1, <1>2 DEF Coherent, CoherentEntry, Resolve

LEMMA CoherentNext ==
    ASSUME HostFaults = {}
    PROVE  Typed /\ Coherent /\ [Next]_vars => Coherent'
<1> SUFFICES ASSUME Typed, Coherent, [Next]_vars PROVE Coherent'
  OBVIOUS
<1>1. ASSUME NEW v \in VMs \ ended,
             (Request(v) /\ UNCHANGED ended) \/ CloseGuestFiles(v)
      PROVE  Coherent'
  <2>1. Effect(v) /\ Only(v)
    BY <1>1, StepEffect DEF Effect
  <2>2. CASE Keeps(v) \/ Writes(v)
    BY <2>1, <2>2, CoherentSameDir DEF Keeps, Writes
  <2>3. CASE Opens(v)
    BY <2>1, <2>3, CoherentOpens
  <2>4. CASE Copies(v)
    BY <2>1, <2>4, CoherentCopies
  <2>5. CASE Fails(v)
    <3>1. UNCHANGED <<dir, contents, openFiles>>
      BY <2>1, <2>5, CoherentFails
    <3> QED  BY <3>1, CoherentStutter
  <2> QED  BY <2>1, <2>2, <2>3, <2>4, <2>5 DEF Effect
<1>2. CASE UNCHANGED vars
  BY <1>2, CoherentStutter DEF vars
<1> QED  BY <1>1, <1>2 DEF Next

LEMMA CoherentInit == Init => Coherent
<1> SUFFICES ASSUME Init PROVE Coherent
  OBVIOUS
<1>1. \A v \in VMs : DOMAIN openFiles[v] = {}
  BY DEF Init
<1>2. DOMAIN dir = DOMAIN Initial
  BY InitFiles
<1> QED  BY <1>1, <1>2, FilesAssumption DEF Coherent

LEMMA AlwaysCoherent == ASSUME HostFaults = {} PROVE Spec => [](Typed /\ Coherent)
<1>1. Typed /\ Coherent /\ [Next]_vars => Coherent'
  BY CoherentNext
<1> QED  BY <1>1, CoherentInit, AlwaysTyped, PTL DEF Spec

(* As long as exists and remove do not fail, every descriptor of a VM      *)
(* refers to the file its name means now, in the mode it was opened with.  *)
THEOREM DescriptorsAgree ==
    ASSUME HostFaults = {}
    PROVE  Spec => []CoherentDescriptors
<1>1. Typed /\ Coherent => CoherentDescriptors
  BY DEF Coherent, CoherentEntry, CoherentDescriptors, Resolve, resolveFile
<1> QED  BY <1>1, AlwaysCoherent, PTL
---------------------------------------------------------------------------
(* Copy-on-write is invisible.                                             *)

(* What v sees of a directory and of contents. *)
Sees(directory, v) == {n \in Names : Resolve(directory, v, n).path \in DOMAIN directory}
FilesSeen(directory, c, v) ==
    [n \in Sees(directory, v) |-> c[directory[Resolve(directory, v, n).path]]]

LEMMA VisibleIsSeen ==
    ASSUME NEW v \in VMs
    PROVE  /\ VisibleFiles(v) = FilesSeen(dir, contents, v)
           /\ VisibleFiles(v)' = FilesSeen(dir', contents', v)
BY DEF VisibleFiles, FilesSeen, Sees, resolveFile, Resolve

(* An open descriptor reads what its name shows. *)
LEMMA DescriptorShows ==
    ASSUME Typed, Coherent, NEW v \in VMs, NEW d \in DOMAIN openFiles[v]
    PROVE  /\ openFiles[v][d].name \in DOMAIN VisibleFiles(v)
           /\ VisibleFiles(v)[openFiles[v][d].name] = contents[openFiles[v][d].file]
<1>1. openFiles[v][d].name \in Names
  BY EntryType DEF OpenFileType
<1>2. CoherentEntry(dir, v, openFiles[v][d])
  BY DEF Coherent
<1>3. openFiles[v][d].name \in Sees(dir, v)
  BY <1>1, <1>2 DEF CoherentEntry, Sees
<1>4. /\ openFiles[v][d].name \in DOMAIN FilesSeen(dir, contents, v)
      /\ FilesSeen(dir, contents, v)[openFiles[v][d].name]
            = contents[dir[Resolve(dir, v, openFiles[v][d].name).path]]
  BY <1>3 DEF FilesSeen
<1>5. dir[Resolve(dir, v, openFiles[v][d].name).path] = openFiles[v][d].file
  BY <1>2 DEF CoherentEntry
<1> QED  BY <1>4, <1>5, VisibleIsSeen

(* A write to a private file changes what one name shows ... *)
LEMMA SeenAfterWrite ==
    ASSUME Typed, OriginalsOutside, Separated, Coherent,
           NEW v \in VMs, NEW d \in DOMAIN openFiles[v], NEW new,
           ~openFiles[v][d].shared, dir' = dir,
           contents' = [contents EXCEPT ![openFiles[v][d].file] = new]
    PROVE  VisibleFiles(v)' = [VisibleFiles(v) EXCEPT ![openFiles[v][d].name] = new]
<1> DEFINE o == openFiles[v][d]
           F == FilesSeen(dir, contents, v)
           G == FilesSeen(dir', contents', v)
           Path(n) == Resolve(dir, v, n).path
<1>1. o \in OpenFileType /\ o.file \in DOMAIN contents /\ o.name \in Names
  BY EntryType DEF OpenFileType
<1>2. CoherentEntry(dir, v, o)
  BY DEF Coherent
<1>3. Path(o.name) = Local(v, o.name) /\ o.file = dir[Path(o.name)] /\ Path(o.name) \in DOMAIN dir
  BY <1>2, ResolveCases DEF CoherentEntry, Resolve
<1>4. ASSUME NEW n \in Names, Path(n) \in DOMAIN dir, n # o.name
      PROVE  dir[Path(n)] # o.file
  <2>1. \/ Path(n) = Local(v, n)
        \/ n \in DOMAIN SharedFiles /\ Path(n) = SharedFiles[n]
    BY DEF Resolve
  <2>2. Path(n) # Local(v, o.name)
    <3>1. Local(v, o.name)[1] = v /\ Local(v, n) # Local(v, o.name)
      BY <1>4 DEF Local
    <3> QED  BY <2>1, <3>1, Originals DEF Separated
  <2> QED  BY <1>3, <1>4, <2>2 DEF Separated, Distinct
<1>5. DOMAIN F = Sees(dir, v) /\ DOMAIN G = Sees(dir, v)
  BY DEF FilesSeen
<1>6. \A n \in Sees(dir, v) : F[n] = contents[dir[Path(n)]] /\ G[n] = contents'[dir[Path(n)]]
  BY DEF FilesSeen
<1>7. \A f \in DOMAIN contents : contents'[f] = IF f = o.file THEN new ELSE contents[f]
  BY DEF Typed, FilesTyped
<1>8. ASSUME NEW n \in Sees(dir, v) PROVE G[n] = IF n = o.name THEN new ELSE F[n]
  <2>1. n \in Names /\ Path(n) \in DOMAIN dir /\ dir[Path(n)] \in DOMAIN contents
    BY DEF Sees, Typed, FilesTyped
  <2> QED  BY <1>3, <1>4, <1>6, <1>7, <2>1
<1>9. G = [n \in Sees(dir, v) |-> G[n]] /\ F = [n \in Sees(dir, v) |-> F[n]]
  BY DEF FilesSeen
<1> HIDE DEF F, G, Path
<1>10. G = [F EXCEPT ![o.name] = new]
  BY <1>5, <1>8, <1>9
<1> QED  BY <1>10, VisibleIsSeen DEF F, G

(* ... and so does a new file. *)
LEMMA SeenAfterNewFile ==
    ASSUME Typed, OriginalsOutside, Separated,
           NEW v \in VMs, NEW m \in Names, Local(v, m) \notin DOMAIN dir,
           NEW id \in NewFiles, NEW s,
           dir' = With(dir, Local(v, m), id), contents' = With(contents, id, s)
    PROVE  VisibleFiles(v)' = With(VisibleFiles(v), m, s)
<1> DEFINE F == FilesSeen(dir, contents, v)
           G == FilesSeen(dir', contents', v)
<1>1. /\ DOMAIN dir' = DOMAIN dir \cup {Local(v, m)} /\ dir'[Local(v, m)] = id
      /\ \A p \in DOMAIN dir : dir'[p] = dir[p]
  BY DEF With
<1>2. /\ id \notin DOMAIN contents /\ contents'[id] = s
      /\ \A f \in DOMAIN contents : f # id => contents'[f] = contents[f]
  BY DEF With, NewFiles
<1>3. DOMAIN F = Sees(dir, v) /\ DOMAIN G = Sees(dir', v)
  BY DEF FilesSeen
<1>4. /\ \A n \in Sees(dir, v) : F[n] = contents[dir[Resolve(dir, v, n).path]]
      /\ \A n \in Sees(dir', v) : G[n] = contents'[dir'[Resolve(dir', v, n).path]]
  BY DEF FilesSeen
<1>5. G = [n \in Sees(dir', v) |-> G[n]]
  BY DEF FilesSeen
<1> HIDE DEF F, G
<1>6. ASSUME NEW n \in Names, n # m
      PROVE  /\ n \in Sees(dir', v) <=> n \in Sees(dir, v)
             /\ n \in Sees(dir, v) => G[n] = F[n]
  <2>1. Local(v, n) # Local(v, m)
    BY <1>6 DEF Local
  <2>2. Resolve(dir', v, n) = Resolve(dir, v, n)
    BY <1>1, <2>1 DEF Resolve
  <2>3. Resolve(dir, v, n).path # Local(v, m)
    <3>1. \/ Resolve(dir, v, n).path = Local(v, n)
          \/ n \in DOMAIN SharedFiles /\ Resolve(dir, v, n).path = SharedFiles[n]
      BY DEF Resolve
    <3>2. Local(v, m)[1] = v
      BY DEF Local
    <3> QED  BY <2>1, <3>1, <3>2, Originals DEF Separated
  <2>4. n \in Sees(dir', v) <=> n \in Sees(dir, v)
    BY <1>1, <2>2, <2>3 DEF Sees
  <2>5. ASSUME n \in Sees(dir, v) PROVE G[n] = F[n]
    <3>1. Resolve(dir, v, n).path \in DOMAIN dir
      BY <2>5 DEF Sees
    <3>2. dir[Resolve(dir, v, n).path] \in DOMAIN contents
      BY <3>1 DEF Typed, FilesTyped
    <3> QED  BY <1>1, <1>2, <1>4, <2>2, <2>4, <2>5, <3>1, <3>2
  <2> QED  BY <2>4, <2>5
<1>7. m \in Sees(dir', v) /\ G[m] = s
  <2>1. Resolve(dir', v, m).path = Local(v, m)
    BY <1>1 DEF Resolve
  <2> QED  BY <1>1, <1>2, <1>4, <2>1 DEF Sees
<1>8. Sees(dir', v) = Sees(dir, v) \cup {m}
  BY <1>6, <1>7 DEF Sees
<1>9. \A n \in Sees(dir', v) : G[n] = IF n = m THEN s ELSE F[n]
  BY <1>6, <1>7 DEF Sees
<1>10. G = With(F, m, s)
  BY <1>3, <1>5, <1>8, <1>9 DEF With
<1> QED  BY <1>10, VisibleIsSeen DEF F, G

(* What the guest is told of its descriptors. *)
LEMMA ViewWith ==
    ASSUME NEW t, NEW d, NEW o
    PROVE  View(With(t, d, o))
             = With(View(t), d, [name |-> o.name, flags |-> o.flags, offset |-> o.offset])
BY DEF View, With

LEMMA ViewWithout ==
    ASSUME NEW t, NEW d
    PROVE  View(Without(t, d)) = Without(View(t), d)
BY DEF View, Without

(* A table, or the view of one, when descriptor d has moved. *)
Moved(t, d, position) == [t EXCEPT ![d].offset = position]

LEMMA ViewMove ==
    ASSUME NEW t, IsTable(t), NEW d \in DOMAIN t, NEW position \in Nat
    PROVE  /\ View(Moved(t, d, position)) = Moved(View(t), d, position)
           /\ DOMAIN View(t) = DOMAIN t
           /\ \A e \in DOMAIN t : /\ View(t)[e].name = t[e].name
                                  /\ View(t)[e].flags = t[e].flags
                                  /\ View(t)[e].offset = t[e].offset
<1> DEFINE u == [t EXCEPT ![d].offset = position]
           Line(o) == [name |-> o.name, flags |-> o.flags, offset |-> o.offset]
<1>1. /\ DOMAIN View(t) = DOMAIN t /\ \A e \in DOMAIN t : View(t)[e] = Line(t[e])
      /\ View(t) = [e \in DOMAIN t |-> View(t)[e]]
  BY DEF View
<1>2. /\ SameTable(t, u) /\ DOMAIN u = DOMAIN t /\ u[d].offset = position
      /\ \A e \in DOMAIN t : e # d => u[e] = t[e]
  BY MoveEntry
<1> HIDE DEF u
<1>3. View(u) = [e \in DOMAIN t |-> Line(u[e])]
  BY <1>2 DEF View
<1>4. u[d].name = t[d].name /\ u[d].flags = t[d].flags
  BY <1>2 DEF SameTable, SameEntry
<1>5. Line(u[d]) = [Line(t[d]) EXCEPT !.offset = position]
  BY <1>2, <1>4
<1>6. \A e \in DOMAIN t : e # d => Line(u[e]) = Line(t[e])
  BY <1>2
<1> HIDE DEF Line
<1>7. View(u) = Moved(View(t), d, position)
  BY <1>1, <1>3, <1>5, <1>6 DEF Moved
<1>8. \A e \in DOMAIN t : /\ Line(t[e]).name = t[e].name /\ Line(t[e]).flags = t[e].flags
                          /\ Line(t[e]).offset = t[e].offset
  BY DEF Line
<1> QED  BY <1>1, <1>7, <1>8 DEF u, Moved

LEMMA ViewReopen ==
    ASSUME Typed, NEW v \in VMs, NEW name \in Names, NEW copy \in FileIds
    PROVE  View(reopenSharedFiles(v, name, copy)) = View(openFiles[v])
<1> DEFINE t == reopenSharedFiles(v, name, copy)
<1>1. DOMAIN t = DOMAIN openFiles[v]
  BY ReopenType
<1>2. ASSUME NEW e \in DOMAIN openFiles[v]
      PROVE  /\ t[e].name = openFiles[v][e].name /\ t[e].flags = openFiles[v][e].flags
             /\ t[e].offset = openFiles[v][e].offset
  BY ReopenType
<1> HIDE DEF t
<1>3. View(t) = View(openFiles[v])
  BY <1>1, <1>2 DEF View
<1> QED  BY <1>3 DEF t

(* Only v's files and descriptors change in what all guests see. *)
LEMMA OnlyOneSees ==
    ASSUME Typed, OriginalsOutside, Separated, NEW v \in VMs, Only(v), Confined(v)
    PROVE  /\ allFiles' = [allFiles EXCEPT ![v] = VisibleFiles(v)']
           /\ allTables' = [allTables EXCEPT ![v] = View(openFiles'[v])]
<1>1. \A u \in VMs : u # v => VisibleFiles(u)' = VisibleFiles(u)
  BY ConfinedIsolates
<1>2. \A u \in VMs : u # v => openFiles'[u] = openFiles[u]
  BY OthersStay
<1>3. allFiles' = [u \in VMs |-> VisibleFiles(u)']
  BY DEF allFiles
<1>4. allTables' = [u \in VMs |-> View(openFiles'[u])]
  BY DEF allTables, View
<1>5. allFiles' = [allFiles EXCEPT ![v] = VisibleFiles(v)']
  BY <1>1, <1>3 DEF allFiles
<1>6. allTables' = [allTables EXCEPT ![v] = View(openFiles'[v])]
  BY <1>2, <1>4 DEF allTables
<1> QED  BY <1>5, <1>6

(* Each request of v is a step of the private file system of v. *)
Sound == Typed /\ Separated /\ Coherent /\ Bounded

LEMMA SeenBy ==
    ASSUME NEW v \in VMs
    PROVE  allFiles[v] = VisibleFiles(v) /\ allTables[v] = View(openFiles[v])
BY DEF allFiles, allTables

LEMMA SameFiles ==
    ASSUME dir' = dir, contents' = contents, NEW v \in VMs
    PROVE  VisibleFiles(v)' = VisibleFiles(v)
BY VisibleIsSeen

LEMMA SameForAll ==
    ASSUME UNCHANGED <<dir, contents, openFiles>>
    PROVE  allFiles' = allFiles /\ allTables' = allTables
<1>1. allFiles' = allFiles
  BY SameFiles DEF allFiles
<1>2. allTables' = allTables
  BY DEF allTables, View
<1> QED  BY <1>1, <1>2

LEMMA AsRefuse ==
    ASSUME NEW v \in VMs, Answer(v, -1, <<>>),
           UNCHANGED <<dir, contents, openFiles, nextDescriptor>>
    PROVE  Private!Refuse(v)
BY SameForAll DEF Answer, Private!Refuse, Private!Answer

LEMMA AsOpen ==
    ASSUME OriginalsOutside, HostFaults = {}, Sound,
           NEW v \in VMs, NEW name \in Names, NEW flags \in FlagSets, OpenFile(v, name, flags)
    PROVE  \/ Private!Refuse(v)
           \/ /\ flags \in SUBSET {"READ", "WRITE", "READ_WRITE", "CREATE"}
              /\ Private!Open(v, name, flags)
<1>1. CASE Reject(v)
  BY <1>1, AsRefuse DEF Reject
<1>2. ASSUME areValidOpenFlags(flags), NEW resolved \in Resolutions(v, name), NEW id \in FileIds,
             \/ Finds(resolved, id)
             \/ Creates(resolved, id) /\ "CREATE" \in flags,
             Enter(v, name, flags, resolved, id)
      PROVE  /\ flags \in SUBSET {"READ", "WRITE", "READ_WRITE", "CREATE"}
             /\ Private!Open(v, name, flags)
  <2> DEFINE entry == NewEntry(name, flags, resolved, id)
  <2>1. flags \in SUBSET {"READ", "WRITE", "READ_WRITE", "CREATE"}
    BY <1>2, FilesAssumption DEF areValidOpenFlags, Flags
  <2>2. openFiles' = [openFiles EXCEPT ![v] = With(openFiles[v], nextDescriptor[v], entry)]
    BY <1>2 DEF Enter, NewEntry
  <2>3. Only(v) /\ openFiles'[v] = With(openFiles[v], nextDescriptor[v], entry)
    BY <2>2, OneTable DEF Sound, Typed, TablesTyped
  <2>4. Opens(v)
    BY <1>2, <2>3 DEF Opens, OpensAs, Enter
  <2>5. Confined(v)
    BY <2>4, OpensConfined DEF Sound
  <2>6. /\ allFiles' = [allFiles EXCEPT ![v] = VisibleFiles(v)']
        /\ allTables' = [allTables EXCEPT ![v] = View(openFiles'[v])]
    BY <2>3, <2>5, OnlyOneSees DEF Sound
  <2>7. View(openFiles'[v]) = With(View(openFiles[v]), nextDescriptor[v],
                                   [name |-> name, flags |-> flags, offset |-> 0])
    <3>1. entry.name = name /\ entry.flags = flags /\ entry.offset = 0
      BY NewEntryType
    <3> QED  BY <2>3, <3>1, ViewWith
  <2>8. resolved = Resolve(dir, v, name)
    BY DEF Resolutions, resolveFile, Resolve
  <2>9. /\ name \in DOMAIN VisibleFiles(v) \/ "CREATE" \in flags
        /\ VisibleFiles(v)' = IF name \in DOMAIN VisibleFiles(v) THEN VisibleFiles(v)
                              ELSE With(VisibleFiles(v), name, <<>>)
    <3>1. DOMAIN VisibleFiles(v) = Sees(dir, v)
      BY VisibleIsSeen DEF FilesSeen
    <3>2. CASE Finds(resolved, id)
      <4>1. name \in Sees(dir, v)
        BY <2>8, <3>2 DEF Finds, Sees
      <4> QED  BY <3>1, <3>2, <4>1, SameFiles DEF Finds
    <3>3. CASE Creates(resolved, id) /\ "CREATE" \in flags
      <4>1. name \notin Sees(dir, v)
        BY <2>8, <3>3 DEF Creates, Sees
      <4>2. resolved.path = Local(v, name)
        BY <3>3, ResolutionType DEF Creates
      <4>3. VisibleFiles(v)' = With(VisibleFiles(v), name, <<>>)
        BY <3>3, <4>2, SeenAfterNewFile DEF Creates, Sound
      <4> QED  BY <3>1, <3>3, <4>1, <4>3
    <3> QED  BY <1>2, <3>2, <3>3
  <2>10. Private!Open(v, name, flags)
    BY <1>2, <2>6, <2>7, <2>9, SeenBy
       DEF Private!Open, Private!Answer, Private!With, With, Answer, Enter
  <2> QED  BY <2>1, <2>10
<1>3. ASSUME areValidOpenFlags(flags), NEW resolved \in Resolutions(v, name),
             resolved.path \in DOMAIN dir,
             Enter(v, name, flags, resolved, dir[resolved.path]), UNCHANGED <<dir, contents>>
      PROVE  /\ flags \in SUBSET {"READ", "WRITE", "READ_WRITE", "CREATE"}
             /\ Private!Open(v, name, flags)
  <2>1. dir[resolved.path] \in FileIds
    BY <1>3 DEF Sound, Typed, FilesTyped
  <2> QED  BY <1>2, <1>3, <2>1 DEF Finds
<1>4. ASSUME areValidOpenFlags(flags), NEW resolved \in Resolutions(v, name),
             resolved.path \notin DOMAIN dir, ~resolved.shared, "CREATE" \in flags,
             NEW id \in NewFiles,
             dir' = With(dir, resolved.path, id), contents' = With(contents, id, <<>>),
             Enter(v, name, flags, resolved, id)
      PROVE  /\ flags \in SUBSET {"READ", "WRITE", "READ_WRITE", "CREATE"}
             /\ Private!Open(v, name, flags)
  BY <1>2, <1>4 DEF Creates, NewFiles
<1> QED  BY <1>1, <1>3, <1>4 DEF OpenFile

LEMMA AsClose ==
    ASSUME OriginalsOutside, Sound, NEW v \in VMs, NEW d, CloseFile(v, d)
    PROVE  Private!Refuse(v) \/ (d \in DOMAIN allTables[v] /\ Private!Close(v, d))
<1>1. CASE Reject(v)
  BY <1>1, AsRefuse DEF Reject
<1>2. CASE /\ IsOpen(v, d)
           /\ openFiles' = [openFiles EXCEPT ![v] = Without(@, d)]
           /\ \E result \in {0, -1} : Answer(v, result, <<>>)
           /\ UNCHANGED <<dir, contents, nextDescriptor>>
  <2>1. Only(v) /\ openFiles'[v] = Without(openFiles[v], d)
    BY <1>2, OneTable DEF Sound, Typed, TablesTyped
  <2>2. Effect(v)
    BY CloseEffect DEF Sound
  <2>3. /\ allFiles' = [allFiles EXCEPT ![v] = VisibleFiles(v)']
        /\ allTables' = [allTables EXCEPT ![v] = Without(View(openFiles[v]), d)]
    BY <2>1, <2>2, EffectConfined, OnlyOneSees, ViewWithout DEF Sound
  <2>4. allFiles' = allFiles
    BY <1>2, SameFiles DEF allFiles
  <2>5. d \in DOMAIN allTables[v]
    BY <1>2, SeenBy DEF IsOpen, View
  <2>6. Private!Close(v, d)
    BY <1>2, <2>3, <2>4, <2>5, SeenBy
       DEF Private!Close, Private!Answer, Private!Without, Without, Answer
  <2> QED  BY <2>5, <2>6
<1> QED  BY <1>1, <1>2 DEF CloseFile

LEMMA AsCloseAll ==
    ASSUME OriginalsOutside, Sound, NEW v \in VMs, CloseGuestFiles(v)
    PROVE  Private!CloseAll(v)
<1>1. openFiles' = [openFiles EXCEPT ![v] = <<>>]
  BY DEF CloseGuestFiles
<1>2. Only(v) /\ openFiles'[v] = <<>>
  BY <1>1, OneTable DEF Sound, Typed, TablesTyped
<1>3. Effect(v)
  BY EndEffect DEF Sound
<1>4. allTables' = [allTables EXCEPT ![v] = View(<<>>)]
  BY <1>2, <1>3, EffectConfined, OnlyOneSees DEF Sound
<1>5. View(<<>>) = <<>>
  BY DEF View
<1>6. allFiles' = allFiles
  BY SameFiles DEF allFiles, CloseGuestFiles
<1> QED  BY <1>4, <1>5, <1>6 DEF Private!CloseAll, CloseGuestFiles

(* What all see when v's descriptor d has moved. *)
MovedIn(tables, v, d, position) == [tables EXCEPT ![v][d].offset = position]

LEMMA TableMoves ==
    ASSUME Typed, NEW v \in VMs, NEW d \in DOMAIN openFiles[v], NEW position \in Nat,
           openFiles' = MovedIn(openFiles, v, d, position),
           UNCHANGED <<dir, contents, nextDescriptor>>
    PROVE  /\ allFiles' = allFiles
           /\ allTables' = MovedIn(allTables, v, d, position)
<1> DEFINE t == Moved(openFiles[v], d, position)
<1>1. openFiles' = [openFiles EXCEPT ![v] = t]
  BY DEF MovedIn, Moved
<1>2. Only(v) /\ openFiles'[v] = t
  BY <1>1, OneTable DEF Typed, TablesTyped
<1>3. View(t) = Moved(View(openFiles[v]), d, position)
  <2>1. IsTable(openFiles[v])
    BY DEF Typed, TablesTyped
  <2> QED  BY <2>1, ViewMove
<1> HIDE DEF t
<1>4. \A u \in VMs : u # v => openFiles'[u] = openFiles[u]
  BY <1>2, OthersStay
<1>5. allTables' = [u \in VMs |-> View(openFiles'[u])]
  BY DEF allTables, View
<1>6. allTables' = [allTables EXCEPT ![v] = View(openFiles'[v])]
  BY <1>4, <1>5 DEF allTables
<1>7. allFiles' = allFiles
  BY SameFiles DEF allFiles
<1>8. allTables' = [allTables EXCEPT ![v] = Moved(allTables[v], d, position)]
  BY <1>2, <1>3, <1>6, SeenBy
<1> QED  BY <1>7, <1>8 DEF MovedIn, Moved

(* What the guest is told of one descriptor. *)
LEMMA LineSeen ==
    ASSUME Typed, NEW v \in VMs, NEW d \in DOMAIN openFiles[v]
    PROVE  /\ d \in DOMAIN allTables[v]
           /\ allTables[v][d].name = openFiles[v][d].name
           /\ allTables[v][d].flags = openFiles[v][d].flags
           /\ allTables[v][d].offset = openFiles[v][d].offset
<1>1. allTables[v] = View(openFiles[v])
  BY SeenBy
<1>2. /\ d \in DOMAIN View(openFiles[v])
      /\ View(openFiles[v])[d] = [name |-> openFiles[v][d].name, flags |-> openFiles[v][d].flags,
                                 offset |-> openFiles[v][d].offset]
  BY DEF View
<1> QED  BY <1>1, <1>2

LEMMA AsRead ==
    ASSUME Sound, NEW v \in VMs, NEW d, NEW count \in -1..MaxCount, NEW inside,
           ReadFile(v, d, count, inside)
    PROVE  \/ Private!Refuse(v)
           \/ /\ d \in DOMAIN allTables[v] /\ count \in 0..MaxCount
              /\ Private!Read(v, d, count)
<1> DEFINE data == Slice(contents[openFiles[v][d].file], openFiles[v][d].offset, count)
<1>1. CASE Reject(v)
  BY <1>1, AsRefuse DEF Reject
<1>2. CASE /\ MayReadFile(v, d, count)
           /\ Answer(v, Len(data), data)
           /\ openFiles' = [openFiles EXCEPT ![v][d].offset = @ + Len(data)]
           /\ UNCHANGED <<dir, contents, nextDescriptor>>
  <2>1. d \in DOMAIN openFiles[v] /\ count \in 0..MaxCount /\ count \in Nat
    BY <1>2, FilesAssumption DEF MayReadFile, IsOpen
  <2>2. Typed /\ Coherent
    BY DEF Sound
  <2>3. data \in Seq(Byte)
    BY <2>1, <2>2, EntryType, SliceIsSeq
  <2>4. data = Private!Slice(allFiles[v][allTables[v][d].name], allTables[v][d].offset, count)
    BY <2>1, <2>2, LineSeen, DescriptorShows, SeenBy
       DEF Slice, Smaller, Private!Slice, Private!Smaller
  <2>5. allTables[v][d].flags \cap {"READ", "READ_WRITE"} # {}
    <3>1. openFiles[v][d].flags \cap {"READ", "READ_WRITE"} # {}
      BY <1>2 DEF MayReadFile, hasReadAccess, accessMode
    <3> QED  BY <2>1, <2>2, <3>1, LineSeen
  <2> HIDE DEF data
  <2>6. openFiles[v][d].offset + Len(data) \in Nat
    BY <2>1, <2>2, <2>3, EntryType
  <2>7. openFiles' = MovedIn(openFiles, v, d, openFiles[v][d].offset + Len(data))
    BY <1>2 DEF MovedIn
  <2>8. /\ allFiles' = allFiles
        /\ allTables' = MovedIn(allTables, v, d, openFiles[v][d].offset + Len(data))
    BY <1>2, <2>1, <2>2, <2>6, <2>7, TableMoves
  <2>9. allTables' = [allTables EXCEPT ![v][d].offset = @ + Len(data)]
    BY <2>1, <2>2, <2>8, LineSeen DEF MovedIn
  <2>10. Private!Read(v, d, count)
    BY <1>2, <2>1, <2>2, <2>4, <2>5, <2>8, <2>9, LineSeen
       DEF Private!Read, Private!Answer, Answer
  <2> QED  BY <2>1, <2>2, <2>10, LineSeen
<1> QED  BY <1>1, <1>2 DEF ReadFile

LEMMA AsSeek ==
    ASSUME Sound, NEW v \in VMs, NEW d, NEW whence \in {"SET", "END", "OTHER"},
           NEW offset \in -1..IntMax, SeekFile(v, d, whence, offset)
    PROVE  \/ Private!Refuse(v)
           \/ /\ d \in DOMAIN allTables[v]
              /\ \E position \in 0..MaxSize : Private!Seek(v, d, position)
<1> DEFINE position == IF whence = "SET" THEN offset ELSE Len(contents[openFiles[v][d].file])
<1>1. CASE Reject(v)
  BY <1>1, AsRefuse DEF Reject
<1>2. CASE /\ MaySeek(v, d, whence, position)
           /\ openFiles' = [openFiles EXCEPT ![v][d].offset = position]
           /\ Answer(v, IF position <= IntMax THEN position ELSE -1, <<>>)
           /\ UNCHANGED <<dir, contents, nextDescriptor>>
  <2>1. d \in DOMAIN openFiles[v] /\ position >= 0
    BY <1>2 DEF MaySeek, IsOpen
  <2>2. Typed
    BY DEF Sound
  <2>3. position \in 0..MaxSize
    <3>1. /\ openFiles[v][d].file \in DOMAIN contents
          /\ contents[openFiles[v][d].file] \in Seq(Byte)
      BY <2>1, <2>2, EntryType
    <3>2. /\ Len(contents[openFiles[v][d].file]) \in Nat
          /\ Len(contents[openFiles[v][d].file]) <= MaxSize
      BY <3>1 DEF Sound, Bounded
    <3> QED  BY <2>1, <3>2, FilesAssumption
  <2> HIDE DEF position
  <2>4. position \in Nat
    BY <2>3, FilesAssumption
  <2>5. allFiles' = allFiles /\ allTables' = MovedIn(allTables, v, d, position)
    <3>1. openFiles' = MovedIn(openFiles, v, d, position)
      BY <1>2 DEF MovedIn
    <3> QED  BY <1>2, <2>1, <2>2, <2>4, <3>1, TableMoves
  <2>6. Private!Seek(v, d, position)
    BY <1>2, <2>1, <2>2, <2>5, LineSeen
       DEF Private!Seek, Private!Answer, Answer, MovedIn
  <2> QED  BY <2>1, <2>2, <2>3, <2>6, LineSeen
<1> QED  BY <1>1, <1>2 DEF SeekFile

(* Writing nothing moves no descriptor. *)
LEMMA NoMove ==
    ASSUME Typed, NEW v \in VMs, NEW d \in DOMAIN openFiles[v]
    PROVE  MovedIn(allTables, v, d, allTables[v][d].offset) = allTables
<1> DEFINE line == [name |-> openFiles[v][d].name, flags |-> openFiles[v][d].flags,
                    offset |-> openFiles[v][d].offset]
<1>1. allTables[v] = View(openFiles[v]) /\ allTables = [u \in VMs |-> allTables[u]]
  BY DEF allTables
<1>2. View(openFiles[v])[d] = line /\ View(openFiles[v]) = [e \in DOMAIN openFiles[v] |-> View(openFiles[v])[e]]
  BY DEF View
<1>3. [line EXCEPT !.offset = openFiles[v][d].offset] = line /\ line.offset = openFiles[v][d].offset
  OBVIOUS
<1> HIDE DEF line
<1>4. [View(openFiles[v]) EXCEPT ![d].offset = openFiles[v][d].offset] = View(openFiles[v])
  BY <1>2, <1>3
<1>5. [allTables[v] EXCEPT ![d].offset = allTables[v][d].offset] = allTables[v]
  BY <1>1, <1>2, <1>3, <1>4
<1>6. [allTables EXCEPT ![v] = [allTables[v] EXCEPT ![d].offset = allTables[v][d].offset]] = allTables
  BY <1>1, <1>5
<1> QED  BY <1>6 DEF MovedIn

(* The end of writeFile, on the table t and the contents c that            *)
(* prepareFileForWrite left, of which the guest has seen nothing.          *)
LEMMA AsWriteThrough ==
    ASSUME OriginalsOutside, Sound, NEW v \in VMs, NEW d \in DOMAIN openFiles[v],
           hasWriteAccess(openFiles[v][d].flags), Only(v), Confined(v),
           NEW data \in Seq(Byte), NEW inside \in BOOLEAN, inside => Len(data) <= MaxCount,
           NEW t, IsTable(t), d \in DOMAIN t, View(t) = View(openFiles[v]),
           NEW c, c[t[d].file] = contents[openFiles[v][d].file],
           c = [f \in DOMAIN c |-> c[f]],
           \A new \in Seq(Byte) : contents' = [c EXCEPT ![t[d].file] = new] =>
                VisibleFiles(v)' = [VisibleFiles(v) EXCEPT ![openFiles[v][d].name] = new],
           WriteThrough(v, d, data, inside, t, c), UNCHANGED nextDescriptor
    PROVE  \/ Private!Refuse(v)
           \/ \E block \in Blocks(Byte, MaxCount) : Private!Write(v, d, block)
<1> DEFINE name == openFiles[v][d].name
           old == contents[openFiles[v][d].file]
           offset == openFiles[v][d].offset
<1>1. Typed /\ Separated /\ Coherent
  BY DEF Sound
<1>2. /\ old \in Seq(Byte) /\ offset \in Nat
      /\ name \in DOMAIN VisibleFiles(v) /\ VisibleFiles(v)[name] = old
  BY <1>1, EntryType, DescriptorShows
<1>3. /\ d \in DOMAIN allTables[v] /\ allTables[v][d].name = name
      /\ allTables[v][d].flags = openFiles[v][d].flags /\ allTables[v][d].offset = offset
  BY <1>1, LineSeen
<1>4. allTables[v][d].flags \cap {"WRITE", "READ_WRITE"} # {}
  <2>1. openFiles[v][d].flags \cap {"WRITE", "READ_WRITE"} # {}
    BY DEF hasWriteAccess, accessMode
  <2> QED  BY <1>3, <2>1
<1>5. /\ allFiles' = [allFiles EXCEPT ![v] = VisibleFiles(v)']
      /\ allTables' = [allTables EXCEPT ![v] = View(openFiles'[v])]
      /\ allFiles[v] = VisibleFiles(v) /\ allTables[v] = View(openFiles[v])
      /\ allFiles = [u \in VMs |-> allFiles[u]] /\ allTables = [u \in VMs |-> allTables[u]]
  BY <1>1, OnlyOneSees, SeenBy DEF allFiles, allTables
<1>6. t[d].offset = offset
  <2>1. View(t)[d] = [name |-> t[d].name, flags |-> t[d].flags, offset |-> t[d].offset]
    BY DEF View
  <2>2. View(openFiles[v])[d].offset = offset
    BY <1>3, <1>5
  <2> QED  BY <2>1, <2>2
<1>7. ASSUME contents' = c, openFiles' = [openFiles EXCEPT ![v] = t]
      PROVE  allFiles' = allFiles /\ allTables' = allTables
  <2>1. contents' = [c EXCEPT ![t[d].file] = old]
    BY <1>7
  <2>2. VisibleFiles(v)' = [VisibleFiles(v) EXCEPT ![name] = old]
    BY <1>2, <2>1
  <2>3. VisibleFiles(v) = [n \in DOMAIN VisibleFiles(v) |-> VisibleFiles(v)[n]]
    BY DEF VisibleFiles
  <2>4. VisibleFiles(v)' = VisibleFiles(v)
    BY <1>2, <2>2, <2>3
  <2>5. openFiles'[v] = t
    BY <1>1, <1>7, OneTable DEF Typed, TablesTyped
  <2> QED  BY <1>5, <2>4, <2>5
<1>8. CASE /\ data = <<>> /\ Answer(v, 0, <<>>)
           /\ openFiles' = [openFiles EXCEPT ![v] = t] /\ contents' = c
  <2>1. <<>> \in Blocks(Byte, MaxCount)
    <3>1. 0 \in 0..MaxCount /\ <<>> \in [1..0 -> Byte]
      BY FilesAssumption
    <3> QED  BY <3>1 DEF Blocks
  <2>2. allFiles' = allFiles /\ allTables' = allTables
    BY <1>7, <1>8
  <2>3. Len(<<>>) = 0 /\ offset + 0 = offset
    BY <1>2
  <2>4. allTables' = [allTables EXCEPT ![v][d].offset = @ + Len(<<>>)]
    BY <1>1, <1>3, <2>2, <2>3, NoMove DEF MovedIn
  <2>5. Private!Write(v, d, <<>>)
    BY <1>3, <1>4, <1>8, <2>2, <2>3, <2>4 DEF Private!Write, Private!Answer, Answer
  <2> QED  BY <2>1, <2>5
<1>9. CASE /\ Answer(v, -1, <<>>)
           /\ openFiles' = [openFiles EXCEPT ![v] = t] /\ contents' = c
  BY <1>7, <1>9 DEF Private!Refuse, Private!Answer, Answer
<1>10. ASSUME NEW count \in 1..Len(data), Answer(v, count, <<>>), inside,
              openFiles' = [openFiles EXCEPT ![v] = [t EXCEPT ![d].offset = @ + count]],
              contents' = [c EXCEPT ![t[d].file] =
                             Overlay(@, t[d].offset, SubSeq(data, 1, count))]
       PROVE  \E block \in Blocks(Byte, MaxCount) : Private!Write(v, d, block)
  <2> DEFINE block == SubSeq(data, 1, count)
             new == Overlay(old, offset, block)
  <2>1. count \in Nat /\ count > 0 /\ count \in 0..MaxCount
    BY <1>10, FilesAssumption
  <2>2. block \in Seq(Byte) /\ Len(block) = count
    <3>1. \A i \in 1..count : data[i] \in Byte
      <4>1. ASSUME NEW i \in 1..count PROVE data[i] \in Byte
        <5>1. i \in 1..Len(data)
          BY <2>1
        <5> QED  BY <5>1, ElementOfSeq
      <4> QED  BY <4>1
    <3> QED  BY <2>1, <3>1, SubSeqProperties
  <2> HIDE DEF block
  <2>3. block \in Blocks(Byte, MaxCount) /\ block # <<>>
    <3>1. block \in [1..count -> Byte]
      BY <2>2, LenProperties
    <3>2. Len(<<>>) = 0
      OBVIOUS
    <3> QED  BY <2>1, <2>2, <3>1, <3>2 DEF Blocks
  <2>4. new \in Seq(Byte)
    BY <1>2, <2>2, OverlayIsSeq
  <2>5. contents' = [c EXCEPT ![t[d].file] = new]
    BY <1>6, <1>10 DEF block
  <2> HIDE DEF new
  <2>6. VisibleFiles(v)' = [VisibleFiles(v) EXCEPT ![name] = new]
    BY <2>4, <2>5
  <2>7. allFiles' = [allFiles EXCEPT ![v][name] = new]
    BY <1>5, <2>6
  <2>8. openFiles'[v] = [t EXCEPT ![d].offset = offset + count]
    <3>1. openFiles' = [openFiles EXCEPT ![v] = [t EXCEPT ![d].offset = t[d].offset + count]]
      BY <1>10
    <3> QED  BY <1>1, <1>6, <3>1, OneTable DEF Typed, TablesTyped
  <2>9. offset + count \in Nat
    BY <1>2, <2>1
  <2>10. View(openFiles'[v]) = Moved(View(openFiles[v]), d, offset + count)
    <3>1. openFiles'[v] = Moved(t, d, offset + count)
      BY <2>8 DEF Moved
    <3>2. View(Moved(t, d, offset + count)) = Moved(View(t), d, offset + count)
      BY <2>9, ViewMove
    <3> QED  BY <3>1, <3>2
  <2>11. allTables' = [allTables EXCEPT ![v][d].offset = offset + count]
    BY <1>5, <2>10 DEF Moved
  <2>12. new = Private!Overlay(allFiles[v][name], allTables[v][d].offset, block)
    BY <1>2, <1>3, <1>5 DEF new, Overlay, Larger, Private!Overlay, Private!Larger
  <2>13. /\ allFiles' = [allFiles EXCEPT ![v][allTables[v][d].name] =
                            Private!Overlay(@, allTables[v][d].offset, block)]
         /\ allTables' = [allTables EXCEPT ![v][d].offset = @ + Len(block)]
    BY <1>3, <2>2, <2>7, <2>11, <2>12
  <2>14. Private!Write(v, d, block)
    BY <1>3, <1>4, <1>10, <2>2, <2>3, <2>13 DEF Private!Write, Private!Answer, Answer
  <2> QED  BY <2>3, <2>14
<1> QED  BY <1>8, <1>9, <1>10 DEF WriteThrough

LEMMA AsWrite ==
    ASSUME OriginalsOutside, HostFaults = {}, Sound,
           NEW v \in VMs, NEW d, NEW data \in Seq(Byte), NEW inside \in BOOLEAN, NEW negative,
           inside => Len(data) <= MaxCount, WriteFile(v, d, data, inside, negative)
    PROVE  \/ Private!Refuse(v)
           \/ /\ d \in DOMAIN allTables[v]
              /\ \E block \in Blocks(Byte, MaxCount) : Private!Write(v, d, block)
<1> DEFINE o == openFiles[v][d]
           path == Local(v, o.name)
<1>1. Typed /\ Separated /\ Coherent
  BY DEF Sound
<1>2. Effect(v) /\ Only(v) /\ Confined(v)
  BY <1>1, WriteEffect, EffectConfined DEF Effect
<1>3. CASE Reject(v)
  BY <1>3, AsRefuse DEF Reject
<1>4. CASE /\ MayWriteFile(v, d, negative) /\ ~openFiles[v][d].shared
           /\ WriteThrough(v, d, data, inside, openFiles[v], contents)
           /\ UNCHANGED <<dir, nextDescriptor>>
  <2>1. d \in DOMAIN openFiles[v] /\ hasWriteAccess(openFiles[v][d].flags)
    BY <1>4 DEF MayWriteFile, IsOpen
  <2>2. IsTable(openFiles[v]) /\ contents = [f \in DOMAIN contents |-> contents[f]]
    BY <1>1 DEF Typed, TablesTyped, FilesTyped
  <2>3. ASSUME NEW new \in Seq(Byte), contents' = [contents EXCEPT ![openFiles[v][d].file] = new]
        PROVE  VisibleFiles(v)' = [VisibleFiles(v) EXCEPT ![openFiles[v][d].name] = new]
    <3>1. dir' = dir /\ ~openFiles[v][d].shared
      BY <1>4
    <3> QED  BY <1>1, <2>1, <2>3, <3>1, SeenAfterWrite
  <2>4. \/ Private!Refuse(v)
        \/ \E block \in Blocks(Byte, MaxCount) : Private!Write(v, d, block)
    BY <1>2, <1>4, <2>1, <2>2, <2>3, AsWriteThrough
  <2> QED  BY <1>1, <2>1, <2>4, LineSeen
<1>5. CASE /\ MayWriteFile(v, d, negative) /\ openFiles[v][d].shared
           /\ PrepareFails(v, o) /\ Answer(v, -1, <<>>)
           /\ UNCHANGED <<openFiles, nextDescriptor>>
  <2>1. Fails(v)
    BY <1>5 DEF Fails, MayWriteFile, IsOpen
  <2>2. UNCHANGED <<dir, contents, openFiles>>
    BY <1>1, <1>2, <2>1, CoherentFails
  <2> QED  BY <1>5, <2>2, AsRefuse
<1>6. ASSUME MayWriteFile(v, d, negative), openFiles[v][d].shared,
             o.hostPath \in DOMAIN dir, path \notin DOMAIN dir,
             NEW copy \in NewFiles, dir' = With(dir, path, copy),
             WriteThrough(v, d, data, inside, reopenSharedFiles(v, o.name, copy),
                          With(contents, copy, contents[dir[o.hostPath]])),
             UNCHANGED nextDescriptor
      PROVE  \/ Private!Refuse(v)
             \/ /\ d \in DOMAIN allTables[v]
                /\ \E block \in Blocks(Byte, MaxCount) : Private!Write(v, d, block)
  <2> DEFINE t == reopenSharedFiles(v, o.name, copy)
             source == contents[dir[o.hostPath]]
             c == With(contents, copy, source)
  <2>1. d \in DOMAIN openFiles[v] /\ hasWriteAccess(openFiles[v][d].flags)
    BY <1>6 DEF MayWriteFile, IsOpen
  <2>2. o.name \in Names /\ copy \in FileIds
    BY <1>1, <2>1, EntryType DEF OpenFileType, NewFiles
  <2>3. IsTable(t) /\ d \in DOMAIN t /\ t[d].file = copy
    BY <1>1, <1>6, <2>1, <2>2, ReopenType
  <2>4. View(t) = View(openFiles[v])
    BY <1>1, <2>2, ViewReopen
  <2>5. dir[o.hostPath] = o.file
    BY <1>1, <1>6, <2>1 DEF Separated, Entries, EntriesOf, SharedEntry
  <2>6. c[copy] = contents[o.file] /\ c = [f \in DOMAIN c |-> c[f]]
    BY <2>5 DEF With
  <2>7. o.name \in DOMAIN VisibleFiles(v)
        /\ VisibleFiles(v) = [n \in DOMAIN VisibleFiles(v) |-> VisibleFiles(v)[n]]
    BY <1>1, <2>1, DescriptorShows DEF VisibleFiles
  <2>8. ASSUME NEW new \in Seq(Byte), contents' = [c EXCEPT ![copy] = new]
        PROVE  VisibleFiles(v)' = [VisibleFiles(v) EXCEPT ![o.name] = new]
    <3>1. contents' = With(contents, copy, new)
      BY <2>8 DEF With
    <3>2. VisibleFiles(v)' = With(VisibleFiles(v), o.name, new)
      BY <1>1, <1>6, <2>2, <3>1, SeenAfterNewFile
    <3>3. With(VisibleFiles(v), o.name, new) = [VisibleFiles(v) EXCEPT ![o.name] = new]
      <4> DEFINE F == VisibleFiles(v)
                 n == o.name
      <4>1. n \in DOMAIN F /\ F = [m \in DOMAIN F |-> F[m]]
        BY <2>7
      <4> HIDE DEF F, n
      <4>2. With(F, n, new) = [F EXCEPT ![n] = new]
        BY <4>1 DEF With
      <4> QED  BY <4>2 DEF F, n
    <3> QED  BY <3>2, <3>3
  <2>9. WriteThrough(v, d, data, inside, t, c)
    BY <1>6
  <2> HIDE DEF t, c
  <2>10. c[t[d].file] = contents[openFiles[v][d].file]
    BY <2>3, <2>6
  <2>11. \A new \in Seq(Byte) : contents' = [c EXCEPT ![t[d].file] = new] =>
            VisibleFiles(v)' = [VisibleFiles(v) EXCEPT ![openFiles[v][d].name] = new]
    BY <2>3, <2>8
  <2>12. \/ Private!Refuse(v)
         \/ \E block \in Blocks(Byte, MaxCount) : Private!Write(v, d, block)
    BY <1>2, <1>6, <2>1, <2>3, <2>4, <2>6, <2>9, <2>10, <2>11, AsWriteThrough
  <2> QED  BY <1>1, <2>1, <2>12, LineSeen
<1> QED  BY <1>3, <1>4, <1>5, <1>6 DEF WriteFile

(* Each step of v is a step of a file system of its own. *)
LEMMA AsRequest ==
    ASSUME OriginalsOutside, HostFaults = {}, Sound, NEW v \in VMs, Request(v)
    PROVE  Private!Step(v)
<1>1. CASE Reject(v)
  BY <1>1, AsRefuse DEF Reject, Private!Step
<1>2. ASSUME NEW name \in Names, NEW flags \in FlagSets, OpenFile(v, name, flags)
      PROVE  Private!Step(v)
  BY <1>2, AsOpen DEF Private!Step
<1>3. ASSUME NEW d, CloseFile(v, d)
      PROVE  Private!Step(v)
  BY <1>3, AsClose DEF Private!Step
<1>4. ASSUME NEW d, NEW count \in -1..MaxCount, NEW inside, ReadFile(v, d, count, inside)
      PROVE  Private!Step(v)
  BY <1>4, AsRead DEF Private!Step
<1>5. ASSUME NEW d, NEW data \in Seq(Byte), NEW inside \in BOOLEAN, NEW negative,
             inside => Len(data) <= MaxCount, WriteFile(v, d, data, inside, negative)
      PROVE  Private!Step(v)
  <2>1. \/ Private!Refuse(v)
        \/ /\ d \in DOMAIN allTables[v]
           /\ \E block \in Blocks(Byte, MaxCount) : Private!Write(v, d, block)
    BY <1>5, AsWrite
  <2>2. CASE Private!Refuse(v)
    BY <2>2 DEF Private!Step
  <2>3. ASSUME d \in DOMAIN allTables[v],
               NEW block \in Blocks(Byte, MaxCount), Private!Write(v, d, block)
        PROVE  Private!Step(v)
    <3>1. Private!Blocks(Byte, MaxCount) = Blocks(Byte, MaxCount)
      BY DEF Private!Blocks, Blocks
    <3> QED  BY <2>3, <3>1 DEF Private!Step
  <2> QED  BY <2>1, <2>2, <2>3
<1>6. ASSUME NEW d, NEW data \in Blocks(Byte, MaxCount), WriteFile(v, d, data, TRUE, FALSE)
      PROVE  Private!Step(v)
  <2>1. data \in Seq(Byte) /\ Len(data) <= MaxCount
    BY FilesAssumption, BlockIsSeq
  <2> QED  BY <1>5, <1>6, <2>1
<1>7. ASSUME NEW d, WriteFile(v, d, << 0 >>, FALSE, FALSE)
      PROVE  Private!Step(v)
  <2>1. <<0>> \in Seq(Byte)
    BY FilesAssumption
  <2> QED  BY <1>5, <1>7, <2>1
<1>8. ASSUME NEW d, WriteFile(v, d, <<>>, TRUE, TRUE)
      PROVE  Private!Step(v)
  <2>1. <<>> \in Seq(Byte) /\ Len(<<>>) <= MaxCount
    BY FilesAssumption
  <2> QED  BY <1>5, <1>8, <2>1
<1>9. ASSUME NEW d, NEW whence \in {"SET", "END", "OTHER"}, NEW offset \in -1..IntMax,
             SeekFile(v, d, whence, offset)
      PROVE  Private!Step(v)
  BY <1>9, AsSeek DEF Private!Step
<1> QED  BY <1>1, <1>2, <1>3, <1>4, <1>6, <1>7, <1>8, <1>9 DEF Request

(* No file outgrows MaxSize. *)
LEMMA BoundedNext ==
    ASSUME HostFaults = {}
    PROVE  Typed /\ Coherent /\ Bounded /\ [Next]_vars => Bounded'
<1> SUFFICES ASSUME Typed, Coherent, Bounded, [Next]_vars PROVE Bounded'
  OBVIOUS
<1>1. ASSUME NEW v \in VMs \ ended,
             (Request(v) /\ UNCHANGED ended) \/ CloseGuestFiles(v)
      PROVE  Bounded'
  <2>1. Effect(v) /\ Only(v)
    BY <1>1, StepEffect DEF Effect
  <2>2. CASE Keeps(v)
    BY <2>2 DEF Keeps, Bounded
  <2>3. CASE Opens(v)
    <3>1. PICK name \in Names, flags \in FlagSets : OpensAs(v, name, flags)
      BY <2>3 DEF Opens
    <3>2. contents' = contents \/ \E id \in NewFiles : contents' = With(contents, id, <<>>)
      BY <3>1 DEF OpensAs, Finds, Creates
    <3>3. Len(<<>>) <= MaxSize
      BY FilesAssumption
    <3> QED  BY <3>2, <3>3 DEF Bounded, With
  <2>4. CASE Writes(v)
    <3>1. PICK d \in DOMAIN openFiles[v], new \in Seq(Byte) :
              /\ contents' = [contents EXCEPT ![openFiles[v][d].file] = new]
              /\ Len(new) <= MaxSize
      BY <2>4 DEF Writes
    <3> QED  BY <3>1 DEF Bounded
  <2>5. CASE Copies(v)
    <3>1. PICK copy \in NewFiles, new \in Seq(Byte) :
              contents' = With(contents, copy, new) /\ Len(new) <= MaxSize
      BY <2>5 DEF Copies
    <3> QED  BY <3>1 DEF Bounded, With
  <2>6. CASE Fails(v)
    BY <2>1, <2>6, CoherentFails DEF Bounded
  <2> QED  BY <2>1, <2>2, <2>3, <2>4, <2>5, <2>6 DEF Effect
<1>2. CASE UNCHANGED vars
  BY <1>2 DEF vars, Bounded
<1> QED  BY <1>1, <1>2 DEF Next

LEMMA BoundedInit == Init => Bounded
<1> SUFFICES ASSUME Init, NEW f \in DOMAIN contents PROVE Len(contents[f]) <= MaxSize
  BY DEF Bounded
<1>1. PICK p \in DOMAIN dir : f = dir[p]
  BY InitFiles
<1>2. contents[f] = Initial[p] /\ p \in DOMAIN Initial
  BY <1>1, InitFiles
<1> QED  BY <1>2, FilesAssumption

LEMMA AlwaysSound ==
    ASSUME OriginalsOutside, HostFaults = {}
    PROVE  Spec => []Sound
<1>1. Typed /\ Coherent /\ Bounded /\ [Next]_vars => Bounded'
  BY BoundedNext
<1>2. Typed /\ Separated /\ Coherent /\ Bounded => Sound
  BY DEF Sound
<1> QED  BY <1>1, <1>2, BoundedInit, AlwaysSeparated, AlwaysCoherent, PTL DEF Spec

(* At the start every VM sees its own files and the originals. *)
LEMMA PrivateInit == Init => Private!Init
<1> SUFFICES ASSUME Init PROVE Private!Init
  OBVIOUS
<1>1. Typed
  BY TypedInit
<1>2. DOMAIN allFiles = VMs /\ \A v \in VMs : allFiles[v] = VisibleFiles(v)
  BY DEF allFiles
<1>3. ASSUME NEW v \in VMs
      PROVE  /\ DOMAIN VisibleFiles(v) \subseteq Names
             /\ \A n \in DOMAIN VisibleFiles(v) : VisibleFiles(v)[n] \in Seq(Byte)
  <2>1. /\ DOMAIN VisibleFiles(v) = {n \in Names : resolveFile(v, n).path \in DOMAIN dir}
        /\ \A n \in DOMAIN VisibleFiles(v) :
              VisibleFiles(v)[n] = contents[dir[resolveFile(v, n).path]]
    BY DEF VisibleFiles
  <2>2. \A p \in DOMAIN dir : contents[dir[p]] \in Seq(Byte)
    BY <1>1 DEF Typed, FilesTyped
  <2> QED  BY <2>1, <2>2
<1>4. allTables = [v \in VMs |-> <<>>]
  <2>1. View(<<>>) = <<>>
    BY DEF View
  <2>2. openFiles = [v \in VMs |-> <<>>]
    BY DEF Init
  <2> QED  BY <2>1, <2>2 DEF allTables
<1> QED  BY <1>2, <1>3, <1>4 DEF Init, Private!Init

(* For any number of VMs, files and descriptors: as long as the originals  *)
(* lie outside the directories of the VMs, and exists and remove do not    *)
(* fail, sharing a file until a VM writes to it cannot be told from having *)
(* had a copy from the start.                                              *)
THEOREM CopyOnWriteIsInvisible ==
    ASSUME OriginalsOutside, HostFaults = {}
    PROVE  Spec => ImplementsPrivateFiles
<1>1. Sound /\ [Next]_vars
        => [Private!Next]_<<allFiles, allTables, nextDescriptor, answer>>
  <2> SUFFICES ASSUME Sound, [Next]_vars
               PROVE  Private!Next \/ UNCHANGED <<allFiles, allTables, nextDescriptor, answer>>
    OBVIOUS
  <2>1. ASSUME NEW v \in VMs \ ended, Request(v) \/ CloseGuestFiles(v)
        PROVE  Private!Next
    <3>1. Private!Step(v)
      BY <2>1, AsRequest, AsCloseAll DEF Private!Step
    <3> QED  BY <3>1 DEF Private!Next
  <2>2. CASE UNCHANGED vars
    BY <2>2, SameForAll DEF vars
  <2> QED  BY <2>1, <2>2 DEF Next
<1> QED
  BY <1>1, PrivateInit, AlwaysSound, PTL
     DEF Spec, ImplementsPrivateFiles, Private!Spec, Private!vars
=============================================================================
