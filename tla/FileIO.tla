--------------------------------- MODULE FileIO ---------------------------------
(***************************************************************************)
(* The file requests of host/src/file_io.cpp: every VM has a descriptor    *)
(* table over host files; a name given with -f is shared until the first   *)
(* write of a VM, which copies the file into that VM's directory and       *)
(* reopens all of that VM's descriptors of the name on the copy.           *)
(*                                                                         *)
(* One action is one call of processFileRequest.  The calls of one VM come *)
(* from its own thread, and a call touches the table and the directory of  *)
(* its VM only; of the files several VMs share, it only reads the          *)
(* originals.  So calls of different VMs commute with each other's system  *)
(* calls and are modelled as atomic.                                       *)
(*                                                                         *)
(* Every system call may fail.  HostFaults says which of the two failures  *)
(* the code does not act on may happen too: of std::filesystem::exists     *)
(* ("stat"), and of the clean-up std::filesystem::remove ("remove").       *)
(***************************************************************************)
EXTENDS PosixFiles, FiniteSets

CONSTANTS
    VMs, Names,     \* the virtual machines, and the valid guest file names
    SharedFiles,    \* SharedState.sharedFiles: name -> canonical host path
    HostDir,        \* a directory of the host that belongs to no VM
    Initial,        \* the files before the run: host path -> contents
    Byte,           \* values of one byte
    FlagSets,       \* the open flags guests ask for, as sets of flags
    FileIds,        \* bound: identities of files on the host's disk
    IntMax,         \* std::numeric_limits<int>::max()
    HostFaults,     \* the failures that go unnoticed: "stat", "remove"
    MaxCount,       \* bound: bytes of one request
    MaxSize,        \* bound: length of a file
    MaxDescriptor   \* bound: the last descriptor each VM is given

Paths == (VMs \cup {HostDir}) \X Names

(* vm_files/vm_<id>/<name>.  Mutant: the VM's id is left out of the path. *)
LocalOfAnyone(v, name) == <<CHOOSE u \in VMs : TRUE, name>>
Local(v, name) == <<v, name>>

Flags == {"READ", "WRITE", "READ_WRITE", "CREATE", "OTHER"}

ASSUME FilesAssumption ==
    /\ HostDir \notin VMs
    /\ 0 \in Byte /\ Byte \subseteq Nat
    /\ DOMAIN SharedFiles \subseteq Names
    /\ \A n \in DOMAIN SharedFiles : SharedFiles[n] \in DOMAIN Initial
    /\ DOMAIN Initial \subseteq Paths
    /\ \A p \in DOMAIN Initial : Initial[p] \in Seq(Byte) /\ Len(Initial[p]) <= MaxSize
    /\ FlagSets \subseteq SUBSET Flags
    /\ IntMax \in Nat /\ MaxCount \in Nat /\ MaxSize \in Nat
    /\ MaxDescriptor \in [VMs -> Nat]
    /\ IntMax <= MaxSize
    /\ HostFaults \subseteq {"stat", "remove"}

VARIABLES
    dir,        \* dir: host path -> file, for the files that exist
    contents,   \* contents: file -> bytes, for the files that are linked or open
    openFiles,  \* openFiles[v]: descriptor -> OpenFile with its host descriptor
    nextDescriptor,
    answer,     \* answer[v]: result of v's last request, and the bytes of a read
    ended       \* the VMs whose thread has left runVirtualMachine

vars == <<dir, contents, openFiles, nextDescriptor, answer, ended>>

OpenFileType ==
    [name : Names, flags : FlagSets, hostPath : Paths, shared : BOOLEAN,
     file : FileIds, offset : Nat, mode : {"O_RDONLY", "O_WRONLY", "O_RDWR"}]

Init ==
    /\ dir \in [DOMAIN Initial -> FileIds]
    /\ \A p, q \in DOMAIN Initial : dir[p] = dir[q] => p = q
    /\ contents = [f \in {dir[p] : p \in DOMAIN dir} |->
                     Initial[CHOOSE p \in DOMAIN dir : dir[p] = f]]
    /\ openFiles = [v \in VMs |-> <<>>]
    /\ nextDescriptor = [v \in VMs |-> 3]
    /\ answer = [v \in VMs |-> [result |-> 0, data |-> <<>>]]
    /\ ended = {}
---------------------------------------------------------------------------
accessMode(flags) == flags \cap {"READ", "WRITE", "READ_WRITE"}
hasReadAccess(flags) == accessMode(flags) \in {{"READ"}, {"READ_WRITE"}}
hasWriteAccess(flags) == accessMode(flags) \in {{"WRITE"}, {"READ_WRITE"}}
areValidOpenFlags(flags) ==
    /\ "OTHER" \notin flags
    /\ accessMode(flags) \in {{"READ"}, {"WRITE"}, {"READ_WRITE"}}

(* O_CREAT is the CREATE flag itself. *)
toHostOpenFlags(flags) ==
    CASE accessMode(flags) = {"READ"} -> "O_RDONLY"
      [] accessMode(flags) = {"WRITE"} -> "O_WRONLY"
      [] OTHER -> "O_RDWR"

(* A local file hides the shared file of its name ... *)
resolveFile(v, name) ==
    IF Local(v, name) \notin DOMAIN dir /\ name \in DOMAIN SharedFiles
    THEN [path |-> SharedFiles[name], shared |-> TRUE]
    ELSE [path |-> Local(v, name), shared |-> FALSE]

(* ... unless exists reports an error, which counts as no local file. *)
Resolutions(v, name) ==
    {resolveFile(v, name)} \cup
        IF "stat" \in HostFaults /\ name \in DOMAIN SharedFiles
        THEN {[path |-> SharedFiles[name], shared |-> TRUE]} ELSE {}

NewFiles == FileIds \ DOMAIN contents
IsOpen(v, d) == d \in DOMAIN openFiles[v]

Answer(v, result, data) == answer' = [answer EXCEPT ![v] = [result |-> result, data |-> data]]

(* A request that returns -1 before it has changed anything. *)
Reject(v) ==
    /\ Answer(v, -1, <<>>)
    /\ UNCHANGED <<dir, contents, openFiles, nextDescriptor>>

(* The end of openFile: the new entry of the descriptor table. *)
Enter(v, name, flags, resolved, file) ==
    /\ openFiles' = [openFiles EXCEPT ![v] = With(@, nextDescriptor[v],
            [name |-> name, flags |-> flags, hostPath |-> resolved.path,
             shared |-> resolved.shared, file |-> file, offset |-> 0,
             mode |-> IF resolved.shared THEN "O_RDONLY" ELSE toHostOpenFlags(flags)])]
    /\ nextDescriptor' = [nextDescriptor EXCEPT ![v] = @ + 1]
    /\ Answer(v, nextDescriptor[v], <<>>)

(* openFile; a name that is not readable or not valid is refused. *)
OpenFile(v, name, flags) ==
    \/ Reject(v)        \* bad flags or name, or the host refuses
    \/ /\ areValidOpenFlags(flags)
       /\ nextDescriptor[v] <= MaxDescriptor[v]
       /\ \E resolved \in Resolutions(v, name) :
            \/ /\ resolved.path \in DOMAIN dir
               /\ Enter(v, name, flags, resolved, dir[resolved.path])
               /\ UNCHANGED <<dir, contents>>
            \/ /\ resolved.path \notin DOMAIN dir
               /\ ~resolved.shared /\ "CREATE" \in flags
               /\ \E file \in NewFiles :
                    /\ dir' = With(dir, resolved.path, file)
                    /\ contents' = With(contents, file, <<>>)
                    /\ Enter(v, name, flags, resolved, file)

(* closeFile: the entry goes even when close reports an error. *)
CloseFile(v, d) ==
    \/ ~IsOpen(v, d) /\ Reject(v)
    \/ /\ IsOpen(v, d)
       /\ openFiles' = [openFiles EXCEPT ![v] = Without(@, d)]
       /\ \E result \in {0, -1} : Answer(v, result, <<>>)
       /\ UNCHANGED <<dir, contents, nextDescriptor>>

MayReadFile(v, d, count) ==
    IsOpen(v, d) /\ hasReadAccess(openFiles[v][d].flags) /\ count >= 0

(* readFile; inside tells whether the buffer lies in guest memory. *)
ReadFile(v, d, count, inside) ==
    \/ ~(MayReadFile(v, d, count) /\ count = 0) /\ Reject(v)
    \/ /\ MayReadFile(v, d, count)
       /\ count = 0 \/ (inside /\ openFiles[v][d].mode # "O_WRONLY")
       /\ LET data == Slice(contents[openFiles[v][d].file], openFiles[v][d].offset, count)
          IN /\ Answer(v, Len(data), data)
             /\ openFiles' = [openFiles EXCEPT ![v][d].offset = @ + Len(data)]
       /\ UNCHANGED <<dir, contents, nextDescriptor>>

(* Mutant: a negative position is not refused. *)
SeeksAnywhere(v, d, whence, position) == IsOpen(v, d) /\ whence \in {"SET", "END"}
MaySeek(v, d, whence, position) ==
    IsOpen(v, d) /\ whence \in {"SET", "END"} /\ position >= 0

(* seekFile: the position is set before its value is checked. *)
SeekFile(v, d, whence, offset) ==
    LET position == IF whence = "SET" THEN offset
                    ELSE Len(contents[openFiles[v][d].file])
    IN  \/ ~MaySeek(v, d, whence, position) /\ Reject(v)
        \/ /\ MaySeek(v, d, whence, position)
           /\ openFiles' = [openFiles EXCEPT ![v][d].offset = position]
           /\ Answer(v, IF position <= IntMax THEN position ELSE -1, <<>>)
           /\ UNCHANGED <<dir, contents, nextDescriptor>>
---------------------------------------------------------------------------
(* Copy-on-write.                                                          *)

(* Mutants: the copy is opened at its start; descriptors opened for        *)
(* reading stay on the original.                                           *)
ReopensAtStart(v, name, copy) ==
    [d \in DOMAIN openFiles[v] |->
        LET o == openFiles[v][d] IN
        IF o.shared /\ o.name = name
        THEN [o EXCEPT !.file = copy, !.hostPath = Local(v, name), !.shared = FALSE,
                       !.mode = toHostOpenFlags(o.flags), !.offset = 0]
        ELSE o]
ReopensWriters(v, name, copy) ==
    [d \in DOMAIN openFiles[v] |->
        LET o == openFiles[v][d] IN
        IF o.shared /\ o.name = name /\ hasWriteAccess(o.flags)
        THEN [o EXCEPT !.file = copy, !.hostPath = Local(v, name), !.shared = FALSE,
                       !.mode = toHostOpenFlags(o.flags)]
        ELSE o]

(* reopenSharedFiles: every shared descriptor of the name moves to the     *)
(* copy, at the offset it had.                                             *)
reopenSharedFiles(v, name, copy) ==
    [d \in DOMAIN openFiles[v] |->
        LET o == openFiles[v][d] IN
        IF o.shared /\ o.name = name
        THEN [o EXCEPT !.file = copy, !.hostPath = Local(v, name), !.shared = FALSE,
                       !.mode = toHostOpenFlags(o.flags)]
        ELSE o]

(* Mutant: the clean-up removes the source of the copy. *)
PrepareRemovesSource(v, o) == dir' = Without(dir, o.hostPath) /\ UNCHANGED contents

(* prepareFileForWrite gives up: create_directories, copy_file, the change *)
(* of permissions or the reopening of a descriptor failed, and whatever is *)
(* at the local path is removed.  Descriptors opened on the way are closed *)
(* again by closeReopenedFiles.                                            *)
PrepareFails(v, o) ==
    LET path == Local(v, o.name)
        source == contents[dir[o.hostPath]]
    IN  \/ UNCHANGED <<dir, contents>>
        \/ /\ path \in DOMAIN dir
           /\ dir' = Without(dir, path)
           /\ UNCHANGED contents
        \/ /\ "remove" \in HostFaults
           /\ o.hostPath \in DOMAIN dir /\ path \notin DOMAIN dir
           /\ \E file \in NewFiles, copied \in 0..Len(source) :
                /\ dir' = With(dir, path, file)
                /\ contents' = With(contents, file, SubSeq(source, 1, copied))

(* The end of writeFile, on the table and the contents that                *)
(* prepareFileForWrite left: count 0, a buffer outside guest memory, an    *)
(* error of the host, or the bytes the host took.                          *)
WriteThrough(v, d, data, inside, tableNow, contentsNow) ==
    LET o == tableNow[d] IN
    \/ /\ data = <<>>
       /\ Answer(v, 0, <<>>)
       /\ openFiles' = [openFiles EXCEPT ![v] = tableNow]
       /\ contents' = contentsNow
    \/ /\ data # <<>>
       /\ Answer(v, -1, <<>>)
       /\ openFiles' = [openFiles EXCEPT ![v] = tableNow]
       /\ contents' = contentsNow
    \/ /\ data # <<>> /\ inside /\ o.mode # "O_RDONLY"
       /\ o.offset + Len(data) <= MaxSize
       /\ \E count \in 1..Len(data) :
            /\ Answer(v, count, <<>>)
            /\ openFiles' = [openFiles EXCEPT ![v] =
                               [tableNow EXCEPT ![d].offset = @ + count]]
            /\ contents' = [contentsNow EXCEPT ![o.file] =
                              Overlay(@, o.offset, SubSeq(data, 1, count))]

MayWriteFile(v, d, negative) ==
    IsOpen(v, d) /\ hasWriteAccess(openFiles[v][d].flags) /\ ~negative

(* writeFile with prepareFileForWrite; negative tells whether count < 0. *)
WriteFile(v, d, data, inside, negative) ==
    \/ ~MayWriteFile(v, d, negative) /\ Reject(v)
    \/ /\ MayWriteFile(v, d, negative)
       /\ ~openFiles[v][d].shared
       /\ WriteThrough(v, d, data, inside, openFiles[v], contents)
       /\ UNCHANGED <<dir, nextDescriptor>>
    \/ /\ MayWriteFile(v, d, negative)
       /\ openFiles[v][d].shared
       /\ LET o == openFiles[v][d]
              path == Local(v, o.name)
          IN  \/ /\ PrepareFails(v, o)
                 /\ Answer(v, -1, <<>>)
                 /\ UNCHANGED <<openFiles, nextDescriptor>>
              \/ /\ o.hostPath \in DOMAIN dir /\ path \notin DOMAIN dir
                 /\ \E copy \in NewFiles :
                      /\ dir' = With(dir, path, copy)
                      /\ WriteThrough(v, d, data, inside, reopenSharedFiles(v, o.name, copy),
                                      With(contents, copy, contents[dir[o.hostPath]]))
                 /\ UNCHANGED nextDescriptor
---------------------------------------------------------------------------
(* closeGuestFiles, when the VM's thread ends. *)
CloseGuestFiles(v) ==
    /\ openFiles' = [openFiles EXCEPT ![v] = <<>>]
    /\ ended' = ended \cup {v}
    /\ UNCHANGED <<dir, contents, nextDescriptor, answer>>

(* processFileRequest on the file_request of a guest. *)
Request(v) ==
    \/ Reject(v)        \* an unknown operation, or no request in guest memory
    \/ \E name \in Names, flags \in FlagSets : OpenFile(v, name, flags)
    \/ \E d \in 2..MaxDescriptor[v] :
            \/ CloseFile(v, d)
            \/ \E count \in -1..MaxCount, inside \in BOOLEAN :
                    (inside \/ count = 1) /\ ReadFile(v, d, count, inside)
            \/ \E data \in Blocks(Byte, MaxCount) : WriteFile(v, d, data, TRUE, FALSE)
            \/ WriteFile(v, d, <<0>>, FALSE, FALSE)    \* outside guest memory
            \/ WriteFile(v, d, <<>>, TRUE, TRUE)       \* a negative count
            \/ \E whence \in {"SET", "END", "OTHER"}, offset \in -1..IntMax :
                    SeekFile(v, d, whence, offset)

Next == \E v \in VMs \ ended : (Request(v) /\ UNCHANGED ended) \/ CloseGuestFiles(v)

Spec == Init /\ [][Next]_vars
---------------------------------------------------------------------------
TypeOK ==
    /\ DOMAIN dir \subseteq Paths /\ \A p \in DOMAIN dir : dir[p] \in DOMAIN contents
    /\ DOMAIN contents \subseteq FileIds
    /\ \A f \in DOMAIN contents : contents[f] \in Seq(Byte)
    /\ DOMAIN openFiles = VMs
    /\ \A v \in VMs : \A d \in DOMAIN openFiles[v] :
            d < nextDescriptor[v] /\ openFiles[v][d] \in OpenFileType
    /\ nextDescriptor \in [VMs -> Nat]
    /\ answer \in [VMs -> [result : Int, data : Seq(Byte)]]
    /\ ended \subseteq VMs

(* No request of any guest, whatever fails on the way, changes a file that *)
(* was given with -f: only private copies are ever written.                *)
OriginalsUntouched ==
    \A n \in DOMAIN SharedFiles :
        /\ SharedFiles[n] \in DOMAIN dir
        /\ contents[dir[SharedFiles[n]]] = Initial[SharedFiles[n]]

(* Every open descriptor refers to the file its name resolves to now, in   *)
(* the mode its flags ask for: a copy-on-write through one descriptor      *)
(* takes all descriptors of the name with it, and no descriptor counts as  *)
(* shared once a local file exists, so a failed copy never removes a       *)
(* private file.                                                           *)
CoherentDescriptors ==
    \A v \in VMs : \A d \in DOMAIN openFiles[v] :
        LET o == openFiles[v][d]
            resolved == resolveFile(v, o.name)
        IN  /\ resolved.path \in DOMAIN dir
            /\ o.file = dir[resolved.path]
            /\ o.hostPath = resolved.path
            /\ o.shared = resolved.shared
            /\ o.mode = IF o.shared THEN "O_RDONLY" ELSE toHostOpenFlags(o.flags)

(* What VM v can see: its files by name, and the bytes behind each of its  *)
(* descriptors.                                                            *)
VisibleFiles(v) ==
    [n \in {n \in Names : resolveFile(v, n).path \in DOMAIN dir} |->
        contents[dir[resolveFile(v, n).path]]]
VisibleTable(v) ==
    [d \in DOMAIN openFiles[v] |->
        [file |-> contents[openFiles[v][d].file], offset |-> openFiles[v][d].offset]]

(* A request, successful or not, changes what one VM sees at most: the VM  *)
(* that made it.                                                           *)
Isolation ==
    [][\E v \in VMs : \A u \in VMs \ {v} :
            /\ VisibleFiles(u)' = VisibleFiles(u)
            /\ VisibleTable(u)' = VisibleTable(u)]_vars

(* Copy-on-write is invisible: every VM behaves as if it had a file system *)
(* of its own.                                                             *)
View(t) ==
    [d \in DOMAIN t |-> [name |-> t[d].name, flags |-> t[d].flags, offset |-> t[d].offset]]
allFiles == [v \in VMs |-> VisibleFiles(v)]
allTables == [v \in VMs |-> View(openFiles[v])]
Private ==
    INSTANCE PrivateFiles WITH
        files <- allFiles, table <- allTables, next <- nextDescriptor
ImplementsPrivateFiles == Private!Spec
=============================================================================
