# Verification of kvm-hypervisor

TLA+ modules, TLC configurations and TLAPS proofs for the hypervisor in `src/`:
a C++ host that runs one virtual machine per POSIX thread, gives guests files
through port 0x278, and lets a writer VM broadcast messages to reader VMs
through a shared buffer behind ports 0x510 and 0x520.

## 1. The system

| Component | Source | State | Operations | Talks to |
|---|---|---|---|---|
| Shared buffer | `host/src/shared_buffer.cpp` | one `SharedBufferState` (data, size, counters, generation, flags) under one mutex and one condition variable; one `SharedBufferVmState` per VM | `deliverMode`, `beginWriterRound`, `writeSharedByte`, `finishWriterRound`, `beginReaderRound`, `readSharedByte`, `finishReaderRound`, `abortSharedBuffer` | called by every VM thread and by `main` |
| File requests | `host/src/file_io.cpp` | per VM: descriptor table, next descriptor, stack of results; shared: names given with `-f` | open, close, read, write with copy-on-write, lseek, `closeGuestFiles` | called by the VM's own thread; host file system |
| VM runner | `host/src/vm_runner.cpp` | one KVM VM, `interruptCount`, serial line buffer | set-up, dispatch of exits, interrupt injection, halt, failure, `runGuest` | all handlers |
| main | `host/src/main.cpp` | threads started, `allGuestsSucceeded` | create, join, exit status | threads, `abortSharedBuffer` |
| Guest program | `guest/src/main.c`, `guest/src/interrupts.c` | `vm_mode`, `transfer_finished`, `transfer_succeeded`, local buffers | boot, two interrupts, transfer, report, input, halt | ports |
| Guest file library | `guest/src/file.c` | none | OUT of a request, IN of its result | port 0x278 |
| Serial console | `host/src/vm_runner.cpp` | line buffer, `consoleMutex`, `serialInputMutex` | write a character, read a character | stdin, stdout |
| VM set-up | `host/src/vm.c` | descriptors, mappings, page tables | `vm_init`, `vm_destroy`, `setup_long_mode`, `load_guest_image`, `inject_irq` | KVM |
| Command line | `host/src/cli.cpp` | none | `parseArguments` | `main` |

What is hard, and what makes each part correct:

* **Shared buffer.** Several threads sleep on one condition variable with
  different predicates; rounds are told apart by generation numbers and ended
  by counting acknowledgements. Correct means: no wake-up is lost; nobody's
  data changes while it is read; a round ends only when every reader has
  acknowledged it; an acknowledged message was received byte for byte; after a
  failure nobody stays blocked.
* **File requests.** A name resolves to a shared original until the VM's first
  write; then all open descriptors of the name must move to a private copy at
  their offsets, and any of a dozen system calls may fail on the way. Correct
  means: originals never change; VMs do not see each other; a guest cannot
  tell copy-on-write from a file system of its own.
* **Runner, main, guest.** Thread creation, two interrupts per VM, and the
  accesses of all VMs interleave; anything may fail at any point. Correct
  means: guest and host never disagree about the protocol, `main` returns
  whatever fails, and `EXIT_SUCCESS` means that every reader got the message.

* **File port and guest memory.** A call of the guest's library is two port
  accesses with an interrupt window between them, and every address and count
  comes from the guest. Correct means: a call gets its own result, none is left
  behind, and the host never leaves guest memory.
* **Threads on the host.** All VM threads share one descriptor table, two
  console mutexes and one standard input, and any call of a dozen may fail.
  Correct means: what the kernel holds for a VM is what the program remembers
  and is given back once; lines are whole, complete and in time; nobody is kept
  from ending by somebody who waits for input.
* **Start-up.** Correct means: the command lines of the usage text are accepted
  and no others, no `-f` file is dropped, and the guest starts in an identity
  map that neither the image nor its own tables have overwritten.

`PROJECT.json` lists every hazard at its line with the properties that would
catch it.

## 2. The modules

```
Broadcast    <.. SharedBuffer <- MCSharedBuffer          (.. refinement)
                 SharedBuffer, PosixFiles <- Hypervisor <- MCHypervisor
SharedBuffer <.. Hypervisor
PrivateFiles <.. FileIO <- MCFileIO                      (both use PosixFiles)
GuestMemory <- FilePort <- MCFilePort
VmSet <- HostResources, Console <- VmThread <- MCVmThread
Cli, PageTables <- Startup <- MCStartup

SharedBuffer <- SharedBufferProofs <- SharedBufferOrderedProofs <- BroadcastProofs
                                Hypervisor, BroadcastProofs <- HypervisorProofs
FileIO <- FileIOProofs          FilePort <- FilePortProofs
VmThread <- VmThreadProofs      Startup <- StartupProofs
```

### SharedBuffer

`state` and `ctx[v]` are the two structs, field by field. `thread[v]` is where
VM v's thread is: running its guest, blocked in a handler, failing (it has left
`runVirtualMachine` with false and has not aborted the buffer yet), failed, or
succeeded. `waiting` is the set of threads asleep in `condition.wait`: a thread
that is blocked and not in `waiting` has been woken and tests its predicate
again. `sent` and `received` are history variables.

One action is one run of a handler. A handler holds the mutex throughout and
reads only its own thread's data before it locks, so this loses no
interleaving; a handler that sleeps takes a further step for every test of its
predicate. `Handler(v, io)` is the dispatch of `handleSharedBufferIo`, with
every access it rejects. Failing and aborting are separate steps, because other
threads run between them. `SpuriousWakeup` is what the C++ standard allows.
Other ways a VM ends (`GuestHalts`, `GuestFails`) can happen whenever the guest
runs.

Two specifications differ in the guests. In `Spec` a guest may issue any access
at any time. In `OrderedSpec` a reader sends no byte request and no
acknowledgement outside a size/acknowledgement pair, which is the order of
`read_shared_buffer` in `guest/src/interrupts.c`. Some properties need that
order (section 5).

`Broadcast` is what the component promises to ordered guests, without mutex,
counters or generations: one message is offered at a time, each reader takes it
whole and once, and it is withdrawn only when all have it.
`ImplementsBroadcast` maps a published round to the message on offer and an
acknowledgement to a reader that has taken it.

### FileIO, PrivateFiles, PosixFiles

`FileIO` models the host: `dir` maps host paths to files, `contents` files to
bytes, and `openFiles[v]` is the descriptor table with, per descriptor, the
fields of `OpenFile` and the state of its host descriptor (file, offset, mode).
One action is one request of `processFileRequest`, every failure included.
Requests of different VMs touch different tables and directories and only read
the originals, so a request is one step. Guest memory enters as "the
buffer lies inside or not"; which addresses do is `GuestMemory`'s. `HostFaults` switches on
the two failures the code does not act on: an error of `exists` in
`resolveFile`, and an error of the clean-up `remove`.

`PrivateFiles` is the abstract promise: every VM has a map from names to
contents of its own, and a request either does what POSIX says to that map or
is refused without effect. Two answers of -1 do have an effect, as in the code:
a close that the host reports as failed still removes the descriptor
(`file_io.cpp:286-297`), and a seek to a position that does not fit an `int`,
and only such a seek, still moves the offset (`:368-371`).
`FileIO!ImplementsPrivateFiles` is the refinement, with `files[v]` mapped to
what v's names resolve to. `PosixFiles` holds what `read` and `write` do to
contents; it models the host's system calls from how `file_io.cpp` uses them.

### Hypervisor

A whole run: `main`'s create and join loops, the interrupts of every VM and the
shipped guest, on top of `SharedBuffer`. A guest is a program counter and its
variables; `NextIo` is the access it issues at its program counter, `AfterIo`
the guest after the value of the access has come back, and the access itself is
`SharedBuffer!Handle`. `Faults` names what may go wrong. File contents are
short byte sequences; guest.txt and reader.txt are what the file library reads
and leaves behind.

### FilePort, GuestMemory

`GuestMemory` has the checks of addresses, ranges and names as operators.
`FilePort` is one VM's port 0x278: the host's stack `pendingResults` and the
guest's stack of activations (`_start` and the interrupt handlers above it),
each of which may be between the OUT and the IN of a library call. The guest is
any program that reaches the port through the library, or reads it when it
waits for nothing, and that may enable interrupts anywhere, so handlers nest as
deep as `IRQ_COUNT` allows. `answer` and `touched` are history: what the last
call should get and got, and the memory the last request used.

### VmThread, HostResources, Console

The thread of each VM from `vm_init` to `closeGuestFiles`. `HostResources` has
both sides of every descriptor and mapping: what the kernel keeps (`allocated`)
and what the program remembers (fields of `struct vm`, the descriptor table,
the vector of a copy on write). `Console` has the mutexes, the line buffers and
what was printed; a message takes two steps, lock with prefix and rest with
unlock. `perror` and `printf` of `vm.c`, and the errors of `main` while VMs run
(`MainFails`), take no lock: they are one step each, part of the action in
which the call fails (`SetUpFails`, `KvmFails`), and `intruders` records into
whose message they fall. A file that is shared has the name it was opened with
as its state, because a copy on write takes along the descriptors of that name
only (`Copied`). `VmThread` puts them together: `todo[v]` lists what the thread
does before its guest runs again, so a failure replaces the list by the
clean-up of that path, in the order of the code. The two loops of
`reopenSharedFiles` are separate steps here, with a failure at each descriptor.

### Startup, Cli, PageTables

`Cli` reads one argument a step; its state is the loop of `parseArguments`.
The grammar it is compared with (`WellFormed`, `Meaning`) speaks about the whole
line and follows the usage text. `PageTables` has guest memory below and at the
load address as frames of 512 entries, the constants of `vm.h` at their real
values, and the processor's walk. `Startup` composes them: parse, configure the
shared files, set up the tables, load an image of a size at the edges.

## 3. The runs

| Run | Instance | Shows |
|---|---|---|
| `SharedBufferAny` | 2 readers, 2 rounds, any guests, one byte value, fair | `NoLostWakeup`, `AbortReleasesEveryone` |
| `SharedBufferOrdered` | 2 readers, 2 rounds, buffer of 1, messages of 0 to 2 bytes of two values, fair | `RoundProtocol`, `BufferHoldsMessage`, `NoOverwriteWhileReading`, `FinishMeansAllAcknowledged`, `AcknowledgedMeansDelivered`, `SuccessMeansTransfer`, `PublishedDataIsServed`, refinement of `Broadcast` |
| `SharedBufferEarlyFinish` | any guests | violation, finding 1 |
| `FileIODescriptors` | 1 VM, 2 descriptors, a shared and a local name, all modes | coherence of descriptors, refinement of `PrivateFiles` |
| `FileIOFaults` | 2 VMs, one with 2 descriptors, `exists` and `remove` may fail too | originals and isolation |
| `FileIOOwnedOriginal` | the shared file lies in a VM's directory | violation, finding 2 |
| `HypervisorFaults` | 2 VMs, every fault | main returns, success is complete and owes nobody anything, refinement of `OrderedSpec` |
| `HypervisorClean` | 3 VMs, no fault | no refusal, `EXIT_SUCCESS` |
| `HypervisorStaleReader` | 2 VMs, an old reader.txt | violation, finding 3 |
| `FilePort` | 40 bytes of memory, 7 addresses, nested interrupts | `OwnResult`, `ResultsAreAwaited`, `InsideGuestMemory` |
| `VmThread` | 2 VMs, 3 and 1 exits, 2 descriptors, 2 shared names, every failure, fair | `HandlesOwned`, `OnlyFailuresIntrude`, `OutputIsPrinted`, `PromptIsShown`, `LeavingEnds`, `EndOfInputReachesAll`, no deadlock |
| `Startup` | all lines of up to 9 arguments, lists of up to 2 paths | `ParseMatchesGrammar`, `EveryFileIsShared`, `IdentityMapped`, `ImageIsReached` |

Bounds. Two readers are the smallest number at which acknowledgements of one
round can be mixed up and `notify_one` would differ from `notify_all`; two
rounds the smallest at which a round can be confused with the one before. A
buffer of one byte has messages below, at and above its size; larger buffers
are the theorems' part. For files, one VM that writes and one that watches, two
descriptors of one name, a local name beside a shared one, and files of up to
two bytes separate reading, overwriting, extending and seeking to a gap.
`IntMax` is small so that a position that does not fit an `int` is reached. The
memory of `FilePort` is little more than a request, and its addresses are the
first, the last a request or a name fits at, the one behind, the end, and ones
far behind; the two interrupts are the code's own number. Three exits
(`MaxExits`) let a VM open two descriptors, of one shared name, of two or of a
local one, and write, or send a line and then an unfinished one, beside a VM
that competes for the console and the input and opens no file (`FileVMs`);
afterwards a VM may only stop. Nine arguments (`MaxArgs`) are the three
required options with two images and one file, or any shorter line; `MaxPaths`
is 2, so two files can have the same name. Page and memory sizes are not scaled
down. `MaxGeneration`, `MaxRequest`, `MaxCount`, `MaxSize`, `MaxDescriptor` and
`FileIds` are the bounds; each appears in one guard. The theorems of section 4
hold for all values.

Fairness. `SharedBuffer` assumes only that a thread that is awake inside a
handler, or that has to abort the buffer, is eventually scheduled and gets the
mutex, which is held for bounded time. Guests owe nothing. `Hypervisor` also
assumes that KVM runs the guest and that a read of the serial input returns (a
character or the end of the input): a thread in `std::cin.get` is not released
by an abort. `VmThread` assumes weak fairness of every step of the host's
thread, the taking of a mutex included (a VM takes it finitely often under
`MaxExits`, so the owner gives it up for good), and that a read of an input
that has ended returns. Nothing makes a guest exit or a user type: a thread may
wait for a character for ever, and `LeavingEnds` says that the others end
nevertheless. Spurious wake-ups are never assumed. In the runs of
`SharedBuffer`, `FileIO`, `FilePort` and `Startup` deadlock is not checked:
guests may have ended, or the part of the run that is modelled is over. In
`Hypervisor` and `VmThread` it is.

Every property of a passing run has a mutant: a definition changed the way a
plausible bug would change the code (`notify_one` for `notify_all`, a missing
reset, a dropped check, a wrong path), under which the run fails. The mutants
are the operators marked *Mutant* in the modules.

## 4. The proofs

Every safety property that a passing run checks is also proved, for any value of
the constants: any number of VMs or readers, any buffer, memory, message and
file sizes, any bounds. The assumptions are the named ASSUMEs of the modules
(types, and the facts quoted below) and, for some theorems about `FileIO`, the
two hypotheses discussed there. Each proof has one lemma or step per action,
and each module names its inductive invariant (`IInv`, or its parts) at the
top or where its part begins.

### The shared buffer

From `ConstantsAssumption` alone. `SharedBufferProofs`, for any guests (`Spec`):

* `TypeCorrect`: `TypeOK`.
* `NoWakeupIsLost`: `NoLostWakeup`, inductive relative to `TypeOK`. Whoever
  makes a predicate true empties `waiting`; whoever sleeps has just seen its
  predicate false; nobody else changes a sleeping thread's own data.
* `BufferIsFaithful`: `BufferHoldsMessage`, from the inductive `RoundContents`.
  The strengthening says what the announced size is while the round is being
  written (the stored part of the expected bytes) and that publication means
  that all expected bytes came.

`SharedBufferOrderedProofs`, for ordered readers (`OrderedSpec`):

* `ProtocolHolds`: `RoundProtocol`, the inductive invariant of the protocol. A
  reader in the middle of a round has the current generation and the round is
  published and open; between rounds and before publication every reader has
  acknowledged all there was; `completedReaders` is the cardinality of the set
  of readers that acknowledged this generation. It is needed because the code
  only counts: that the count can be trusted is exactly that set's cardinality.
* `ReadersAreNotOverwritten`: a reader in the middle of a round pins it, so
  neither a new round nor a byte of the writer is possible.
* `WriterWaitsForAll`: a subset of the readers with the readers' cardinality is
  all of them.
* `DeliveryIsExact`: with `Delivery`, what a reader holds is a prefix of the
  message as long as its offset.
* `SuccessIsEarned`: `SuccessMeansTransfer`, with `CompletedTransfers`: a writer
  that succeeds was heard by every reader, a reader has acknowledged a generation.
  Without the order it is false (finding 1).

`BroadcastProofs`: `BufferIsBroadcast`, `OrderedSpec => ImplementsBroadcast`.
Handlers that only count, sleep or refuse are stutters; publication is the offer,
and `RoundContents` makes what is offered the writer's message; an
acknowledgement is a reader that takes it, and `Delivery` makes what it holds
that message; the end of a round is the withdrawal, and `RoundProtocol` shows
that all readers have it. A message of no bytes is offered by
`beginWriterRound` itself.

### A whole run

`HypervisorProofs`, from `HypervisorAssumption` as well: `Order` names each VM
once, `Texts` are byte sequences, and the bounds `MaxRequest` and `MaxGeneration`
of the `SharedBuffer` model leave room for the one message a run has.

* `InvariantHolds`: `IInv`. The invariants of the shared buffer are not enough:
  they hold for any ordered guest, and that the shipped guest is one depends on
  its program counter. `Writing` and `Reading` are the missing link: for each
  point of `irq0_handler` they say what the host has of the VM at that point
  (announced size, bytes sent, generation, offset), so the next access is the
  one the host expects, and a second round cannot begin. `MainControl` and
  `Results` follow the loops of `main`; `Clean` says that without faults
  nothing is refused and nobody aborts.
* `GuestsAreOrdered`: `HvSpec => ImplementsSharedBuffer`. Every step is one of
  `OrderedNext` or leaves the buffer alone. This carries all theorems about
  ordered readers over to a real run; `RunIsBroadcast` puts the most important of
  them together.
* `SuccessMeansComplete`: `SuccessIsComplete`, from `IInv` and from
  `DeliveryIsExact` through the refinement. It is about the buffers of the reader
  guests, not about reader.txt, which may keep an older tail (finding 3).
* `NothingIsOwed`: `SuccessOwesNothing`. A writer that has succeeded left no round
  open, a reader no generation it has not acknowledged; the round may still be
  open for other readers.
* `NothingIsRefused`, `HvTypeCorrect`: `NoRefusal`, `HvTypeOK`.

### Files

`FileIOProofs`, from `FilesAssumption`. Each request is first reduced to one of a
few effects (`Effect`: an answer, a new entry, one entry changed or dropped, a
private file written, a copy that succeeds or fails); the invariants are then
proved over effects.

* `TypeCorrect`: `TypeOK`, from `Typed`.
* `NoOriginalIsWritten`: `OriginalsUntouched`, for `OriginalsOutside`: no `-f`
  file lies in a VM's own directory. The hypothesis is needed, finding 2 is its
  violation. The strengthening `Separated` says that no two paths lead to one
  file, that a shared descriptor reads the original of its name, and that a
  descriptor of a private file has that file to its VM, so a write reaches
  nobody else's file. It holds whatever `exists` and `remove` do.
* `RequestsAreIsolated`: the action property `Isolation`, from the same.
* `DescriptorsAgree`: `CoherentDescriptors`, for `HostFaults = {}`. An `exists`
  that fails, or a partial copy that `remove` leaves behind, does break
  coherence (section 5), so the hypothesis is needed as well.
* `CopyOnWriteIsInvisible`: `Spec => ImplementsPrivateFiles`, under both
  hypotheses. The mapping takes what a VM's names resolve to; a copy on write
  does not change it, because the copy has the original's bytes and every
  descriptor of the name moves with its offset.

### The file port

`FilePortProofs`, from `MemoryAssumption` and `PortAssumption`:

* `PortTypeCorrect`: `TypeOK`.
* `ResultsNest`: `ResultsAreAwaited`, inductive relative to `TypeOK`. It ties
  every pending result to the activation that waits for it, in the order of the
  activations. That is what is needed for an IN to be right: with it, the last
  result belongs to the running activation (`LastIsOwn`), an activation that is
  not waiting has none above it (`RoomForOne`), and when nobody waits there is
  none (`NoneAwaited`).
* `CallsGetTheirOwn`: `OwnResult`, from `LastIsOwn` and `NoneAwaited`.
* `MemoryIsSafe`: `InsideGuestMemory`, from what `getGuestMemory` lets through
  (`RangeInside`, `NameInside`, `RequestInside`).

### The threads of the host

`VmThreadProofs`. What a thread has still to do is the list `todo`, so every
argument needs to know which lists there are: `Plans` are the suffixes of the
set-up, and the run, input, flush and leave lists; `ThreadType` says that
`todo` is always one of them and `Typed` ties the mutexes to the step that holds them.

* `TypeCorrect`: `TypeOK`, with `MessageControl` (a thread in the middle of a
  message has `consoleMutex`).
* `MessagesKeptWhole`: `OnlyFailuresIntrude`, from `IntruderControl`: intruders are
  recorded only while the message is under way, and a VM among them has its own
  error to print next (`LeaveFirst`), for which it needs the mutex. So a message
  may be interrupted by one line of `vm.c` of each failing VM and by errors of
  `main`, and by nothing else.
* `NoOutputIsLost`: `OutputIsPrinted`; `PromptComesFirst`: `PromptIsShown`; both
  from `LineControl`: what is in the line buffer at each kind of list. A full
  line is there only while its flush is ahead.
* `InvariantHolds`: all parts together, with `ResourceControl`: the kernel has
  what the program remembers, the second descriptors exist only inside a copy
  on write and only for descriptors that are still shared, and nothing is left
  at the end. `NoHandleIsLost`: `HandlesOwned`, from it.

### Start-up

`StartupProofs`, from `StartupAssumption` and `CliAssumption` (no path
begins with a dash):

* `ParserIsTheGrammar`: `ParseMatchesGrammar`, for command lines and lists of any
  length. The grammar speaks of positions in the whole line, the parser of the
  last option and of what it has stored. `GrammarByOption` restates the grammar
  by option, `OptionAdded` and `WordAdded` say what one more argument does to the
  groups, and the inductive `Reading` says that every group but the one being
  served is complete and stored; `ReadSoFar` concludes that the line so far is in
  the grammar exactly when the parser could stop.
* `NoFileIsDropped`: `EveryFileIsShared`, from `Files`.
* `MemoryIsMapped`: `IdentityMapped`. `Tables` describes the tables entry by entry
  after `setup_long_mode`; `WalkIsIdentity` follows the processor through them;
  `ImageBehindTables` shows that an image of any size leaves them alone.
* `ImageIsFound`: `ImageIsReached`, from `MemoryIsMapped`'s invariant and the size
  `load_guest_image` has let through; `TypeCorrect`: `TypeOK`.

### Only model-checked

Liveness (`AbortReleasesEveryone`, `PublishedDataIsServed`,
`MainEventuallyReturns`, `CleanRunSucceeds`, `LeavingEnds`,
`EndOfInputReachesAll`): temporal formulas under fairness are outside the
prover's reach. `HypervisorFaults` checks the refinement of `OrderedSpec`,
`SharedBufferOrdered` that of `Broadcast` and `FileIODescriptors` that of
`PrivateFiles` too; none of the three abstract specifications has fairness, so
the theorems are the same formulas.

### What the proofs corrected

Attempts that failed showed five places where the models said more, or less,
than the code, and they were changed: `OpenFile` could create a file for a name
that resolved to a shared original that was not there (`O_CREAT` is not passed
for those); a copy on write could start from an original that was not in the
directory; files could begin longer than `MaxSize`; the refinement mapping to
`PrivateFiles` named parts of entries that no guest sees; and nothing said that
`Order` names a VM only once, which `main` guarantees by creating one thread
per index.

## 5. Findings

1. `shared_buffer.cpp:196-199`: before the first publication `generation` and
   every reader's `activeReadGeneration` are 0, so a reader that never asked
   for a size passes the checks of `readSharedByte` and `finishReaderRound`.
   Its acknowledgement is counted for the round being written, and the writer
   finishes without that reader (README.md:133 says otherwise). If no round
   exists, it acknowledges 0 bytes, and its `hlt` is reported as success
   (README.md:242 says otherwise). The shipped guest never does this.
2. `file_io.cpp:145`: a file given as `-f vm_files/vm_0/x` is VM 0's local file
   and everybody else's shared file (README.md:118).
3. `guest/src/interrupts.c:56`: reader.txt is not truncated (README.md:135).

Also seen, without a run: the test guests B1 and B2 open names with an
underscore, which `isValidGuestFileName` rejects (`file_io.cpp:43-56`,
`tests/B/b1_create_write_read.c:51`, `tests/B/b2_open_flags.c:62`); when
`exists` fails, a write can remove the VM's own private copy
(`file_io.cpp:145`, `:226-229`).

## 6. Not modelled

* The characters of a file name: `isValidGuestFileName` is a flag of the name in
  `FilePort` and the set `ValidNames` in `Startup`.
* The texts of all messages. An unlocked error is one step: `main`'s errors are
  several insertions each, so output of a VM may also fall into them.
* The guest's GDT and IDT set-up, and the test guests under `tests/`: they keep
  no state that the host or another VM sees beyond the requests and accesses
  that `FileIO`, `FilePort` and `VmThread` already allow.
* Room for the guest's .bss and stack behind its image: nothing checks it.
* The limit of the process on descriptors: an `open` may fail at any time.
* KVM itself and the CPU, except its page walk.
* Overflow of the 64-bit generation: out of reach of any run.

## 7. Plan

Done: the modules of section 2, and a theorem for each safety property of a
passing run. Left is liveness, which stays with TLC: beyond the bounds of
section 3 it is not known.
