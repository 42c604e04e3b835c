-------------------------------- MODULE Startup --------------------------------
(***************************************************************************)
(* The way of a run from its command line to the first instruction of a    *)
(* guest: parseArguments, configureSharedFiles (host/src/main.cpp), and    *)
(* the memory of one of the VMs (host/src/vm.c).  The VMs are alike here,  *)
(* so one stands for all.  Failures of KVM calls are in VmThread.          *)
(***************************************************************************)
EXTENDS Cli, PageTables, FiniteSets

CONSTANTS
    Missing,        \* paths that are no regular file
    FileName,       \* FileName[w]: the last component of path w
    ValidNames      \* the names isValidGuestFileName accepts

ASSUME StartupAssumption == Missing \subseteq Words /\ DOMAIN FileName = Words

VARIABLES
    phase,          \* where main and the VM's thread are
    sharedFiles,    \* SharedState.sharedFiles, a function from names to paths
    configured,     \* history: how many of config.sharedFiles were taken
    vm,             \* GuestContext.memorySize and pageSize
    imageSize       \* history: bytes of the image that were read

vars == <<cliVars, tables, sregs, phase, sharedFiles, configured, vm, imageSize>>

NoFiles == [n \in {} |-> ""]
NoVm == [memorySize |-> 0, pageSize |-> 0]

Init ==
    /\ CliInit
    /\ tables = <<>> /\ sregs = ResetSregs
    /\ phase = "parse"
    /\ sharedFiles = NoFiles /\ configured = 0
    /\ vm = NoVm /\ imageSize = 0

Parse ==
    /\ phase = "parse"
    /\ ReadArgument \/ EndOfArguments
    /\ UNCHANGED <<tables, sregs, phase, sharedFiles, configured, vm, imageSize>>

(* The command line plays no part any more and is left out of the state. *)
Forget ==
    /\ args' = <<>> /\ serving' = "none" /\ seen' = {}
    /\ config' = NoConfig /\ status' = "Error"
    /\ sharedFiles' = NoFiles /\ configured' = 0

(* main: Help and Error return at once. *)
LeaveParse ==
    /\ phase = "parse" /\ serving = "done"
    /\ \/ status = "Ok" /\ phase' = "configure" /\ UNCHANGED <<cliVars, sharedFiles, configured>>
       \/ status # "Ok" /\ phase' = "exit" /\ Forget
    /\ UNCHANGED <<tables, sregs, vm, imageSize>>
---------------------------------------------------------------------------
NextPath == config.sharedFiles[configured + 1]

(* Mutant: a name that is taken is passed over. *)
AcceptsTaken(path) == path \notin Missing /\ FileName[path] \in ValidNames

(* configureSharedFiles: the file is there, its name is valid and new. *)
Acceptable(path) ==
    /\ path \notin Missing
    /\ FileName[path] \in ValidNames
    /\ FileName[path] \notin DOMAIN sharedFiles

(* std::unordered_map::emplace keeps what is there. *)
Emplace(name, path) ==
    sharedFiles' = [n \in DOMAIN sharedFiles \cup {name} |->
                      IF n \in DOMAIN sharedFiles THEN sharedFiles[n] ELSE path]

ConfigureFile ==
    /\ phase = "configure" /\ configured < Len(config.sharedFiles)
    /\ \/ /\ Acceptable(NextPath)
          /\ Emplace(FileName[NextPath], NextPath)
          /\ configured' = configured + 1
          /\ UNCHANGED <<cliVars, phase>>
       \/ ~Acceptable(NextPath) /\ phase' = "exit" /\ Forget
    /\ UNCHANGED <<tables, sregs, vm, imageSize>>

(* main fills the GuestContexts and starts the threads; vm_init maps the   *)
(* VM's memory.                                                            *)
StartThread ==
    /\ phase = "configure" /\ configured = Len(config.sharedFiles)
    /\ phase' = "set up"
    /\ vm' = [memorySize |-> config.memorySize, pageSize |-> config.pageSize]
    /\ tables' = Zeroed
    /\ Forget
    /\ UNCHANGED <<sregs, imageSize>>
---------------------------------------------------------------------------
SetUp ==
    /\ phase = "set up"
    /\ SetupLongMode(vm.memorySize, vm.pageSize)
    /\ phase' = "load"
    /\ UNCHANGED <<cliVars, sharedFiles, configured, vm, imageSize>>

(* Sizes of images at the edges of what fits. *)
FileSizes == {0, 1, vm.memorySize - GUEST_START_ADDR, vm.memorySize - GUEST_START_ADDR + 1,
              vm.memorySize}

Load ==
    /\ phase = "load"
    /\ \E fileSize \in FileSizes :
        \/ /\ ImageFits(vm.memorySize, fileSize)
           /\ LoadImage(fileSize)
           /\ imageSize' = fileSize
           /\ phase' = "run"
        \/ /\ ~ImageFits(vm.memorySize, fileSize)
           /\ phase' = "exit"
           /\ UNCHANGED <<tables, imageSize>>
    /\ UNCHANGED <<cliVars, sregs, sharedFiles, configured, vm>>

Next == Parse \/ LeaveParse \/ ConfigureFile \/ StartThread \/ SetUp \/ Load
Spec == Init /\ [][Next]_vars
---------------------------------------------------------------------------
(* Type correctness; a VM has one of the sizes the usage text names. *)
TypeOK ==
    /\ serving \in Options \cup {"none", "done"} /\ seen \subseteq Options
    /\ status \in {"Ok", "Help", "Error"}
    /\ phase \in {"parse", "configure", "set up", "load", "run", "exit"}
    /\ phase \in {"set up", "load", "run"} =>
         vm \in [memorySize : {2 * MiB, 4 * MiB, 8 * MiB}, pageSize : {4 * KiB, 2 * MiB}]

(* No argument of -f is dropped: as long as configureSharedFiles goes on,  *)
(* every path taken so far is found under its own name.                    *)
EveryFileIsShared ==
    phase = "configure" =>
        /\ Cardinality(DOMAIN sharedFiles) = configured
        /\ \A i \in 1..configured :
             LET path == config.sharedFiles[i]
             IN  FileName[path] \in DOMAIN sharedFiles /\ sharedFiles[FileName[path]] = path

(* When the guest starts, with the image in place, the page tables map     *)
(* every page of its memory to itself and nothing behind it, for each of   *)
(* the memory and page sizes: the tables of 8 MiB in 4 KiB pages end where *)
(* the image begins.                                                       *)
IdentityMapped ==
    phase = "run" =>
        /\ sregs.long /\ sregs.cs64
        /\ \A p \in 0..5 * PAGE_TABLE_ENTRIES - 1 :
             Walk(p) = IF p < Frame(vm.memorySize) THEN p ELSE -1

(* The guest finds its whole image: at every page fread filled, from the   *)
(* entry point on, the page walk leads to that very frame.  It needs the   *)
(* check of the size, the load address and the tables to agree.            *)
ImageIsReached ==
    phase = "run" =>
        \A f \in Frame(GUEST_START_ADDR)..Frame(GUEST_START_ADDR + imageSize - 1) : Walk(f) = f
=============================================================================
