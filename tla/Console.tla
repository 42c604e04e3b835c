-------------------------------- MODULE Console --------------------------------
(***************************************************************************)
(* The console of vm_runner.cpp: the lines VMs send to port 0xE9 are       *)
(* collected and printed whole, with a prefix, under consoleMutex; the     *)
(* characters they read come from one standard input, under                *)
(* serialInputMutex.                                                       *)
(*                                                                         *)
(* A message is several insertions into a stream, so it takes two steps:   *)
(* one locks consoleMutex and prints the prefix, one prints the rest and   *)
(* unlocks.  perror and printf of vm.c, and main's errors, take no lock:   *)
(* they are one call each, and may fall into a message.                    *)
(***************************************************************************)
EXTENDS VmSet, Sequences

CONSTANT Main   \* main's own thread, which prints but is no VM

ASSUME MainAssumption == Main \notin VMs

VARIABLES
    consoleMutex,   \* its owner, or None
    inputMutex,     \* serialInputMutex: its owner, or None
    writing,        \* writing[v]: the stream v is in the middle of a message on, or None
    line,           \* line[v]: GuestContext.serialOutputBuffer
    printed,        \* history: printed[v], the characters of v on the console
    sent,           \* history: sent[v], the characters v has sent
    intruders,      \* history: intruders[v], who has printed since v began its message
    inputEnded      \* std::cin has met the end of its input

consoleVars == <<consoleMutex, inputMutex, writing, line, printed, sent, intruders,
                 inputEnded>>

Streams == {"cout", "cerr"}
Newline == "n"
Characters == {"c", Newline}    \* any other character, and '\n'

ConsoleInit ==
    /\ consoleMutex = None /\ inputMutex = None
    /\ writing = [v \in VMs |-> None]
    /\ line = [v \in VMs |-> <<>>]
    /\ printed = [v \in VMs |-> <<>>]
    /\ sent = [v \in VMs |-> <<>>]
    /\ intruders = [v \in VMs |-> {}]
    /\ inputEnded = FALSE
---------------------------------------------------------------------------
(* What somebody prints falls into every message that is under way. *)
FallInto(who) ==
    [v \in VMs |-> IF writing[v] # None THEN intruders[v] \cup {who} ELSE intruders[v]]

(* Mutant: the message is printed without the lock. *)
BeginUnlocked(v, stream) ==
    /\ writing' = [writing EXCEPT ![v] = stream]
    /\ intruders' = FallInto(v)
    /\ UNCHANGED <<consoleMutex, inputMutex, line, printed, sent, inputEnded>>

(* perror and printf in vm.c, and std::cerr in main: no lock is taken. *)
PrintUnlocked(who) ==
    /\ intruders' = FallInto(who)
    /\ UNCHANGED <<consoleMutex, inputMutex, writing, line, printed, sent, inputEnded>>

(* printError, printSystemError, printHalt, printUnexpectedExit and        *)
(* flushSerialOutput: lock, and the prefix.                                *)
BeginMessage(v, stream) ==
    /\ consoleMutex = None
    /\ consoleMutex' = v
    /\ writing' = [writing EXCEPT ![v] = stream]
    /\ intruders' = FallInto(v)
    /\ UNCHANGED <<inputMutex, line, printed, sent, inputEnded>>

(* The rest of a message that is not the guest's. *)
EndMessage(v) ==
    /\ consoleMutex' = None
    /\ writing' = [writing EXCEPT ![v] = None]
    /\ intruders' = [FallInto(v) EXCEPT ![v] = {}]
    /\ UNCHANGED <<inputMutex, line, printed, sent, inputEnded>>

(* flushSerialOutput: the rest of it, and the buffer is cleared. *)
EndFlush(v) ==
    /\ consoleMutex' = None
    /\ writing' = [writing EXCEPT ![v] = None]
    /\ intruders' = [FallInto(v) EXCEPT ![v] = {}]
    /\ printed' = [printed EXCEPT ![v] = @ \o line[v]]
    /\ line' = [line EXCEPT ![v] = <<>>]
    /\ UNCHANGED <<inputMutex, sent, inputEnded>>

(* handleSerialIo, OUT. *)
PushBack(v, character) ==
    /\ line' = [line EXCEPT ![v] = Append(@, character)]
    /\ sent' = [sent EXCEPT ![v] = Append(@, character)]
    /\ UNCHANGED <<consoleMutex, inputMutex, writing, printed, intruders, inputEnded>>
---------------------------------------------------------------------------
(* Mutant: the thread holds consoleMutex while it waits for a character. *)
LockWithConsole(v) ==
    /\ inputMutex = None /\ consoleMutex = None
    /\ inputMutex' = v /\ consoleMutex' = v
    /\ UNCHANGED <<writing, line, printed, sent, intruders, inputEnded>>

(* handleSerialIo, IN, after the flush. *)
LockInput(v) ==
    /\ inputMutex = None
    /\ inputMutex' = v
    /\ UNCHANGED <<consoleMutex, writing, line, printed, sent, intruders, inputEnded>>

(* std::cin.get gives a character. *)
GetCharacter(v) ==
    /\ ~inputEnded
    /\ inputMutex' = None
    /\ UNCHANGED <<consoleMutex, writing, line, printed, sent, intruders, inputEnded>>

(* std::cin.get fails, now and at every later call; serialInputMutex stays *)
(* locked until the error is printed.                                      *)
EndOfInput ==
    /\ inputEnded' = TRUE
    /\ UNCHANGED <<consoleMutex, inputMutex, writing, line, printed, sent, intruders>>

(* Mutant: serialInputMutex stays locked. *)
KeepInput(v) == UNCHANGED consoleVars

UnlockInput(v) ==
    /\ inputMutex' = None
    /\ UNCHANGED <<consoleMutex, writing, line, printed, sent, intruders, inputEnded>>
=============================================================================
