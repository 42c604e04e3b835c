---------------------------------- MODULE Cli ----------------------------------
(***************************************************************************)
(* parseArguments of host/src/cli.cpp as a machine that reads one argument *)
(* a step, and a declarative grammar of the command line it is compared    *)
(* with.  An argument is a token; the long form of an option is the same   *)
(* token as the short one.                                                 *)
(***************************************************************************)
EXTENDS Integers, Sequences

CONSTANTS
    Paths,      \* arguments that begin with no '-' and are not 2, 4 or 8
    MaxArgs,    \* bound on the length of the command line
    MaxPaths    \* bound on the length of each list of paths

VARIABLES
    args,       \* history: the arguments looked at
    serving,    \* the option whose values are read, "none" or "done"
    seen,       \* memorySet, pageSet, guestSet and fileSet, as a set of options
    config,     \* CliResult.config
    status      \* CliResult.status

cliVars == <<args, serving, seen, config, status>>

KiB == 1024
MiB == 1024 * KiB

Options == {"-m", "-p", "-g", "-f"}
Required == {"-m", "-p", "-g"}
Dashed == Options \cup {"-h", "-?"}     \* "-?": any other argument with a '-'
Words == {"2", "4", "8"} \cup Paths
Tokens == Dashed \cup Words

(* A path with a '-' in front would be one of Dashed for parseArguments. *)
ASSUME CliAssumption == Paths \cap Dashed = {}

(* The values parseMemoryValue and parsePageValue accept, in bytes. *)
MemoryValue == [t \in {"2", "4", "8"} |->
                  CASE t = "2" -> 2 * MiB [] t = "4" -> 4 * MiB [] t = "8" -> 8 * MiB]

(* Mutant: both values of -p are taken as MiB. *)
PageValueInMiB == [t \in {"2", "4"} |-> CASE t = "4" -> 4 * MiB [] t = "2" -> 2 * MiB]

PageValue == [t \in {"2", "4"} |-> CASE t = "4" -> 4 * KiB [] t = "2" -> 2 * MiB]

NoConfig == [memorySize |-> 0, pageSize |-> 0, guestImages |-> <<>>, sharedFiles |-> <<>>]

CliInit ==
    /\ args = <<>> /\ serving = "none" /\ seen = {}
    /\ config = NoConfig
    /\ status = "Error"
---------------------------------------------------------------------------
Return(result) == serving' = "done" /\ status' = result /\ UNCHANGED <<seen, config>>

(* Mutant: an option may be given again. *)
MayServeAgain(t) == t \in Options

(* An argument where an option is expected. *)
MayServe(t) == t \in Options \ seen
TakeOption(t) ==
    \/ t = "-h" /\ Return("Help")
    \/ /\ MayServe(t)
       /\ serving' = t /\ seen' = seen \cup {t}
       /\ UNCHANGED <<config, status>>
    \/ t # "-h" /\ ~MayServe(t) /\ Return("Error")

(* The value of -m or -p, whatever it begins with. *)
TakeValue(t) ==
    \/ /\ serving = "-m" /\ t \in DOMAIN MemoryValue
       /\ config' = [config EXCEPT !.memorySize = MemoryValue[t]]
       /\ serving' = "none" /\ UNCHANGED <<seen, status>>
    \/ /\ serving = "-p" /\ t \in DOMAIN PageValue
       /\ config' = [config EXCEPT !.pageSize = PageValue[t]]
       /\ serving' = "none" /\ UNCHANGED <<seen, status>>
    \/ /\ serving = "-m" => t \notin DOMAIN MemoryValue
       /\ serving = "-p" => t \notin DOMAIN PageValue
       /\ Return("Error")

(* An argument after -g or -f: one more path, or the end of the list. *)
ListEmpty ==
    \/ serving = "-g" /\ config.guestImages = <<>>
    \/ serving = "-f" /\ config.sharedFiles = <<>>
TakePath(t) ==
    \/ /\ t \in Words /\ serving = "-g" /\ Len(config.guestImages) < MaxPaths
       /\ config' = [config EXCEPT !.guestImages = Append(@, t)]
       /\ UNCHANGED <<serving, seen, status>>
    \/ /\ t \in Words /\ serving = "-f" /\ Len(config.sharedFiles) < MaxPaths
       /\ config' = [config EXCEPT !.sharedFiles = Append(@, t)]
       /\ UNCHANGED <<serving, seen, status>>
    \/ t \in Dashed /\ ListEmpty /\ Return("Error")
    \/ t \in Dashed /\ ~ListEmpty /\ TakeOption(t)

ReadArgument ==
    /\ serving # "done" /\ Len(args) < MaxArgs
    /\ \E t \in Tokens :
        /\ args' = Append(args, t)
        /\ CASE serving = "none" -> TakeOption(t)
             [] serving \in {"-m", "-p"} -> TakeValue(t)
             [] serving \in {"-g", "-f"} -> TakePath(t)

(* There are no more arguments. *)
EndOfArguments ==
    /\ serving # "done"
    /\ Return(IF serving \notin {"-m", "-p"} /\ ~ListEmpty /\ Required \subseteq seen
              THEN "Ok" ELSE "Error")
    /\ UNCHANGED args
---------------------------------------------------------------------------
(* The grammar: an option and the words behind it are a group. *)
ArgsBefore(i) == SubSeq(args, 1, i - 1)
WordsAfter(s, i) ==
    LET ends == {j \in i + 1..Len(s) : s[j] \in Dashed}
        last == IF ends = {} THEN Len(s) ELSE (CHOOSE j \in ends : \A k \in ends : j <= k) - 1
    IN  SubSeq(s, i + 1, last)

GroupOk(option, words) ==
    \/ option = "-m" /\ Len(words) = 1 /\ words[1] \in {"2", "4", "8"}
    \/ option = "-p" /\ Len(words) = 1 /\ words[1] \in {"2", "4"}
    \/ option \in {"-g", "-f"} /\ words # <<>>

(* Groups only, each complete, none twice. *)
WellFormed(s) ==
    /\ s # <<>> => s[1] \in Dashed
    /\ \A i \in 1..Len(s) : s[i] \in Dashed =>
        /\ GroupOk(s[i], WordsAfter(s, i))
        /\ \A j \in 1..Len(s) : s[j] = s[i] => j = i

Has(s, option) == \E i \in 1..Len(s) : s[i] = option
WordsOf(s, option) ==
    IF Has(s, option) THEN WordsAfter(s, CHOOSE i \in 1..Len(s) : s[i] = option) ELSE <<>>

Meaning(s) ==
    [memorySize |-> CASE WordsOf(s, "-m")[1] = "2" -> 2097152
                      [] WordsOf(s, "-m")[1] = "4" -> 4194304
                      [] WordsOf(s, "-m")[1] = "8" -> 8388608,
     pageSize |-> IF WordsOf(s, "-p")[1] = "4" THEN 4096 ELSE 2097152,
     guestImages |-> WordsOf(s, "-g"),
     sharedFiles |-> WordsOf(s, "-f")]

(* parseArguments accepts exactly the command lines of the usage text:     *)
(* groups in any order, each option at most once, the required ones there, *)
(* and gives them their meaning; help needs a well-formed line before it.  *)
ParseMatchesGrammar ==
    serving = "done" =>
        /\ status = "Ok" <=>
             WellFormed(args) /\ \A option \in Required : Has(args, option)
        /\ status = "Ok" => config = Meaning(args)
        /\ status = "Help" <=>
             \E i \in 1..Len(args) : args[i] = "-h" /\ WellFormed(ArgsBefore(i))
=============================================================================
