----------------------------- MODULE StartupProofs -----------------------------
(***************************************************************************)
(* Proofs about Startup, for any paths, any file names and command lines   *)
(* of any length.  The inductive invariant says, for each phase, what the  *)
(* earlier ones have left: the groups read of the command line (Line), a   *)
(* parsed configuration (Parsed), the files taken from it (Files), and the *)
(* page tables (Prepared).                                                 *)
(***************************************************************************)
EXTENDS Startup, FiniteSetTheorems, SequenceTheorems, WellFoundedInduction, TLAPS

Sizes == {2 * MiB, 4 * MiB, 8 * MiB}
PageSizes == {4 * KiB, 2 * MiB}

(* What has been read of the command line: the value of an option is there *)
(* once its argument has been taken.                                       *)
Parsed ==
    /\ serving \in Options \cup {"none", "done"} /\ seen \subseteq Options
    /\ status \in {"Ok", "Help", "Error"}
    /\ config \in [memorySize : Nat, pageSize : Nat,
                   guestImages : Seq(Words), sharedFiles : Seq(Words)]
    /\ serving = "none" \/ serving \in Options =>
         /\ status = "Error"
         /\ "-m" \in seen /\ serving # "-m" => config.memorySize \in Sizes
         /\ "-p" \in seen /\ serving # "-p" => config.pageSize \in PageSizes
    /\ status = "Ok" => config.memorySize \in Sizes /\ config.pageSize \in PageSizes

(* The words behind the last option of a line, and behind another one. *)
IsLast(s, i) == \A j \in i + 1..Len(s) : s[j] \notin Dashed
IsNext(s, i, k) ==
    k \in i + 1..Len(s) /\ s[k] \in Dashed /\ \A j \in i + 1..k - 1 : s[j] \notin Dashed

(* The parts of the grammar, and the last group of a line. *)
Starts(s) == s # <<>> => s[1] \in Dashed
NoRepeats(s) == \A i, j \in 1..Len(s) : s[i] \in Dashed /\ s[j] = s[i] => j = i
LastGroup(s, option) == \E i \in 1..Len(s) : s[i] = option /\ IsLast(s, i)

(* Between two arguments: what has been read are groups, complete but the  *)
(* one that is served, and config holds their meaning.                     *)
Reading ==
    /\ serving \in Options \cup {"none"}
    /\ args \in Seq(Options \cup Words) /\ Starts(args) /\ NoRepeats(args)
    /\ seen = {option \in Options : Has(args, option)}
    /\ \A option \in seen \ {serving} : GroupOk(option, WordsOf(args, option))
    /\ config \in [memorySize : Nat, pageSize : Nat,
                   guestImages : Seq(Words), sharedFiles : Seq(Words)]
    /\ config.guestImages = WordsOf(args, "-g") /\ config.sharedFiles = WordsOf(args, "-f")
    /\ "-m" \in seen \ {serving} => config.memorySize = MemoryValue[WordsOf(args, "-m")[1]]
    /\ "-p" \in seen \ {serving} => config.pageSize = PageValue[WordsOf(args, "-p")[1]]
    /\ serving \in Options => LastGroup(args, serving)
    /\ serving \in {"-m", "-p"} => WordsOf(args, serving) = <<>>
    /\ serving = "none" => args = <<>> \/ LastGroup(args, "-m") \/ LastGroup(args, "-p")

Line == (serving # "done" => Reading) /\ ParseMatchesGrammar

(* An option has begun its group, and each list has a word. *)
MayEnd == serving \notin {"-m", "-p"} /\ ~ListEmpty

(* Which files are shared, and how far configureSharedFiles has come. *)
Files ==
    /\ phase = "parse" => sharedFiles = NoFiles /\ configured = 0
    /\ phase = "configure" =>
         /\ status = "Ok" /\ IsFiniteSet(DOMAIN sharedFiles)
         /\ configured \in 0..Len(config.sharedFiles)
    /\ EveryFileIsShared

(* The tables map the memory, whatever lies in the frame of the image. *)
Tables ==
    LET n == page_table_count(vm.memorySize) IN
    /\ sregs = [cr3 |-> PML4, long |-> TRUE, cs64 |-> TRUE]
    /\ tables[PML4][0] = PointsTo(PDPT) /\ tables[PDPT][0] = PointsTo(PD)
    /\ \A i \in Index : i >= n => tables[PD][i] = NotPresent
    /\ \A i \in Index : i < n =>
         IF vm.pageSize = PAGE_SIZE_4K
         THEN /\ tables[PD][i] = PointsTo(FirstPT + i)
              /\ \A j \in Index : tables[FirstPT + i][j] = PointsTo(i * PAGE_TABLE_ENTRIES + j)
         ELSE tables[PD][i] = LargePage(i * PAGE_TABLE_ENTRIES)

(* The image that was read ends inside guest memory. *)
ImageInside ==
    phase = "run" => imageSize \in Nat /\ GUEST_START_ADDR + imageSize <= vm.memorySize

Prepared ==
    /\ phase \in {"parse", "configure", "set up", "load", "run", "exit"}
    /\ phase \in {"set up", "load", "run"} =>
         vm \in [memorySize : Sizes, pageSize : PageSizes]
    /\ phase = "set up" => tables = Zeroed
    /\ phase \in {"load", "run"} => Tables
    /\ ImageInside

IInv == Parsed /\ Line /\ Files /\ Prepared
---------------------------------------------------------------------------
(* The command line.                                                       *)

(* What TakeOption leaves, from any state without an unread value. *)
LEMMA OptionTaken ==
    ASSUME Parsed, NEW t, TakeOption(t), serving \notin {"-m", "-p", "done"}
    PROVE  Parsed'
  BY DEF Parsed, TakeOption, Return, MayServe, Options

LEMMA ValueTaken ==
    ASSUME Parsed, NEW t, TakeValue(t), serving \in {"-m", "-p"}
    PROVE  Parsed'
<1>1. CASE serving = "-m" /\ t \in DOMAIN MemoryValue
  <2>1. MemoryValue[t] \in Sizes /\ MemoryValue[t] \in Nat
    BY <1>1 DEF MemoryValue, Sizes, MiB, KiB
  <2>2. /\ config' = [config EXCEPT !.memorySize = MemoryValue[t]]
        /\ serving' = "none" /\ UNCHANGED <<seen, status>>
    BY <1>1 DEF TakeValue
  <2> QED  BY <1>1, <2>1, <2>2 DEF Parsed
<1>2. CASE serving = "-p" /\ t \in DOMAIN PageValue
  <2>1. PageValue[t] \in PageSizes /\ PageValue[t] \in Nat
    BY <1>2 DEF PageValue, PageSizes, MiB, KiB
  <2>2. /\ config' = [config EXCEPT !.pageSize = PageValue[t]]
        /\ serving' = "none" /\ UNCHANGED <<seen, status>>
    BY <1>2 DEF TakeValue
  <2> QED  BY <1>2, <2>1, <2>2 DEF Parsed
<1>3. CASE Return("Error")
  BY <1>3 DEF Parsed, Return, Options
<1> QED  BY <1>1, <1>2, <1>3 DEF TakeValue

LEMMA PathTaken ==
    ASSUME Parsed, NEW t, TakePath(t), serving \in {"-g", "-f"}
    PROVE  Parsed'
<1>1. CASE /\ t \in Words /\ serving = "-g"
           /\ config' = [config EXCEPT !.guestImages = Append(@, t)]
           /\ UNCHANGED <<serving, seen, status>>
  <2>1. Append(config.guestImages, t) \in Seq(Words)
    BY <1>1 DEF Parsed
  <2>2. /\ config' \in [memorySize : Nat, pageSize : Nat,
                        guestImages : Seq(Words), sharedFiles : Seq(Words)]
        /\ config'.memorySize = config.memorySize /\ config'.pageSize = config.pageSize
    BY <1>1, <2>1 DEF Parsed
  <2> QED  BY <1>1, <2>2 DEF Parsed
<1>2. CASE /\ t \in Words /\ serving = "-f"
           /\ config' = [config EXCEPT !.sharedFiles = Append(@, t)]
           /\ UNCHANGED <<serving, seen, status>>
  <2>1. Append(config.sharedFiles, t) \in Seq(Words)
    BY <1>2 DEF Parsed
  <2>2. /\ config' \in [memorySize : Nat, pageSize : Nat,
                        guestImages : Seq(Words), sharedFiles : Seq(Words)]
        /\ config'.memorySize = config.memorySize /\ config'.pageSize = config.pageSize
    BY <1>2, <2>1 DEF Parsed
  <2> QED  BY <1>2, <2>2 DEF Parsed
<1>3. CASE Return("Error")
  BY <1>3 DEF Parsed, Return, Options
<1>4. CASE TakeOption(t)
  BY <1>4, OptionTaken
<1> QED  BY <1>1, <1>2, <1>3, <1>4 DEF TakePath

LEMMA ParseKeepsParsed ==
    ASSUME Parsed, ReadArgument \/ EndOfArguments
    PROVE  Parsed'
<1>1. CASE ReadArgument
  <2>1. PICK t \in Tokens :
            CASE serving = "none" -> TakeOption(t)
              [] serving \in {"-m", "-p"} -> TakeValue(t)
              [] serving \in {"-g", "-f"} -> TakePath(t)
    BY <1>1 DEF ReadArgument
  <2>2. serving \in {"none", "-m", "-p", "-g", "-f"}
    BY <1>1 DEF ReadArgument, Parsed, Options
  <2> QED  BY <2>1, <2>2, OptionTaken, ValueTaken, PathTaken
<1>2. CASE EndOfArguments
  <2>1. serving' = "done" /\ seen' = seen /\ config' = config
    BY <1>2 DEF EndOfArguments, Return
  <2>2. CASE status' = "Ok"
    <3>1. serving \in {"none", "-g", "-f"} /\ "-m" \in seen /\ "-p" \in seen
      BY <1>2, <2>2 DEF EndOfArguments, Return, Required, Parsed, Options
    <3> QED  BY <2>1, <2>2, <3>1 DEF Parsed, Options
  <2>3. CASE status' = "Error"
    BY <2>1, <2>3 DEF Parsed, Options
  <2> QED  BY <1>2, <2>2, <2>3 DEF EndOfArguments, Return
<1> QED  BY <1>1, <1>2

LEMMA ForgetKeepsParsed ==
    ASSUME Forget
    PROVE  Parsed'
<1>1. <<>> \in Seq(Words)
  OBVIOUS
<1> QED  BY <1>1 DEF Forget, Parsed, NoConfig

LEMMA ParsedNext ==
    ASSUME Parsed, [Next]_vars
    PROVE  Parsed'
<1>1. CASE Parse
  BY <1>1, ParseKeepsParsed DEF Parse
<1>2. CASE UNCHANGED cliVars
  BY <1>2 DEF cliVars, Parsed
<1> QED
  BY <1>1, <1>2, ForgetKeepsParsed
     DEF Next, LeaveParse, ConfigureFile, StartThread, SetUp, Load, vars
---------------------------------------------------------------------------
(* The command line and its grammar.                                       *)

(* The least of some natural numbers. *)
LEMMA Least ==
    ASSUME NEW E, E \subseteq Nat, E # {}
    PROVE  \E j \in E : \A k \in E : j <= k
<1> DEFINE R == {ss \in Nat \X Nat : ss[1] < ss[2]}
<1>1. IsWellFoundedOn(R, Nat)
  BY NatLessThanWellFounded DEF OpToRel
<1>2. PICK j \in E : \A k \in E : <<k, j>> \notin R
  <2> HIDE DEF R
  <2> QED  BY <1>1, WFMin
<1>3. ASSUME NEW k \in E PROVE j <= k
  <2>1. ~(k < j) /\ j \in Nat /\ k \in Nat
    BY <1>2
  <2> QED  BY <2>1
<1> QED  BY <1>3

LEMMA LastWords ==
    ASSUME NEW s \in Seq(Tokens), NEW i \in 1..Len(s), IsLast(s, i)
    PROVE  WordsAfter(s, i) = SubSeq(s, i + 1, Len(s))
<1>1. {j \in i + 1..Len(s) : s[j] \in Dashed} = {}
  BY DEF IsLast
<1> QED  BY <1>1 DEF WordsAfter

LEMMA InnerWords ==
    ASSUME NEW s \in Seq(Tokens), NEW i \in 1..Len(s), NEW k, IsNext(s, i, k)
    PROVE  WordsAfter(s, i) = SubSeq(s, i + 1, k - 1)
<1> DEFINE ends == {j \in i + 1..Len(s) : s[j] \in Dashed}
<1>1. k \in ends /\ k \in Nat /\ Len(s) \in Nat /\ i \in Nat
  BY DEF IsNext
<1>2. ASSUME NEW j \in ends PROVE k <= j
  BY <1>1 DEF IsNext
<1>3. ASSUME NEW j \in ends, \A l \in ends : j <= l PROVE j = k
  BY <1>1, <1>2, <1>3
<1>4. (CHOOSE j \in ends : \A l \in ends : j <= l) = k
  <2> HIDE DEF ends
  <2> QED  BY <1>1, <1>2, <1>3
<1> QED  BY <1>1, <1>4 DEF WordsAfter

LEMMA LastOrNot ==
    ASSUME NEW s \in Seq(Tokens), NEW i \in 1..Len(s), ~IsLast(s, i)
    PROVE  \E k : IsNext(s, i, k)
<1> DEFINE ends == {j \in i + 1..Len(s) : s[j] \in Dashed}
<1>1. ends \subseteq Nat /\ ends # {}
  BY DEF IsLast
<1>2. PICK k \in ends : \A j \in ends : k <= j
  <2> HIDE DEF ends
  <2> QED  BY <1>1, Least
<1>3. IsNext(s, i, k)
  BY <1>2 DEF IsNext
<1> QED  BY <1>3

(* One more argument. *)
LEMMA AppendFacts ==
    ASSUME NEW s \in Seq(Tokens), NEW t \in Tokens
    PROVE  /\ Append(s, t) \in Seq(Tokens) /\ Len(s) \in Nat
           /\ Len(Append(s, t)) = Len(s) + 1
           /\ \A i \in 1..Len(s) : Append(s, t)[i] = s[i]
           /\ Append(s, t)[Len(s) + 1] = t
           /\ \A a, b \in 1..Len(s) + 1 :
                b <= Len(s) + 1 => SubSeq(Append(s, t), a, b - 1) = SubSeq(s, a, b - 1)
<1>1. /\ Append(s, t) \in Seq(Tokens) /\ Len(s) \in Nat
      /\ Len(Append(s, t)) = Len(s) + 1
      /\ \A i \in 1..Len(s) : Append(s, t)[i] = s[i]
      /\ Append(s, t)[Len(s) + 1] = t
  OBVIOUS
<1>2. ASSUME NEW a \in 1..Len(s) + 1, NEW b \in 1..Len(s) + 1
      PROVE  SubSeq(Append(s, t), a, b - 1) = SubSeq(s, a, b - 1)
  BY <1>1
<1> QED  BY <1>1, <1>2

(* The groups that are complete stay as they are. *)
LEMMA ClosedWords ==
    ASSUME NEW s \in Seq(Tokens), NEW t \in Tokens, NEW i \in 1..Len(s),
           t \in Dashed \/ ~IsLast(s, i)
    PROVE  WordsAfter(Append(s, t), i) = WordsAfter(s, i)
<1> DEFINE s2 == Append(s, t)
           n == Len(s)
<1>1. /\ s2 \in Seq(Tokens) /\ n \in Nat /\ Len(s2) = n + 1 /\ s2[n + 1] = t
      /\ \A j \in 1..n : s2[j] = s[j]
      /\ \A a, b \in 1..n + 1 : SubSeq(s2, a, b - 1) = SubSeq(s, a, b - 1)
  BY AppendFacts
<1> HIDE DEF s2
<1>2. CASE IsLast(s, i)
  <2>1. IsNext(s2, i, n + 1)
    BY <1>1, <1>2 DEF IsNext, IsLast
  <2>2. i \in 1..Len(s2)
    BY <1>1
  <2>3. WordsAfter(s2, i) = SubSeq(s2, i + 1, (n + 1) - 1)
    BY <1>1, <2>1, <2>2, InnerWords
  <2>4. SubSeq(s2, i + 1, (n + 1) - 1) = SubSeq(s, i + 1, (n + 1) - 1)
    BY <1>1
  <2>5. (n + 1) - 1 = n
    BY <1>1
  <2> QED  BY <1>2, <2>3, <2>4, <2>5, LastWords DEF s2
<1>3. CASE ~IsLast(s, i)
  <2>1. PICK k : IsNext(s, i, k)
    BY <1>3, LastOrNot
  <2>2. IsNext(s2, i, k) /\ i \in 1..Len(s2) /\ i + 1 \in 1..n + 1 /\ k \in 1..n + 1
    BY <1>1, <2>1 DEF IsNext
  <2>3. WordsAfter(s2, i) = SubSeq(s2, i + 1, k - 1)
    BY <1>1, <2>2, InnerWords
  <2>4. WordsAfter(s, i) = SubSeq(s, i + 1, k - 1)
    BY <2>1, InnerWords
  <2> QED  BY <1>1, <2>2, <2>3, <2>4 DEF s2
<1> QED  BY <1>2, <1>3

(* A word belongs to the last group. *)
LEMMA OpenWords ==
    ASSUME NEW s \in Seq(Tokens), NEW t \in Tokens, NEW i \in 1..Len(s),
           IsLast(s, i), t \notin Dashed
    PROVE  WordsAfter(Append(s, t), i) = Append(WordsAfter(s, i), t)
<1> DEFINE s2 == Append(s, t)
           n == Len(s)
<1>1. /\ s2 \in Seq(Tokens) /\ n \in Nat /\ Len(s2) = n + 1 /\ s2[n + 1] = t
      /\ \A j \in 1..n : s2[j] = s[j]
  BY AppendFacts
<1>2. IsLast(s2, i) /\ i \in 1..Len(s2)
  BY <1>1 DEF IsLast
<1>3. WordsAfter(s2, i) = SubSeq(s2, i + 1, n + 1)
  BY <1>1, <1>2, LastWords
<1>4. WordsAfter(s, i) = SubSeq(s, i + 1, n)
  BY LastWords
<1>5. SubSeq(s2, i + 1, n + 1) = Append(SubSeq(s, i + 1, n), t)
  <2> DEFINE a == SubSeq(s2, i + 1, n + 1)
             b == SubSeq(s, i + 1, n)
  <2>1. PICK m \in Nat : n = i + m
    <3>1. i \in Nat /\ n - i \in Nat /\ n = i + (n - i)
      BY <1>1
    <3> QED  BY <3>1
  <2>2. i \in Nat /\ i >= 1
    BY <1>1
  <2>3. /\ a \in Seq(Tokens) /\ Len(a) = m + 1
        /\ \A j \in 1..m + 1 : a[j] = s2[i + j]
    BY <1>1, <2>1, <2>2
  <2>4. /\ b \in Seq(Tokens) /\ Len(b) = m
        /\ \A j \in 1..m : b[j] = s[i + j]
    BY <1>1, <2>1, <2>2
  <2> HIDE DEF a, b, s2, n
  <2>5. /\ Append(b, t) \in Seq(Tokens) /\ Len(Append(b, t)) = m + 1
        /\ \A j \in 1..m : Append(b, t)[j] = b[j]
        /\ Append(b, t)[m + 1] = t
    BY <2>4, AppendProperties
  <2>6. ASSUME NEW j \in 1..m + 1 PROVE a[j] = Append(b, t)[j]
    <3>1. a[j] = s2[i + j]
      BY <2>3
    <3>2. CASE j = m + 1
      BY <1>1, <2>1, <2>2, <2>5, <3>1, <3>2
    <3>3. CASE j \in 1..m
      <4>1. Append(b, t)[j] = s[i + j]
        BY <2>4, <2>5, <3>3
      <4>2. i + j \in 1..n
        BY <2>1, <2>2, <3>3
      <4> QED  BY <1>1, <3>1, <4>1, <4>2 DEF n
    <3>4. j = m + 1 \/ j \in 1..m
      BY <2>6
    <3> QED  BY <3>2, <3>3, <3>4, Zenon
  <2>7. a = Append(b, t)
    BY <2>3, <2>5, <2>6, SeqEqual
  <2> QED  BY <2>7 DEF a, b
<1> QED  BY <1>3, <1>4, <1>5

(* A new option has no words yet. *)
LEMMA NewWords ==
    ASSUME NEW s \in Seq(Tokens), NEW t \in Tokens
    PROVE  WordsAfter(Append(s, t), Len(s) + 1) = <<>>
<1> DEFINE s2 == Append(s, t)
           n == Len(s)
<1>1. s2 \in Seq(Tokens) /\ n \in Nat /\ Len(s2) = n + 1
  BY AppendFacts
<1>2. n + 1 \in 1..Len(s2) /\ IsLast(s2, n + 1)
  BY <1>1 DEF IsLast
<1>3. WordsAfter(s2, n + 1) = SubSeq(s2, (n + 1) + 1, n + 1)
  BY <1>1, <1>2, LastWords
<1>4. SubSeq(s2, (n + 1) + 1, n + 1) = <<>>
  BY <1>1
<1> QED  BY <1>3, <1>4

LEMMA WordsAt ==
    ASSUME NEW s, NoRepeats(s), NEW i \in 1..Len(s), s[i] \in Dashed
    PROVE  Has(s, s[i]) /\ WordsOf(s, s[i]) = WordsAfter(s, i)
<1>1. (CHOOSE j \in 1..Len(s) : s[j] = s[i]) = i
  BY DEF NoRepeats
<1>2. Has(s, s[i])
  BY DEF Has
<1> QED  BY <1>1, <1>2 DEF WordsOf

LEMMA GrammarByOption ==
    ASSUME NEW s
    PROVE  WellFormed(s) <=>
             /\ Starts(s) /\ NoRepeats(s)
             /\ \A option \in Dashed : Has(s, option) => GroupOk(option, WordsOf(s, option))
<1>1. WellFormed(s) => Starts(s) /\ NoRepeats(s)
  BY DEF WellFormed, Starts, NoRepeats
<1>2. ASSUME Starts(s), NoRepeats(s)
      PROVE  WellFormed(s) <=>
               \A option \in Dashed : Has(s, option) => GroupOk(option, WordsOf(s, option))
  <2>1. ASSUME WellFormed(s), NEW option \in Dashed, Has(s, option)
        PROVE  GroupOk(option, WordsOf(s, option))
    <3>1. PICK i \in 1..Len(s) : s[i] = option
      BY <2>1 DEF Has
    <3>2. GroupOk(s[i], WordsAfter(s, i))
      BY <2>1, <3>1 DEF WellFormed
    <3> QED  BY <1>2, <3>1, <3>2, WordsAt
  <2>2. ASSUME \A option \in Dashed : Has(s, option) => GroupOk(option, WordsOf(s, option)),
               NEW i \in 1..Len(s), s[i] \in Dashed
        PROVE  GroupOk(s[i], WordsAfter(s, i)) /\ \A j \in 1..Len(s) : s[j] = s[i] => j = i
    <3>1. Has(s, s[i]) /\ WordsOf(s, s[i]) = WordsAfter(s, i)
      BY <1>2, <2>2, WordsAt
    <3>2. GroupOk(s[i], WordsOf(s, s[i]))
      BY <2>2, <3>1
    <3> QED  BY <1>2, <2>2, <3>1, <3>2 DEF NoRepeats
  <2> QED  BY <1>2, <2>1, <2>2 DEF WellFormed, Starts
<1> QED  BY <1>1, <1>2

(* An option begins a group. *)
LEMMA OptionAdded ==
    ASSUME NEW s \in Seq(Tokens), Starts(s), NoRepeats(s), NEW t \in Dashed, ~Has(s, t)
    PROVE  LET s2 == Append(s, t) IN
           /\ Starts(s2) /\ NoRepeats(s2) /\ LastGroup(s2, t)
           /\ \A option : Has(s2, option) <=> Has(s, option) \/ option = t
           /\ WordsOf(s2, t) = <<>>
           /\ \A option \in Dashed \ {t} : WordsOf(s2, option) = WordsOf(s, option)
<1> DEFINE s2 == Append(s, t)
           n == Len(s)
<1>1. t \in Tokens
  BY DEF Tokens
<1>2. /\ s2 \in Seq(Tokens) /\ n \in Nat /\ Len(s2) = n + 1 /\ s2[n + 1] = t
      /\ \A j \in 1..n : s2[j] = s[j]
      /\ s2 # <<>> /\ (s = <<>> => n = 0) /\ (s # <<>> => 1 \in 1..n)
  BY <1>1, AppendFacts, AppendProperties
<1>3. \A i \in 1..n : WordsAfter(s2, i) = WordsAfter(s, i)
  BY <1>1, ClosedWords
<1>4. WordsAfter(s2, n + 1) = <<>>
  BY <1>1, NewWords
<1> HIDE DEF s2, n
<1>5. \A i \in 1..n : s[i] # t
  BY DEF Has, n
<1>6. \A i : i \in 1..Len(s2) <=> i \in 1..n \/ i = n + 1
  BY <1>2
<1>7. n + 1 \notin 1..n
  BY <1>2
<1>8. Starts(s2)
  BY <1>2 DEF Starts
<1>9. NoRepeats(s2)
  <2> SUFFICES ASSUME NEW i \in 1..Len(s2), NEW j \in 1..Len(s2), s2[i] \in Dashed,
                      s2[j] = s2[i]
               PROVE  j = i
    BY DEF NoRepeats
  <2>1. (i \in 1..n \/ i = n + 1) /\ (j \in 1..n \/ j = n + 1)
    BY <1>6
  <2> QED  BY <1>2, <1>5, <2>1 DEF NoRepeats, n
<1>10. LastGroup(s2, t)
  <2>1. n + 1 \in 1..Len(s2) /\ IsLast(s2, n + 1)
    BY <1>2 DEF IsLast
  <2> QED  BY <1>2, <2>1 DEF LastGroup
<1>11. \A option : Has(s2, option) <=> Has(s, option) \/ option = t
  BY <1>2, <1>6 DEF Has, n
<1>12. WordsOf(s2, t) = <<>>
  BY <1>2, <1>4, <1>6, <1>9, WordsAt
<1>13. ASSUME NEW option \in Dashed \ {t} PROVE WordsOf(s2, option) = WordsOf(s, option)
  <2>1. CASE Has(s, option)
    <3>1. PICK i \in 1..n : s[i] = option
      BY <2>1 DEF Has, n
    <3>2. WordsOf(s, option) = WordsAfter(s, i)
      BY <3>1, WordsAt DEF n
    <3>3. i \in 1..Len(s2) /\ s2[i] = option
      BY <1>2, <1>6, <3>1
    <3>4. WordsOf(s2, option) = WordsAfter(s2, i)
      BY <1>9, <3>3, WordsAt
    <3> QED  BY <1>3, <3>2, <3>4
  <2>2. CASE ~Has(s, option)
    BY <1>11, <2>2 DEF WordsOf
  <2> QED  BY <2>1, <2>2
<1> QED  BY <1>8, <1>9, <1>10, <1>11, <1>12, <1>13 DEF s2

(* A word belongs to the last group. *)
LEMMA WordAdded ==
    ASSUME NEW s \in Seq(Tokens), Starts(s), NoRepeats(s), NEW t \in Tokens \ Dashed,
           NEW last \in Dashed, LastGroup(s, last)
    PROVE  LET s2 == Append(s, t) IN
           /\ Starts(s2) /\ NoRepeats(s2) /\ LastGroup(s2, last)
           /\ \A option \in Dashed : Has(s2, option) <=> Has(s, option)
           /\ WordsOf(s2, last) = Append(WordsOf(s, last), t)
           /\ \A option \in Dashed \ {last} : WordsOf(s2, option) = WordsOf(s, option)
<1> DEFINE s2 == Append(s, t)
           n == Len(s)
<1>1. PICK k \in 1..n : s[k] = last /\ IsLast(s, k)
  BY DEF LastGroup
<1>2. /\ s2 \in Seq(Tokens) /\ n \in Nat /\ Len(s2) = n + 1 /\ s2[n + 1] = t
      /\ \A j \in 1..n : s2[j] = s[j]
  BY AppendFacts
<1>3. s2 # <<>> /\ s # <<>> /\ 1 \in 1..n
  BY <1>1, <1>2, AppendProperties
<1>4. WordsAfter(s2, k) = Append(WordsAfter(s, k), t)
  BY <1>1, OpenWords
<1>5. ASSUME NEW i \in 1..n, s[i] \in Dashed, i # k
      PROVE  WordsAfter(s2, i) = WordsAfter(s, i)
  <2>1. ~IsLast(s, i)
    <3>1. i < k
      BY <1>1, <1>2, <1>5 DEF IsLast
    <3> QED  BY <1>1, <1>2, <3>1 DEF IsLast
  <2> QED  BY <2>1, ClosedWords
<1> HIDE DEF s2, n
<1>6. \A i : i \in 1..Len(s2) <=> i \in 1..n \/ i = n + 1
  BY <1>2
<1>7. \A i \in 1..Len(s2) : s2[i] \in Dashed => i \in 1..n
  BY <1>2, <1>6
<1>8. Starts(s2)
  BY <1>2, <1>3 DEF Starts
<1>9. NoRepeats(s2)
  BY <1>2, <1>7 DEF NoRepeats, n
<1>10. LastGroup(s2, last)
  <2>1. k \in 1..Len(s2) /\ s2[k] = last
    BY <1>1, <1>2, <1>6
  <2>2. IsLast(s2, k)
    <3> SUFFICES ASSUME NEW j \in k + 1..Len(s2) PROVE s2[j] \notin Dashed
      BY DEF IsLast
    <3>1. j \in k + 1..n \/ j = n + 1
      BY <1>1, <1>2
    <3>2. j \in k + 1..n => s2[j] = s[j]
      BY <1>1, <1>2
    <3> QED  BY <1>1, <1>2, <3>1, <3>2 DEF IsLast, n
  <2> QED  BY <2>1, <2>2 DEF LastGroup
<1>11. \A option \in Dashed : Has(s2, option) <=> Has(s, option)
  BY <1>2, <1>6, <1>7 DEF Has, n
<1>12. ASSUME NEW i \in 1..n, s[i] \in Dashed
       PROVE  /\ WordsOf(s, s[i]) = WordsAfter(s, i)
              /\ WordsOf(s2, s[i]) = WordsAfter(s2, i)
  <2>1. WordsOf(s, s[i]) = WordsAfter(s, i)
    BY <1>12, WordsAt DEF n
  <2>2. i \in 1..Len(s2) /\ s2[i] = s[i]
    BY <1>2, <1>6
  <2>3. WordsOf(s2, s2[i]) = WordsAfter(s2, i)
    BY <1>9, <1>12, <2>2, WordsAt
  <2> QED  BY <2>1, <2>2, <2>3
<1>13. WordsOf(s2, last) = Append(WordsOf(s, last), t)
  BY <1>1, <1>4, <1>12
<1>14. ASSUME NEW option \in Dashed \ {last} PROVE WordsOf(s2, option) = WordsOf(s, option)
  <2>1. CASE Has(s, option)
    <3>1. PICK i \in 1..n : s[i] = option
      BY <2>1 DEF Has, n
    <3> QED  BY <1>1, <1>5, <1>12, <3>1
  <2>2. CASE ~Has(s, option)
    BY <1>11, <2>2 DEF WordsOf
  <2> QED  BY <2>1, <2>2
<1> QED  BY <1>8, <1>9, <1>10, <1>11, <1>13, <1>14 DEF s2

LEMMA TokenKinds ==
    /\ Words \cap Dashed = {} /\ Options \subseteq Dashed
    /\ "-h" \in Dashed \ Options /\ "-?" \in Dashed \ Options /\ "-h" # "-?"
    /\ Options \cup Words \subseteq Tokens /\ Tokens = Options \cup {"-h", "-?"} \cup Words
    /\ Seq(Options \cup Words) \subseteq Seq(Tokens)
<1>1. \A w \in {"2", "4", "8"} : w \notin Dashed
  BY DEF Dashed, Options
<1>2. Options \cup Words \subseteq Tokens
  BY DEF Tokens, Dashed
<1> QED  BY <1>1, <1>2, CliAssumption DEF Words, Options, Dashed, Tokens

LEMMA LastHas ==
    ASSUME NEW s, NEW option, LastGroup(s, option)
    PROVE  Has(s, option)
  BY DEF LastGroup, Has

(* The line read so far is one of the grammar when no value is missing.    *)
LEMMA ReadSoFar ==
    ASSUME Reading
    PROVE  /\ WellFormed(args) <=> MayEnd
           /\ \A i \in 1..Len(args) : args[i] # "-h"
<1>1. \A option \in Dashed : Has(args, option) => option \in seen
  <2>1. \A i \in 1..Len(args) : args[i] \in Options \cup Words
    BY DEF Reading
  <2> QED  BY <2>1, TokenKinds DEF Reading, Has
<1>2. \A i \in 1..Len(args) : args[i] # "-h"
  BY TokenKinds DEF Reading
<1>3. \A option \in seen : option \in Dashed /\ Has(args, option)
  BY TokenKinds DEF Reading
<1>4. WellFormed(args) <=> \A option \in seen : GroupOk(option, WordsOf(args, option))
  BY <1>1, <1>3, GrammarByOption DEF Reading
<1>5. CASE serving = "none"
  BY <1>2, <1>4, <1>5 DEF Reading, MayEnd, ListEmpty, Options
<1>6. CASE serving \in {"-m", "-p"}
  <2>1. serving \in seen /\ WordsOf(args, serving) = <<>>
    BY <1>6, LastHas DEF Reading, Options
  <2>2. ~GroupOk(serving, <<>>)
    BY <1>6 DEF GroupOk
  <2> QED  BY <1>2, <1>4, <1>6, <2>1, <2>2 DEF MayEnd
<1>7. CASE serving \in {"-g", "-f"}
  <2>1. serving \in seen
    BY <1>7, LastHas DEF Reading, Options
  <2>2. GroupOk(serving, WordsOf(args, serving)) <=> ~ListEmpty
    BY <1>7 DEF GroupOk, ListEmpty, Reading
  <2> QED  BY <1>2, <1>4, <1>7, <2>1, <2>2 DEF MayEnd, Reading
<1> QED  BY <1>2, <1>5, <1>6, <1>7 DEF Reading, Options

(* The values of the options of a complete line. *)
LEMMA MeaningRead ==
    ASSUME Reading, MayEnd, Required \subseteq seen
    PROVE  config = Meaning(args)
<1>1. "-m" \in seen \ {serving} /\ "-p" \in seen \ {serving}
  BY DEF Required, MayEnd
<1>2. /\ WordsOf(args, "-m")[1] \in {"2", "4", "8"} /\ WordsOf(args, "-p")[1] \in {"2", "4"}
  <2>1. GroupOk("-m", WordsOf(args, "-m")) /\ GroupOk("-p", WordsOf(args, "-p"))
    BY <1>1 DEF Reading
  <2> QED  BY <2>1 DEF GroupOk
<1>3. /\ config.memorySize = MemoryValue[WordsOf(args, "-m")[1]]
      /\ config.pageSize = PageValue[WordsOf(args, "-p")[1]]
      /\ config.guestImages = WordsOf(args, "-g") /\ config.sharedFiles = WordsOf(args, "-f")
      /\ config \in [memorySize : Nat, pageSize : Nat,
                     guestImages : Seq(Words), sharedFiles : Seq(Words)]
  BY <1>1 DEF Reading
<1> DEFINE m == CASE WordsOf(args, "-m")[1] = "2" -> 2097152
                  [] WordsOf(args, "-m")[1] = "4" -> 4194304
                  [] WordsOf(args, "-m")[1] = "8" -> 8388608
           p == IF WordsOf(args, "-p")[1] = "4" THEN 4096 ELSE 2097152
<1>4. config.memorySize = m
  <2>1. \A w \in {"2", "4", "8"} : MemoryValue[w] = CASE w = "2" -> 2097152
                                                     [] w = "4" -> 4194304
                                                     [] w = "8" -> 8388608
    BY SMT DEF MemoryValue, MiB, KiB
  <2> QED  BY <1>2, <1>3, <2>1, SMT
<1>5. config.pageSize = p
  <2>1. \A w \in {"2", "4"} : PageValue[w] = IF w = "4" THEN 4096 ELSE 2097152
    BY SMT DEF PageValue, MiB, KiB
  <2> QED  BY <1>2, <1>3, <2>1, SMT
<1>6. Meaning(args) = [memorySize |-> m, pageSize |-> p, guestImages |-> WordsOf(args, "-g"),
                       sharedFiles |-> WordsOf(args, "-f")]
  BY SMT DEF Meaning
<1> HIDE DEF m, p
<1> QED  BY <1>3, <1>4, <1>5, <1>6

LEMMA EndMatches ==
    ASSUME Reading, EndOfArguments
    PROVE  Line'
<1>1. serving' = "done" /\ args' = args /\ config' = config
  BY DEF EndOfArguments, Return
<1>2. status' = IF MayEnd /\ Required \subseteq seen THEN "Ok" ELSE "Error"
  BY DEF EndOfArguments, Return, MayEnd
<1>3. Required \subseteq seen <=> \A option \in Required : Has(args, option)
  BY DEF Reading, Required, Options
<1>4. MayEnd /\ Required \subseteq seen => config = Meaning(args)
  BY MeaningRead
<1>5. ParseMatchesGrammar'
  BY <1>1, <1>2, <1>3, <1>4, ReadSoFar DEF ParseMatchesGrammar
<1> QED  BY <1>1, <1>5 DEF Line

(* An argument that ends the parse with Help or Error: the line is none of *)
(* the grammar, and Help is the answer when it is asked for in time.       *)
LEMMA StopMatches ==
    ASSUME Reading, NEW t \in Tokens, args' = Append(args, t), serving' = "done",
           ~WellFormed(Append(args, t)),
           status' = IF t = "-h" /\ MayEnd THEN "Help" ELSE "Error"
    PROVE  Line'
<1> DEFINE s == Append(args, t)
           n == Len(args)
<1>1. args \in Seq(Tokens)
  BY TokenKinds DEF Reading
<1>2. /\ n \in Nat /\ Len(s) = n + 1 /\ s[n + 1] = t /\ \A i \in 1..n : s[i] = args[i]
      /\ SubSeq(s, 1, (n + 1) - 1) = args
  <2>1. /\ n \in Nat /\ Len(s) = n + 1 /\ s[n + 1] = t /\ \A i \in 1..n : s[i] = args[i]
        /\ \A a, b \in 1..n + 1 : SubSeq(s, a, b - 1) = SubSeq(args, a, b - 1)
    BY <1>1, AppendFacts
  <2>2. SubSeq(s, 1, (n + 1) - 1) = SubSeq(args, 1, (n + 1) - 1)
    BY <2>1
  <2>3. SubSeq(args, 1, (n + 1) - 1) = args
    BY <1>1
  <2> QED  BY <2>1, <2>2, <2>3
<1> HIDE DEF s, n
<1>3. (\E i \in 1..Len(s) : s[i] = "-h" /\ WellFormed(SubSeq(s, 1, i - 1)))
        <=> t = "-h" /\ MayEnd
  <2>1. \A i \in 1..Len(s) : s[i] = "-h" => i = n + 1
    BY <1>2, ReadSoFar DEF n
  <2>2. n + 1 \in 1..Len(s)
    BY <1>2
  <2> QED  BY <1>2, <2>1, <2>2, ReadSoFar
<1>4. args' = s
  BY DEF s
<1>5. (\E i \in 1..Len(args) : args[i] = "-h" /\ WellFormed(ArgsBefore(i)))'
        <=> t = "-h" /\ MayEnd
  BY <1>3, <1>4 DEF ArgsBefore
<1>6. ~WellFormed(args')
  BY <1>4 DEF s
<1> QED  BY <1>5, <1>6 DEF Line, ParseMatchesGrammar

(* Arguments that no line of the grammar has at that place.                *)
LEMMA NoOption ==
    ASSUME NEW s \in Seq(Tokens), NEW t \in Dashed, t \notin Options \/ Has(s, t)
    PROVE  ~WellFormed(Append(s, t))
<1>1. t \in Tokens
  BY DEF Tokens
<1>2. /\ Len(s) \in Nat /\ Len(Append(s, t)) = Len(s) + 1 /\ Append(s, t)[Len(s) + 1] = t
      /\ \A i \in 1..Len(s) : Append(s, t)[i] = s[i]
  BY <1>1, AppendFacts
<1>3. Len(s) + 1 \in 1..Len(Append(s, t))
  BY <1>2
<1>4. ASSUME WellFormed(Append(s, t)) PROVE FALSE
  <2>1. GroupOk(t, WordsAfter(Append(s, t), Len(s) + 1))
    BY <1>2, <1>3, <1>4 DEF WellFormed
  <2>2. t \in Options
    BY <2>1 DEF GroupOk, Options
  <2>3. PICK i \in 1..Len(s) : s[i] = t
    BY <2>2 DEF Has
  <2>4. i \in 1..Len(Append(s, t)) /\ Append(s, t)[i] = t /\ i # Len(s) + 1
    BY <1>2, <2>3
  <2> QED  BY <1>2, <1>3, <1>4, <2>4 DEF WellFormed
<1> QED  BY <1>4

LEMMA WordsTyped ==
    ASSUME NEW s \in Seq(Tokens), NEW i \in 1..Len(s)
    PROVE  WordsAfter(s, i) \in Seq(Tokens)
<1>1. CASE IsLast(s, i)
  <2>1. SubSeq(s, i + 1, Len(s)) \in Seq(Tokens)
    OBVIOUS
  <2> QED  BY <1>1, <2>1, LastWords
<1>2. CASE ~IsLast(s, i)
  <2>1. PICK k : IsNext(s, i, k)
    BY <1>2, LastOrNot
  <2>2. SubSeq(s, i + 1, k - 1) \in Seq(Tokens)
    BY <2>1 DEF IsNext
  <2> QED  BY <2>1, <2>2, InnerWords
<1> QED  BY <1>1, <1>2

LEMMA NoWord ==
    ASSUME Reading, serving = "none", NEW t \in Words
    PROVE  ~WellFormed(Append(args, t))
<1>1. args \in Seq(Tokens) /\ t \in Tokens \ Dashed /\ Starts(args) /\ NoRepeats(args)
  BY TokenKinds DEF Reading
<1>2. CASE args = <<>>
  <2>1. Append(args, t) # <<>> /\ Append(args, t)[1] = t
    BY <1>1, <1>2
  <2> QED  BY <1>1, <2>1 DEF WellFormed
<1>3. ASSUME NEW option \in {"-m", "-p"}, LastGroup(args, option)
      PROVE  ~WellFormed(Append(args, t))
  <2>1. option \in Dashed /\ Has(args, option) /\ option \in seen \ {serving}
    BY <1>3, LastHas DEF Reading, Options, Dashed
  <2>2. GroupOk(option, WordsOf(args, option))
    BY <2>1 DEF Reading
  <2>3. /\ Has(Append(args, t), option)
        /\ WordsOf(Append(args, t), option) = Append(WordsOf(args, option), t)
    BY <1>1, <1>3, <2>1, WordAdded
  <2>4. Len(WordsOf(args, option)) = 1
    BY <1>3, <2>2 DEF GroupOk
  <2>5. Len(Append(WordsOf(args, option), t)) = 2
    <3>1. PICK i \in 1..Len(args) : args[i] = option
      BY <2>1 DEF Has
    <3>2. WordsOf(args, option) = WordsAfter(args, i)
      BY <1>1, <2>1, <3>1, WordsAt
    <3>3. WordsAfter(args, i) \in Seq(Tokens)
      BY <1>1, WordsTyped
    <3>4. WordsOf(args, option) \in Seq(Tokens) /\ t \in Tokens
      BY <1>1, <3>2, <3>3
    <3>5. Len(Append(WordsOf(args, option), t)) = Len(WordsOf(args, option)) + 1
      BY <3>4, AppendProperties
    <3> QED  BY <2>4, <3>5
  <2>6. ~GroupOk(option, Append(WordsOf(args, option), t))
    BY <1>3, <2>5 DEF GroupOk
  <2> QED  BY <2>1, <2>3, <2>6, GrammarByOption
<1> QED  BY <1>2, <1>3 DEF Reading

(* The next option, or the end. *)
LEMMA OptionRead ==
    ASSUME Reading, MayEnd, NEW t \in Tokens, args' = Append(args, t), TakeOption(t),
           serving = "none" \/ t \in Dashed
    PROVE  Line'
<1>1. args \in Seq(Tokens) /\ Starts(args) /\ NoRepeats(args)
  BY TokenKinds DEF Reading
<1>2. CASE t = "-h" /\ Return("Help")
  <2>1. ~WellFormed(Append(args, t))
    BY <1>1, <1>2, NoOption, TokenKinds
  <2> QED  BY <1>2, <2>1, StopMatches DEF Return
<1>3. CASE t # "-h" /\ ~MayServe(t) /\ Return("Error")
  <2>1. ~WellFormed(Append(args, t))
    <3>1. CASE t \in Dashed
      <4>1. t \notin Options \/ Has(args, t)
        BY <1>3 DEF MayServe, Reading
      <4> QED  BY <1>1, <3>1, <4>1, NoOption
    <3>2. CASE t \notin Dashed
      <4>1. t \in Words /\ serving = "none"
        BY <3>2 DEF Tokens
      <4> QED  BY <4>1, NoWord
    <3> QED  BY <3>1, <3>2
  <2> QED  BY <1>3, <2>1, StopMatches DEF Return
<1>4. CASE /\ MayServe(t) /\ serving' = t /\ seen' = seen \cup {t}
           /\ UNCHANGED <<config, status>>
  <2>1. t \in Options /\ t \in Dashed /\ ~Has(args, t) /\ t \notin seen
    BY <1>4, TokenKinds DEF MayServe, Reading
  <2>2. /\ Starts(args') /\ NoRepeats(args') /\ LastGroup(args', t)
        /\ \A option : Has(args', option) <=> Has(args, option) \/ option = t
        /\ WordsOf(args', t) = <<>>
        /\ \A option \in Dashed \ {t} : WordsOf(args', option) = WordsOf(args, option)
    BY <1>1, <2>1, OptionAdded
  <2>3. args' \in Seq(Options \cup Words)
    BY <2>1, AppendProperties DEF Reading
  <2>4. seen' = {option \in Options : Has(args', option)}
    BY <1>4, <2>1, <2>2 DEF Reading
  <2>5. ASSUME NEW option \in seen' \ {serving'}
        PROVE  /\ option \in seen /\ GroupOk(option, WordsOf(args, option))
               /\ WordsOf(args', option) = WordsOf(args, option)
    <3>1. option \in seen /\ option # t /\ option \in Dashed /\ Has(args, option)
      BY <1>4, <2>1, <2>5, TokenKinds DEF Reading
    <3>2. WellFormed(args)
      BY ReadSoFar
    <3> QED  BY <2>2, <3>1, <3>2, GrammarByOption
  <2>6. \A option \in seen' \ {serving'} : GroupOk(option, WordsOf(args', option))
    BY <2>5
  <2>7. /\ "-g" \in Dashed /\ "-f" \in Dashed
        /\ ~Has(args, t) => WordsOf(args, t) = <<>>
    BY DEF Dashed, Options, WordsOf
  <2>8. /\ config'.guestImages = WordsOf(args', "-g")
        /\ config'.sharedFiles = WordsOf(args', "-f")
    BY <1>4, <2>1, <2>2, <2>7 DEF Reading
  <2>9. /\ "-m" \in seen' \ {serving'} =>
             config'.memorySize = MemoryValue[WordsOf(args', "-m")[1]]
        /\ "-p" \in seen' \ {serving'} =>
             config'.pageSize = PageValue[WordsOf(args', "-p")[1]]
    BY <1>4, <2>5 DEF Reading, MayEnd
  <2>10. Reading'
    <3>1. serving' \in Options /\ serving' # "none"
      BY <1>4, <2>1 DEF Options
    <3>2. /\ config' \in [memorySize : Nat, pageSize : Nat,
                          guestImages : Seq(Words), sharedFiles : Seq(Words)]
          /\ LastGroup(args', serving') /\ WordsOf(args', serving') = <<>>
      BY <1>4, <2>2 DEF Reading
    <3> QED  BY <2>2, <2>3, <2>4, <2>6, <2>8, <2>9, <3>1, <3>2 DEF Reading
  <2>11. ParseMatchesGrammar'
    BY <1>4, <2>1 DEF ParseMatchesGrammar, Options
  <2> QED  BY <2>10, <2>11 DEF Line
<1> QED  BY <1>2, <1>3, <1>4 DEF TakeOption

(* The value of -m or -p. *)
LEMMA ValueRead ==
    ASSUME Reading, NEW t \in Tokens, args' = Append(args, t), TakeValue(t),
           serving \in {"-m", "-p"}
    PROVE  Line'
<1> DEFINE Good == \/ serving = "-m" /\ t \in DOMAIN MemoryValue
                   \/ serving = "-p" /\ t \in DOMAIN PageValue
<1>1. args \in Seq(Tokens) /\ Starts(args) /\ NoRepeats(args)
  BY TokenKinds DEF Reading
<1>2. /\ LastGroup(args, serving) /\ WordsOf(args, serving) = <<>>
      /\ serving \in Options /\ serving \in Dashed /\ Has(args, serving) /\ serving \in seen
  BY LastHas DEF Reading, Options, Dashed
<1>3. /\ DOMAIN MemoryValue = {"2", "4", "8"} /\ DOMAIN PageValue = {"2", "4"}
      /\ DOMAIN MemoryValue \subseteq Words \ Dashed /\ DOMAIN PageValue \subseteq Words \ Dashed
  BY TokenKinds DEF MemoryValue, PageValue, Words
<1>4. ASSUME t \notin Dashed
      PROVE  /\ Starts(args') /\ NoRepeats(args') /\ LastGroup(args', serving)
             /\ \A option \in Dashed : Has(args', option) <=> Has(args, option)
             /\ WordsOf(args', serving) = <<t>>
             /\ \A option \in Dashed \ {serving} :
                    WordsOf(args', option) = WordsOf(args, option)
  <2>1. Append(<<>>, t) = <<t>>
    OBVIOUS
  <2>2. t \in Tokens \ Dashed /\ WordsOf(args, serving) = <<>>
    BY <1>2, <1>4
  <2>3. WordsOf(args', serving) = Append(WordsOf(args, serving), t)
    BY <1>1, <1>2, <2>2, WordAdded
  <2>4. /\ Starts(args') /\ NoRepeats(args') /\ LastGroup(args', serving)
        /\ \A option \in Dashed : Has(args', option) <=> Has(args, option)
        /\ \A option \in Dashed \ {serving} : WordsOf(args', option) = WordsOf(args, option)
    BY <1>1, <1>2, <2>2, WordAdded
  <2> QED  BY <2>1, <2>2, <2>3, <2>4
<1>5. CASE Good
  <2>1. t \in Words \ Dashed
    BY <1>3, <1>5
  <2>2. args' \in Seq(Options \cup Words)
    BY <2>1, AppendProperties DEF Reading
  <2>3. /\ serving' = "none" /\ UNCHANGED <<seen, status>>
        /\ config' = IF serving = "-m"
                     THEN [config EXCEPT !.memorySize = MemoryValue[t]]
                     ELSE [config EXCEPT !.pageSize = PageValue[t]]
    BY <1>5 DEF TakeValue, Return
  <2>4. seen' = {option \in Options : Has(args', option)}
    BY <1>4, <2>1, <2>3, TokenKinds DEF Reading
  <2>5. GroupOk(serving, <<t>>)
    BY <1>3, <1>5 DEF GroupOk
  <2>6. \A option \in seen' \ {serving'} : GroupOk(option, WordsOf(args', option))
    BY <1>4, <2>1, <2>3, <2>5, TokenKinds DEF Reading
  <2>7. /\ config' \in [memorySize : Nat, pageSize : Nat,
                        guestImages : Seq(Words), sharedFiles : Seq(Words)]
        /\ config'.guestImages = config.guestImages
        /\ config'.sharedFiles = config.sharedFiles
        /\ serving = "-m" => config'.memorySize = MemoryValue[t]
        /\ serving = "-m" => config'.pageSize = config.pageSize
        /\ serving = "-p" => config'.pageSize = PageValue[t]
        /\ serving = "-p" => config'.memorySize = config.memorySize
    <3>1. serving = "-m" => MemoryValue[t] \in Nat
      BY <1>3, <1>5, SMT DEF MemoryValue, MiB, KiB
    <3>2. serving = "-p" => PageValue[t] \in Nat
      BY <1>3, <1>5, SMT DEF PageValue, MiB, KiB
    <3> QED  BY <2>3, <3>1, <3>2 DEF Reading
  <2>8. /\ config'.guestImages = WordsOf(args', "-g")
        /\ config'.sharedFiles = WordsOf(args', "-f")
    <3>1. "-g" \in Dashed \ {serving} /\ "-f" \in Dashed \ {serving}
      BY DEF Dashed, Options
    <3> QED  BY <1>4, <2>1, <2>7, <3>1 DEF Reading
  <2>9. /\ "-m" \in seen' => config'.memorySize = MemoryValue[WordsOf(args', "-m")[1]]
        /\ "-p" \in seen' => config'.pageSize = PageValue[WordsOf(args', "-p")[1]]
    <3>1. "-m" \in Dashed /\ "-p" \in Dashed /\ <<t>>[1] = t
      BY DEF Dashed, Options
    <3>2. CASE serving = "-m"
      <4>1. WordsOf(args', "-m")[1] = t /\ WordsOf(args', "-p") = WordsOf(args, "-p")
        BY <1>4, <2>1, <3>1, <3>2
      <4> QED  BY <2>3, <2>7, <3>2, <4>1 DEF Reading
    <3>3. CASE serving = "-p"
      <4>1. WordsOf(args', "-p")[1] = t /\ WordsOf(args', "-m") = WordsOf(args, "-m")
        BY <1>4, <2>1, <3>1, <3>3
      <4> QED  BY <2>3, <2>7, <3>3, <4>1 DEF Reading
    <3> QED  BY <3>2, <3>3
  <2>10. LastGroup(args', "-m") \/ LastGroup(args', "-p")
    BY <1>4, <2>1
  <2>11. Reading'
    <3>1. serving' \notin Options
      BY <2>3 DEF Options
    <3> QED  BY <1>4, <2>1, <2>2, <2>3, <2>4, <2>6, <2>7, <2>8, <2>9, <2>10, <3>1 DEF Reading
  <2> QED  BY <2>3, <2>11 DEF Line, ParseMatchesGrammar
<1>6. CASE ~Good /\ Return("Error")
  <2>1. ~WellFormed(Append(args, t))
    <3>1. CASE t \in Dashed
      <4>1. t \notin Options \/ Has(args, t) \/ ~Has(args, t)
        OBVIOUS
      <4>2. CASE t \notin Options \/ Has(args, t)
        BY <1>1, <3>1, <4>2, NoOption
      <4>3. CASE ~Has(args, t)
        <5>1. /\ Has(args', serving) /\ WordsOf(args', serving) = <<>>
          BY <1>1, <1>2, <3>1, <4>3, OptionAdded
        <5>2. ~GroupOk(serving, <<>>)
          BY DEF GroupOk
        <5> QED  BY <1>2, <5>1, <5>2, GrammarByOption
      <4> QED  BY <4>1, <4>2, <4>3
    <3>2. CASE t \notin Dashed
      <4>1. Has(args', serving) /\ WordsOf(args', serving) = <<t>>
        BY <1>2, <1>4, <3>2
      <4>2. ~GroupOk(serving, <<t>>)
        BY <1>3, <1>6 DEF GroupOk
      <4> QED  BY <1>2, <4>1, <4>2, GrammarByOption
    <3> QED  BY <3>1, <3>2
  <2> QED  BY <1>6, <2>1, StopMatches DEF Return, MayEnd
<1> QED  BY <1>3, <1>5, <1>6 DEF TakeValue

(* An argument of -g or -f. *)
LEMMA PathRead ==
    ASSUME Reading, NEW t \in Tokens, args' = Append(args, t), TakePath(t),
           serving \in {"-g", "-f"}
    PROVE  Line'
<1>1. args \in Seq(Tokens) /\ Starts(args) /\ NoRepeats(args)
  BY TokenKinds DEF Reading
<1>2. /\ LastGroup(args, serving)
      /\ serving \in Options /\ serving \in Dashed /\ Has(args, serving) /\ serving \in seen
  BY LastHas DEF Reading, Options, Dashed
<1>3. CASE t \in Words /\ UNCHANGED <<serving, seen, status>>
           /\ config' = IF serving = "-g"
                        THEN [config EXCEPT !.guestImages = Append(@, t)]
                        ELSE [config EXCEPT !.sharedFiles = Append(@, t)]
  <2>1. /\ Starts(args') /\ NoRepeats(args') /\ LastGroup(args', serving)
        /\ \A option \in Dashed : Has(args', option) <=> Has(args, option)
        /\ WordsOf(args', serving) = Append(WordsOf(args, serving), t)
        /\ \A option \in Dashed \ {serving} : WordsOf(args', option) = WordsOf(args, option)
    BY <1>1, <1>2, <1>3, WordAdded, TokenKinds
  <2>2. args' \in Seq(Options \cup Words)
    BY <1>3, AppendProperties DEF Reading
  <2>3. seen' = {option \in Options : Has(args', option)}
    BY <1>3, <2>1, TokenKinds DEF Reading
  <2>4. \A option \in seen' \ {serving'} :
            /\ WordsOf(args', option) = WordsOf(args, option)
            /\ GroupOk(option, WordsOf(args', option))
    BY <1>3, <2>1, TokenKinds DEF Reading
  <2>5. /\ config' \in [memorySize : Nat, pageSize : Nat,
                        guestImages : Seq(Words), sharedFiles : Seq(Words)]
        /\ config'.memorySize = config.memorySize /\ config'.pageSize = config.pageSize
        /\ serving = "-g" => config'.guestImages = Append(config.guestImages, t)
        /\ serving = "-g" => config'.sharedFiles = config.sharedFiles
        /\ serving = "-f" => config'.sharedFiles = Append(config.sharedFiles, t)
        /\ serving = "-f" => config'.guestImages = config.guestImages
    <3>1. /\ Append(config.guestImages, t) \in Seq(Words)
          /\ Append(config.sharedFiles, t) \in Seq(Words)
      BY <1>3, AppendProperties DEF Reading
    <3> QED  BY <1>3, <3>1 DEF Reading
  <2>6. /\ config'.guestImages = WordsOf(args', "-g")
        /\ config'.sharedFiles = WordsOf(args', "-f")
    <3>1. "-g" \in Dashed /\ "-f" \in Dashed
      BY DEF Dashed, Options
    <3> QED  BY <2>1, <2>5, <3>1 DEF Reading
  <2>7. /\ "-m" \in seen' \ {serving'} =>
             config'.memorySize = MemoryValue[WordsOf(args', "-m")[1]]
        /\ "-p" \in seen' \ {serving'} =>
             config'.pageSize = PageValue[WordsOf(args', "-p")[1]]
    BY <1>3, <2>4, <2>5 DEF Reading
  <2>8. Reading'
    BY <1>2, <1>3, <2>1, <2>2, <2>3, <2>4, <2>5, <2>6, <2>7 DEF Reading
  <2> QED  BY <1>3, <2>8 DEF Line, ParseMatchesGrammar
<1>4. CASE t \in Dashed /\ ListEmpty /\ Return("Error")
  <2>1. ~WellFormed(Append(args, t))
    <3>1. CASE t \notin Options \/ Has(args, t)
      BY <1>1, <1>4, <3>1, NoOption
    <3>2. CASE ~Has(args, t)
      <4>1. WordsOf(args, serving) = <<>>
        BY <1>4 DEF ListEmpty, Reading
      <4>2. Has(args', serving) /\ WordsOf(args', serving) = <<>>
        BY <1>1, <1>2, <1>4, <3>2, <4>1, OptionAdded
      <4>3. ~GroupOk(serving, <<>>)
        BY DEF GroupOk
      <4> QED  BY <1>2, <4>2, <4>3, GrammarByOption
    <3> QED  BY <3>1, <3>2
  <2> QED  BY <1>4, <2>1, StopMatches DEF Return, MayEnd
<1>5. CASE t \in Dashed /\ ~ListEmpty /\ TakeOption(t)
  BY <1>5, OptionRead DEF MayEnd
<1> QED  BY <1>3, <1>4, <1>5 DEF TakePath

LEMMA ArgumentRead ==
    ASSUME Line, ReadArgument \/ EndOfArguments
    PROVE  Line'
<1>1. Reading
  BY DEF Line, ReadArgument, EndOfArguments
<1>2. CASE EndOfArguments
  BY <1>1, <1>2, EndMatches
<1>3. CASE ReadArgument
  <2>1. PICK t \in Tokens :
            /\ args' = Append(args, t)
            /\ CASE serving = "none" -> TakeOption(t)
                 [] serving \in {"-m", "-p"} -> TakeValue(t)
                 [] serving \in {"-g", "-f"} -> TakePath(t)
    BY <1>3 DEF ReadArgument
  <2>2. CASE serving = "none"
    <3>1. TakeOption(t) /\ MayEnd
      BY <2>1, <2>2 DEF MayEnd, ListEmpty
    <3> QED  BY <1>1, <2>1, <2>2, <3>1, OptionRead
  <2>3. CASE serving \in {"-m", "-p"}
    <3>1. TakeValue(t)
      BY <2>1, <2>3
    <3> QED  BY <1>1, <2>1, <2>3, <3>1, ValueRead
  <2>4. CASE serving \in {"-g", "-f"}
    <3>1. TakePath(t)
      BY <2>1, <2>4
    <3> QED  BY <1>1, <2>1, <2>4, <3>1, PathRead
  <2> QED  BY <1>1, <2>2, <2>3, <2>4 DEF Reading, Options
<1> QED  BY <1>2, <1>3

(* No argument has been looked at. *)
LEMMA NothingRead ==
    /\ CliInit => Line
    /\ args' = <<>> /\ serving' = "none" /\ seen' = {} /\ config' = NoConfig => Line'
<1>1. /\ Starts(<<>>) /\ NoRepeats(<<>>) /\ <<>> \in Seq(Options \cup Words)
      /\ \A option : ~Has(<<>>, option) /\ WordsOf(<<>>, option) = <<>>
  BY DEF Starts, NoRepeats, Has, WordsOf
<1>2. /\ NoConfig \in [memorySize : Nat, pageSize : Nat,
                       guestImages : Seq(Words), sharedFiles : Seq(Words)]
      /\ NoConfig.guestImages = <<>> /\ NoConfig.sharedFiles = <<>>
  <2>1. <<>> \in Seq(Words)
    OBVIOUS
  <2> QED  BY <2>1 DEF NoConfig
<1>3. ASSUME CliInit PROVE Line
  BY <1>1, <1>2, <1>3 DEF CliInit, Line, Reading, ParseMatchesGrammar, Options
<1>4. ASSUME args' = <<>>, serving' = "none", seen' = {}, config' = NoConfig PROVE Line'
  BY <1>1, <1>2, <1>4 DEF Line, Reading, ParseMatchesGrammar, Options
<1> QED  BY <1>3, <1>4

(* main forgets the command line, or keeps it as parseArguments left it. *)
LEMMA LineNext ==
    ASSUME Line, [Next]_vars
    PROVE  Line'
<1>1. CASE Parse
  BY <1>1, ArgumentRead DEF Parse
<1>2. CASE UNCHANGED cliVars
  BY <1>2 DEF cliVars, Line, Reading, MayEnd, ListEmpty, ParseMatchesGrammar, ArgsBefore
<1>3. CASE Forget
  BY <1>3, NothingRead DEF Forget
<1> QED
  BY <1>1, <1>2, <1>3 DEF Next, LeaveParse, ConfigureFile, StartThread, SetUp, Load, vars
---------------------------------------------------------------------------
(* The shared files.                                                       *)

(* A file is taken. *)
LEMMA FileTaken ==
    ASSUME Parsed, Files, phase = "configure", configured < Len(config.sharedFiles),
           Acceptable(NextPath), Emplace(FileName[NextPath], NextPath),
           configured' = configured + 1, UNCHANGED <<cliVars, phase>>
    PROVE  Files'
<1> DEFINE name == FileName[NextPath]
           n == Len(config.sharedFiles)
<1>1. n \in Nat /\ configured \in Nat /\ configured + 1 \in 1..n
  BY DEF Parsed, Files
<1>2. /\ DOMAIN sharedFiles' = DOMAIN sharedFiles \cup {name}
      /\ name \notin DOMAIN sharedFiles
      /\ sharedFiles'[name] = NextPath
      /\ \A m \in DOMAIN sharedFiles : sharedFiles'[m] = sharedFiles[m]
  BY DEF Emplace, Acceptable
<1>3. /\ IsFiniteSet(DOMAIN sharedFiles)
      /\ Cardinality(DOMAIN sharedFiles) = configured
  BY DEF Files, EveryFileIsShared
<1>4. /\ IsFiniteSet(DOMAIN sharedFiles')
      /\ Cardinality(DOMAIN sharedFiles') = configured + 1
  <2> DEFINE D == DOMAIN sharedFiles
  <2> HIDE DEF D, name
  <2>1. /\ IsFiniteSet(D \cup {name})
        /\ Cardinality(D \cup {name}) = IF name \in D THEN Cardinality(D) ELSE Cardinality(D) + 1
    BY <1>3, FS_AddElement DEF D
  <2> QED  BY <1>2, <1>3, <2>1 DEF D
<1>5. ASSUME NEW i \in 1..(configured + 1)
      PROVE  LET path == config.sharedFiles[i]
             IN  FileName[path] \in DOMAIN sharedFiles' /\ sharedFiles'[FileName[path]] = path
  <2>1. i \in 1..configured \/ i = configured + 1
    BY <1>1
  <2>2. CASE i \in 1..configured
    BY <1>2, <2>2 DEF Files, EveryFileIsShared
  <2>3. CASE i = configured + 1
    BY <1>2, <2>3 DEF NextPath
  <2> QED  BY <2>1, <2>2, <2>3
<1>6. EveryFileIsShared'
  BY <1>4, <1>5 DEF EveryFileIsShared, cliVars
<1> QED  BY <1>1, <1>4, <1>6 DEF Files, cliVars

LEMMA FilesNext ==
    ASSUME Parsed, Files, [Next]_vars
    PROVE  Files'
<1>1. CASE Parse
  BY <1>1 DEF Parse, Files, EveryFileIsShared
<1>2. CASE LeaveParse
  <2>1. CASE phase' = "configure"
    <3>1. /\ status' = "Ok" /\ sharedFiles' = NoFiles /\ configured' = 0
          /\ config' = config
      BY <1>2, <2>1 DEF LeaveParse, Files, cliVars
    <3>2. Len(config.sharedFiles) \in Nat
      BY DEF Parsed
    <3>3. DOMAIN NoFiles = {}
      BY DEF NoFiles
    <3>4. IsFiniteSet(DOMAIN NoFiles) /\ Cardinality(DOMAIN NoFiles) = 0
      BY <3>3, FS_EmptySet
    <3> QED  BY <2>1, <3>1, <3>2, <3>4 DEF Files, EveryFileIsShared
  <2>2. CASE phase' = "exit"
    BY <2>2 DEF Files, EveryFileIsShared
  <2> QED  BY <1>2, <2>1, <2>2 DEF LeaveParse
<1>3. CASE ConfigureFile
  <2>1. CASE phase' = "exit"
    BY <2>1 DEF Files, EveryFileIsShared
  <2> QED  BY <1>3, <2>1, FileTaken DEF ConfigureFile
<1>4. CASE StartThread \/ SetUp \/ Load
  BY <1>4 DEF StartThread, SetUp, Load, Files, EveryFileIsShared
<1>5. CASE UNCHANGED vars
  BY <1>5 DEF vars, cliVars, Files, EveryFileIsShared
<1> QED  BY <1>1, <1>2, <1>3, <1>4, <1>5 DEF Next
---------------------------------------------------------------------------
(* The page tables.                                                        *)

(* The numbers of each memory size: page tables and frames. *)
LEMMA SizeFacts ==
    ASSUME NEW size \in Sizes
    PROVE  /\ size \in Nat
           /\ page_table_count(size) \in {1, 2, 4}
           /\ Frame(size) = page_table_count(size) * 512
  BY DEF Sizes, MiB, KiB, page_table_count, Frame, PAGE_SIZE_2M, PAGE_SIZE_4K

(* setup_long_mode, on the zeroed memory of vm_init. *)
LEMMA LongModeTables ==
    ASSUME vm \in [memorySize : Sizes, pageSize : PageSizes], tables = Zeroed,
           SetupLongMode(vm.memorySize, vm.pageSize), vm' = vm
    PROVE  Tables'
<1> DEFINE n == page_table_count(vm.memorySize)
<1>1. n \in {1, 2, 4} /\ vm.memorySize \div PAGE_SIZE_2M = n
  BY SizeFacts DEF page_table_count
<1>2. LowFrames = 0..8 /\ Index = 0..511
  BY DEF LowFrames, Frame, GUEST_START_ADDR, PAGE_SIZE_4K, Index, PAGE_TABLE_ENTRIES
<1>3. tables = [f \in 0..8 |-> [i \in 0..511 |-> NotPresent]]
  BY <1>2 DEF Zeroed
<1>4. ASSUME NEW i \in 0..511 PROVE tables[3][i] = NotPresent
  <2>1. tables[3] = [j \in 0..511 |-> NotPresent]
    BY <1>3
  <2> QED  BY <2>1
<1>5. sregs' = [cr3 |-> PML4, long |-> TRUE, cs64 |-> TRUE]
  BY DEF SetupLongMode
<1> DEFINE small == vm.pageSize = PAGE_SIZE_4K
           pts == IF small THEN FirstPT..FirstPT + n - 1 ELSE {}
           Content(f) ==
                CASE f = PML4 -> [tables[f] EXCEPT ![0] = PointsTo(PDPT)]
                  [] f = PDPT -> [tables[f] EXCEPT ![0] = PointsTo(PD)]
                  [] f = PD -> IF small THEN DirectoryOf4k(vm.memorySize)
                               ELSE DirectoryOf2m(vm.memorySize)
                  [] f \in pts -> TableOf4k(f - FirstPT)
                  [] OTHER -> tables[f]
<1>6. tables' = [f \in 0..8 |-> Content(f)]
  BY <1>2 DEF SetupLongMode
<1>7. PML4 = 1 /\ PDPT = 2 /\ PD = 3 /\ FirstPT = 4
  BY DEF PML4, PDPT, PD, FirstPT
<1>8. /\ Content(1) = [tables[1] EXCEPT ![0] = PointsTo(PDPT)]
      /\ Content(2) = [tables[2] EXCEPT ![0] = PointsTo(PD)]
      /\ Content(3) = IF small THEN DirectoryOf4k(vm.memorySize) ELSE DirectoryOf2m(vm.memorySize)
  BY <1>7
<1>9. ASSUME small, NEW f \in 4..7, f \in FirstPT..FirstPT + n - 1
       PROVE  Content(f) = TableOf4k(f - FirstPT)
  BY <1>7, <1>9
<1> HIDE DEF Content
<1>10. /\ tables'[1] = [tables[1] EXCEPT ![0] = PointsTo(PDPT)]
      /\ tables'[2] = [tables[2] EXCEPT ![0] = PointsTo(PD)]
      /\ tables'[3] = IF small THEN DirectoryOf4k(vm.memorySize) ELSE DirectoryOf2m(vm.memorySize)
  BY <1>6, <1>8
<1>11. tables'[PML4][0] = PointsTo(PDPT) /\ tables'[PDPT][0] = PointsTo(PD)
  BY <1>3, <1>10 DEF PML4, PDPT
<1>12. CASE vm.pageSize = PAGE_SIZE_4K
  <2>1. tables'[3] = [i \in 0..511 |-> IF i < n THEN PointsTo(FirstPT + i) ELSE tables[3][i]]
    BY <1>2, <1>10, <1>12, <1>7 DEF DirectoryOf4k
  <2>2. ASSUME NEW i \in 0..511, i < n
        PROVE  tables'[FirstPT + i] = TableOf4k(i)
    <3>1. FirstPT + i \in 4..7 /\ FirstPT + i \in FirstPT..FirstPT + n - 1 /\ (FirstPT + i) - FirstPT = i
      BY <1>1, <1>7, <2>2
    <3>2. Content(FirstPT + i) = TableOf4k(i)
      BY <1>12, <1>9, <3>1
    <3>3. FirstPT + i \in 0..8
      BY <3>1
    <3> HIDE DEF n
    <3> QED  BY <1>6, <3>2, <3>3
  <2>3. ASSUME NEW i \in 0..511, i >= n PROVE tables'[PD][i] = NotPresent
    <3>1. ~(i < n)
      BY <1>1, <2>3
    <3> HIDE DEF n
    <3> QED  BY <1>4, <1>7, <2>1, <3>1
  <2>4. ASSUME NEW i \in 0..511, i < n
        PROVE  /\ tables'[PD][i] = PointsTo(FirstPT + i)
               /\ \A j \in 0..511 : tables'[FirstPT + i][j] = PointsTo(i * PAGE_TABLE_ENTRIES + j)
    <3>1. tables'[PD][i] = PointsTo(FirstPT + i)
      BY <1>7, <2>1, <2>4
    <3>2. TableOf4k(i) = [j \in 0..511 |-> PointsTo(i * PAGE_TABLE_ENTRIES + j)]
      BY <1>2 DEF TableOf4k
    <3>3. tables'[FirstPT + i] = TableOf4k(i)
      BY <2>2, <2>4
    <3>4. ASSUME NEW j \in 0..511
          PROVE  tables'[FirstPT + i][j] = PointsTo(i * PAGE_TABLE_ENTRIES + j)
      <4> DEFINE Entry(k) == PointsTo(i * PAGE_TABLE_ENTRIES + k)
      <4>1. tables'[FirstPT + i] = [k \in 0..511 |-> Entry(k)]
        BY <3>2, <3>3
      <4> HIDE DEF Entry
      <4>2. tables'[FirstPT + i][j] = Entry(j)
        BY <4>1
      <4> QED  BY <4>2 DEF Entry
    <3> QED  BY <3>1, <3>4
  <2>5. page_table_count(vm'.memorySize) = n /\ vm'.pageSize = PAGE_SIZE_4K
    BY <1>12
  <2> HIDE DEF n
  <2>6. \A i \in Index : i < n =>
          IF vm'.pageSize = PAGE_SIZE_4K
          THEN /\ tables'[PD][i] = PointsTo(FirstPT + i)
               /\ \A j \in Index : tables'[FirstPT + i][j] = PointsTo(i * PAGE_TABLE_ENTRIES + j)
          ELSE tables'[PD][i] = LargePage(i * PAGE_TABLE_ENTRIES)
    BY <1>2, <2>4, <2>5
  <2>7. \A i \in Index : i >= n => tables'[PD][i] = NotPresent
    BY <1>2, <2>3
  <2> QED  BY <1>5, <1>11, <2>5, <2>6, <2>7 DEF Tables
<1>13. CASE vm.pageSize # PAGE_SIZE_4K
  <2>1. tables'[3] = [i \in 0..511 |-> IF i < n THEN LargePage(i * 512) ELSE tables[3][i]]
    <3>1. PAGE_SIZE_2M \div PAGE_SIZE_4K = 512
      BY DEF PAGE_SIZE_2M, PAGE_SIZE_4K
    <3>2. tables'[3] = DirectoryOf2m(vm.memorySize)
      BY <1>10, <1>13
    <3>3. DirectoryOf2m(vm.memorySize) =
            [i \in 0..511 |-> IF i < n THEN LargePage(i * 512) ELSE tables[3][i]]
      BY <1>1, <1>2, <1>7, <3>1 DEF DirectoryOf2m
    <3> QED  BY <3>2, <3>3
  <2>2. ASSUME NEW i \in 0..511, i >= n PROVE tables'[PD][i] = NotPresent
    <3>1. ~(i < n)
      BY <1>1, <2>2
    <3> HIDE DEF n
    <3> QED  BY <1>4, <1>7, <2>1, <3>1
  <2>3. \A i \in 0..511 : i < n => tables'[PD][i] = LargePage(i * PAGE_TABLE_ENTRIES)
    BY <2>1 DEF PD, PAGE_TABLE_ENTRIES
  <2> QED  BY <1>2, <1>5, <1>11, <1>13, <2>2, <2>3 DEF Tables
<1> QED  BY <1>12, <1>13

(* load_guest_image, of an image of any size: it begins behind the tables. *)
LEMMA ImageBehindTables ==
    ASSUME vm.memorySize \in Sizes, Tables, NEW fileSize \in Int, LoadImage(fileSize),
           vm' = vm, sregs' = sregs
    PROVE  Tables'
<1> DEFINE n == page_table_count(vm.memorySize)
<1>1. n \in {1, 2, 4}
  BY SizeFacts
<1>2. LowFrames = 0..8 /\ Index = 0..511 /\ Frame(GUEST_START_ADDR) = 8
  BY DEF LowFrames, Frame, GUEST_START_ADDR, PAGE_SIZE_4K, Index, PAGE_TABLE_ENTRIES
<1>3. \A f \in 0..7 : tables'[f] = tables[f]
  BY <1>2 DEF LoadImage, ImageFrames
<1>4. \A i \in 0..511 : i < n => FirstPT + i \in 0..7
  BY <1>1 DEF FirstPT
<1>5. PML4 \in 0..7 /\ PDPT \in 0..7 /\ PD \in 0..7
  BY DEF PML4, PDPT, PD
<1>6. /\ tables'[PML4] = tables[PML4] /\ tables'[PDPT] = tables[PDPT] /\ tables'[PD] = tables[PD]
      /\ \A i \in 0..511 : i < n => tables'[FirstPT + i] = tables[FirstPT + i]
  BY <1>3, <1>4, <1>5
<1>7. page_table_count(vm'.memorySize) = n /\ vm'.pageSize = vm.pageSize
  OBVIOUS
<1> HIDE DEF n
<1>8. /\ sregs' = [cr3 |-> PML4, long |-> TRUE, cs64 |-> TRUE]
      /\ tables'[PML4][0] = PointsTo(PDPT) /\ tables'[PDPT][0] = PointsTo(PD)
      /\ \A i \in Index : i >= n => tables'[PD][i] = NotPresent
  BY <1>6 DEF Tables, n
<1>9. ASSUME NEW i \in Index, i < n
      PROVE  IF vm.pageSize = PAGE_SIZE_4K
             THEN /\ tables'[PD][i] = PointsTo(FirstPT + i)
                  /\ \A j \in Index : tables'[FirstPT + i][j] = PointsTo(i * PAGE_TABLE_ENTRIES + j)
             ELSE tables'[PD][i] = LargePage(i * PAGE_TABLE_ENTRIES)
  <2>1. tables'[FirstPT + i] = tables[FirstPT + i] /\ tables'[PD] = tables[PD]
    BY <1>2, <1>6, <1>9
  <2>2. IF vm.pageSize = PAGE_SIZE_4K
        THEN /\ tables[PD][i] = PointsTo(FirstPT + i)
             /\ \A j \in Index : tables[FirstPT + i][j] = PointsTo(i * PAGE_TABLE_ENTRIES + j)
        ELSE tables[PD][i] = LargePage(i * PAGE_TABLE_ENTRIES)
    BY <1>9 DEF Tables, n
  <2> QED  BY <2>1, <2>2
<1> QED  BY <1>7, <1>8, <1>9 DEF Tables

LEMMA PreparedNext ==
    ASSUME Parsed, Files, Prepared, [Next]_vars
    PROVE  Prepared'
<1>1. CASE Parse \/ ConfigureFile
  BY <1>1 DEF Parse, ConfigureFile, Prepared, ImageInside
<1>2. CASE LeaveParse
  BY <1>2 DEF LeaveParse, Prepared, ImageInside
<1>3. CASE StartThread
  <2>1. config.memorySize \in Sizes /\ config.pageSize \in PageSizes
    BY <1>3 DEF StartThread, Files, Parsed
  <2> QED  BY <1>3, <2>1 DEF StartThread, Prepared, ImageInside
<1>4. CASE SetUp
  <2>1. Tables' /\ vm' = vm /\ phase' = "load"
    BY <1>4, LongModeTables DEF SetUp, Prepared
  <2> QED  BY <1>4, <2>1 DEF SetUp, Prepared, ImageInside
<1>5. CASE Load
  <2>1. PICK fileSize \in FileSizes :
            \/ /\ ImageFits(vm.memorySize, fileSize)
               /\ LoadImage(fileSize)
               /\ imageSize' = fileSize
               /\ phase' = "run"
            \/ phase' = "exit"
    BY <1>5 DEF Load
  <2>2. /\ phase = "load" /\ vm' = vm /\ sregs' = sregs /\ Tables
        /\ vm \in [memorySize : Sizes, pageSize : PageSizes]
    BY <1>5 DEF Load, Prepared
  <2>3. CASE /\ ImageFits(vm.memorySize, fileSize) /\ LoadImage(fileSize)
             /\ imageSize' = fileSize /\ phase' = "run"
    <3>1. vm.memorySize \in Nat
      BY <2>2, SizeFacts
    <3>2. fileSize \in Nat
      <4>1. vm.memorySize >= GUEST_START_ADDR
        BY <2>2, SMT DEF Sizes, MiB, KiB, GUEST_START_ADDR
      <4> QED  BY <3>1, <4>1, SMT DEF FileSizes, GUEST_START_ADDR
    <3>3. Tables'
      BY <2>2, <2>3, <3>2, ImageBehindTables
    <3>4. ImageInside'
      BY <2>2, <2>3, <3>1, <3>2 DEF ImageInside, ImageFits, GUEST_START_ADDR
    <3> QED  BY <2>2, <2>3, <3>3, <3>4 DEF Prepared
  <2>4. CASE phase' = "exit"
    BY <2>4 DEF Prepared, ImageInside
  <2> QED  BY <2>1, <2>3, <2>4
<1>6. CASE UNCHANGED vars
  BY <1>6 DEF vars, Prepared, Tables, ImageInside
<1> QED  BY <1>1, <1>2, <1>3, <1>4, <1>5, <1>6 DEF Next

(* The processor finds every page of the memory at its own place, and      *)
(* nothing behind it. *)
LEMMA WalkIsIdentity ==
    ASSUME vm \in [memorySize : Sizes, pageSize : PageSizes], Tables,
           NEW p \in 0..5 * PAGE_TABLE_ENTRIES - 1
    PROVE  Walk(p) = IF p < Frame(vm.memorySize) THEN p ELSE -1
<1> DEFINE n == page_table_count(vm.memorySize)
           q == p \div 512
           r == p % 512
<1>1. n \in {1, 2, 4} /\ Frame(vm.memorySize) = n * 512
  BY SizeFacts
<1>2. /\ LowFrames = 0..8 /\ Index = 0..511 /\ PAGE_TABLE_ENTRIES = 512
      /\ PML4 = 1 /\ PDPT = 2 /\ PD = 3 /\ FirstPT = 4
  BY DEF LowFrames, Frame, GUEST_START_ADDR, PAGE_SIZE_4K, Index, PAGE_TABLE_ENTRIES,
         PML4, PDPT, PD, FirstPT
<1>3. /\ p \in 0..2559 /\ q \in 0..4 /\ r \in 0..511 /\ p = q * 512 + r
      /\ p < n * 512 <=> q < n
  <2>1. p \in 0..2559
    BY <1>2
  <2>2. q \in 0..4 /\ r \in 0..511 /\ p = q * 512 + r
    BY <2>1
  <2> QED  BY <1>1, <2>1, <2>2
<1>4. sregs.cr3 = 1
  BY <1>2 DEF Tables
<1>5. EntryIn(sregs.cr3, 0) = PointsTo(2) /\ EntryIn(2, 0) = PointsTo(3)
  <2>1. tables[1][0] = PointsTo(2) /\ tables[2][0] = PointsTo(3)
    BY <1>2 DEF Tables
  <2> QED  BY <1>2, <1>4, <2>1 DEF EntryIn
<1> HIDE DEF n, q, r
<1> DEFINE pde == EntryIn(3, q)
<1>6. /\ pde = tables[3][q]
      /\ q < n /\ vm.pageSize = PAGE_SIZE_4K => pde = PointsTo(4 + q)
      /\ q < n /\ vm.pageSize # PAGE_SIZE_4K => pde = LargePage(q * 512)
      /\ ~(q < n) => pde = NotPresent
  <2>1. pde = tables[3][q] /\ q \in Index
    BY <1>2, <1>3 DEF EntryIn
  <2>2. ~(q < n) => q >= n
    BY <1>1, <1>3
  <2>3. /\ q >= n => tables[PD][q] = NotPresent
        /\ q < n /\ vm.pageSize = PAGE_SIZE_4K => tables[PD][q] = PointsTo(FirstPT + q)
        /\ q < n /\ vm.pageSize # PAGE_SIZE_4K => tables[PD][q] = LargePage(q * PAGE_TABLE_ENTRIES)
    BY <2>1 DEF Tables, n
  <2> QED  BY <1>2, <2>1, <2>2, <2>3
<1>7. PointsTo(2).frame = 2 /\ PointsTo(3).frame = 3 /\ Present(PointsTo(2)) /\ Present(PointsTo(3))
  BY DEF PointsTo, Present
<1>8. Walk(p) = CASE ~Present(pde) -> -1
                  [] pde.kind = "large" -> pde.frame + r
                  [] OTHER -> IF EntryIn(pde.frame, r).kind = "present"
                              THEN EntryIn(pde.frame, r).frame ELSE -1
  BY <1>2, <1>5, <1>7 DEF Walk, q, r
<1> HIDE DEF pde
<1>9. /\ ~Present(pde) => Walk(p) = -1
      /\ Present(pde) /\ pde.kind = "large" => Walk(p) = pde.frame + r
      /\ Present(pde) /\ pde.kind # "large" =>
            Walk(p) = IF EntryIn(pde.frame, r).kind = "present"
                      THEN EntryIn(pde.frame, r).frame ELSE -1
  BY <1>8 DEF Present
<1>10. CASE ~(q < n)
  <2>1. ~Present(pde)
    <3>1. pde = NotPresent
      BY <1>6, <1>10
    <3> QED  BY <3>1 DEF Present, NotPresent
  <2>2. ~(p < Frame(vm.memorySize))
    BY <1>1, <1>3, <1>10 DEF n
  <2>3. Walk(p) = -1
    BY <1>9, <2>1
  <2> QED  BY <2>2, <2>3
<1>11. CASE q < n /\ vm.pageSize # PAGE_SIZE_4K
  <2>1. Present(pde) /\ pde.kind = "large" /\ pde.frame = q * 512
    BY <1>6, <1>11 DEF Present, LargePage
  <2> QED  BY <1>1, <1>3, <1>9, <1>11, <2>1
<1>12. CASE q < n /\ vm.pageSize = PAGE_SIZE_4K
  <2>1. Present(pde) /\ pde.kind = "present" /\ pde.frame = 4 + q
    BY <1>6, <1>12 DEF Present, PointsTo
  <2>2. EntryIn(4 + q, r) = PointsTo(q * 512 + r)
    <3>1. 4 + q \in 0..8 /\ q \in Index /\ r \in Index
      BY <1>1, <1>2, <1>3, <1>12
    <3>2. tables[4 + q][r] = PointsTo(q * 512 + r)
      <4>1. \A j \in Index : tables[FirstPT + q][j] = PointsTo(q * PAGE_TABLE_ENTRIES + j)
        BY <1>12, <3>1 DEF Tables, n
      <4> QED  BY <1>2, <3>1, <4>1
    <3> QED  BY <1>2, <3>1, <3>2 DEF EntryIn
  <2>3. EntryIn(pde.frame, r).kind = "present" /\ EntryIn(pde.frame, r).frame = q * 512 + r
    BY <2>1, <2>2 DEF PointsTo
  <2> QED  BY <1>1, <1>3, <1>9, <1>12, <2>1, <2>3
<1> QED  BY <1>10, <1>11, <1>12
---------------------------------------------------------------------------
(* The theorems.                                                           *)

LEMMA InitHolds == Init => IInv
<1> SUFFICES ASSUME Init PROVE IInv
  OBVIOUS
<1>1. Parsed
  <2>1. <<>> \in Seq(Words)
    OBVIOUS
  <2> QED  BY <2>1 DEF Init, CliInit, NoConfig, Parsed
<1>2. Line
  BY NothingRead DEF Init
<1>3. Files /\ Prepared
  BY DEF Init, Files, EveryFileIsShared, Prepared, ImageInside
<1> QED  BY <1>1, <1>2, <1>3 DEF IInv

(* In every phase of the start of a run the earlier phases have left what  *)
(* it needs: the invariant the theorems below are read off from.           *)
THEOREM InvariantHolds == Spec => []IInv
<1>1. IInv /\ [Next]_vars => IInv'
  BY ParsedNext, LineNext, FilesNext, PreparedNext DEF IInv
<1> QED  BY <1>1, InitHolds, PTL DEF Spec

(* A thread that vm_init is called from has one of the memory and page     *)
(* sizes of the usage text. *)
THEOREM TypeCorrect == Spec => []TypeOK
<1>1. IInv => TypeOK
  BY DEF IInv, Parsed, Prepared, TypeOK, Sizes, PageSizes
<1> QED  BY <1>1, InvariantHolds, PTL

(* parseArguments accepts exactly the lines of the grammar, gives them     *)
(* their meaning, and answers -h behind a complete line with the help: for *)
(* command lines and lists of any length and any paths.                    *)
THEOREM ParserIsTheGrammar == Spec => []ParseMatchesGrammar
<1>1. IInv => ParseMatchesGrammar
  BY DEF IInv, Line
<1> QED  BY <1>1, InvariantHolds, PTL

(* configureSharedFiles drops no argument of -f: the paths taken so far    *)
(* have as many names as there are paths, and each is under its own. *)
THEOREM NoFileIsDropped == Spec => []EveryFileIsShared
<1>1. IInv => EveryFileIsShared
  BY DEF IInv, Files
<1> QED  BY <1>1, InvariantHolds, PTL

(* When the guest starts, the tables of setup_page_tables_4k or _2m map    *)
(* its memory to itself and nothing else, with the image already read. *)
THEOREM MemoryIsMapped == Spec => []IdentityMapped
<1>1. IInv => IdentityMapped
  BY WalkIsIdentity DEF IInv, Prepared, IdentityMapped, Tables
<1> QED  BY <1>1, InvariantHolds, PTL

(* Every page of the image that load_guest_image has read is reached by    *)
(* the page walk of the guest, for every memory and page size and the      *)
(* images at the edges of what fits.                                       *)
THEOREM ImageIsFound == Spec => []ImageIsReached
<1>1. ASSUME IInv, phase = "run",
             NEW f \in Frame(GUEST_START_ADDR)..Frame(GUEST_START_ADDR + imageSize - 1)
      PROVE  Walk(f) = f
  <2>1. /\ vm \in [memorySize : Sizes, pageSize : PageSizes] /\ Tables
        /\ imageSize \in Nat /\ GUEST_START_ADDR + imageSize <= vm.memorySize
    BY <1>1 DEF IInv, Prepared, ImageInside
  <2>2. PICK m \in {512, 1024, 2048} : Frame(vm.memorySize) = m /\ vm.memorySize = m * 4096
    BY <2>1, SizeFacts, SMT DEF Sizes, MiB, KiB, Frame, PAGE_SIZE_4K
  <2>3. f \in 8..((32767 + imageSize) \div 4096) /\ 32767 + imageSize < m * 4096
    BY <1>1, <2>1, <2>2, SMT DEF Frame, GUEST_START_ADDR, PAGE_SIZE_4K
  <2>4. f \in Nat /\ f < m
    BY <2>1, <2>3, SMT
  <2>5. f \in 0..5 * PAGE_TABLE_ENTRIES - 1
    BY <2>4, SMT DEF PAGE_TABLE_ENTRIES
  <2>6. Walk(f) = IF f < Frame(vm.memorySize) THEN f ELSE -1
    BY <2>1, <2>5, WalkIsIdentity
  <2> QED  BY <2>2, <2>4, <2>6
<1>2. IInv => ImageIsReached
  BY <1>1 DEF ImageIsReached
<1> QED  BY <1>2, InvariantHolds, PTL
=============================================================================
