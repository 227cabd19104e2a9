-------------------------- MODULE CliParsingProofs --------------------------
(***************************************************************************)
(* Machine-checked proofs about CliParsing, for any arguments, any number  *)
(* of them and integer types of any range: exactly the command lines of    *)
(* the documented form run, with their own numbers, and whatever runs can  *)
(* be run.                                                                 *)
(*                                                                         *)
(* Two invariants look at the loop over the arguments from either side.    *)
(* What was parsed so far splits as the grammar says (GrammarInv); and on  *)
(* a command line of the documented form the loop is in step with it, and  *)
(* refuses nothing (FollowInv).                                            *)
(***************************************************************************)
EXTENDS CliParsing, SequenceTheorems, TLAPS

(* The loop stays within the command line.                                 *)
LoopInv ==
  /\ Len(argv) <= MaxArgs
  /\ argIdx <= Len(argv) + 1

(* The options at the positions `at` are the first `cut` arguments.        *)
OptionPart(cut, at) ==
  /\ \A i \in at : argv[i].text \in KnownOption /\ argv[i].kind = "option"
  /\ \A i \in 1 .. cut :
       \/ i \in at /\ (i - 1 \in at => argv[i - 1].text \notin TakesValue)
       \/ i \notin at /\ i - 1 \in at /\ argv[i - 1].text \in TakesValue
  /\ cut \in at => argv[cut].text \notin TakesValue

(* The loop has taken the options at `at`, which are the first `cut`       *)
(* arguments, and the positionals after them.                              *)
Taken(cut, at) ==
  /\ OptionPart(cut, at)
  /\ cut + Len(positionals) = argIdx - 1
  /\ parsingOptions => Len(positionals) = 0
  /\ \A i \in cut + 1 .. argIdx - 1 : argv[i].kind # "option"
  /\ options.csvLogEnabled \/ options.terminalLogEnabled => at # {}

GrammarInv ==
  \E cut \in 0 .. Len(argv) : \E at \in SUBSET (1 .. cut) : Taken(cut, at)

(* What was checked before the app is made.                                *)
RunInv ==
  outcome = "run" =>
    /\ argIdx = Len(argv) + 1
    /\ PositionalsParse
    /\ config = ParsedConfig
    /\ ~HasSeparator(options.csvFileName)
    /\ options.csvLogEnabled => options.csvFileName # ""
    /\ options.csvLogEnabled \/ options.terminalLogEnabled

(* What the options are once those at `at` were taken, before the name of  *)
(* the file is completed, and after it.                                    *)
HoldsPath(at) == HoldsText(options.csvDirectoryPath, at, "--csv-path", ".")
HoldsName(at) == HoldsText(options.csvFileName, at, "--csv-filename", "")
Holds(at) ==
  HoldsLogs(at) /\ HoldsFlushCount(at) /\ HoldsPath(at) /\ HoldsName(at)
HoldsAtEnd(at) ==
  HoldsLogs(at) /\ HoldsFlushCount(at) /\ HoldsPath(at) /\ HoldsFileName(at)

(* The options that the loop has passed.                                   *)
SoFar(at) == {i \in at : i < argIdx}

(* The loop is in step with the documented form.                           *)
Follows(cut, at) ==
  /\ outcome # "usage"
  /\ parsingOptions <=> argIdx <= cut + 1
  /\ argIdx <= cut => argIdx \in at
  /\ parsingOptions => Len(positionals) = 0
  /\ ~parsingOptions => Len(positionals) = argIdx - 1 - cut
  /\ \A i \in 1 .. Len(positionals) : positionals[i] = argv[cut + i]
  /\ argIdx > 1 => options.csvLogEnabled \/ options.terminalLogEnabled
  /\ outcome = "parsing" => Holds(SoFar(at))
  /\ outcome = "run" => HoldsAtEnd(at)

FollowInv ==
  \A cut \in 0 .. Len(argv) : \A at \in SUBSET (1 .. cut) :
    Documented(cut, at) => Follows(cut, at)

CliInv == CliTypeOK /\ LoopInv /\ GrammarInv /\ RunInv /\ FollowInv
-----------------------------------------------------------------------------
(* The numbers the constants stand for.                                    *)
LEMMA CliBounds ==
  /\ MaxArgs \in Nat \ {0} /\ UintRange \in Nat \ {0}
  /\ LongRange \in Nat \ {0} /\ UintRange <= LongRange
  /\ UlongRange \in Nat \ {0} /\ UintRange < UlongRange
BY CliAssumption DEF UlongRange

(* What the remainder does to a number in range, and to any other.         *)
LEMMA Remainders ==
  \A m \in Nat \ {0} :
    /\ \A n \in Int : n % m \in 0 .. m - 1
    /\ \A n \in 0 .. m - 1 : n % m = n
OBVIOUS

(* strtoul keeps what fits its type, and what it gives always does; what   *)
(* it gives of a positive number, if that is a uint32_t, is the number.    *)
LEMMA UnsignedConversion ==
  \A n \in Int :
    /\ strtoul(n) \in Nat
    /\ n \in 0 .. UlongRange - 1 => strtoul(n) = n
    /\ n > 0 /\ strtoul(n) < UintRange => strtoul(n) = n
<1> TAKE n \in Int
<1>1. n % UlongRange \in 0 .. UlongRange - 1
  BY CliBounds, Remainders
<1>2. n \in 0 .. UlongRange - 1 => n % UlongRange = n
  BY CliBounds, Remainders
<1> HIDE DEF UlongRange
<1>3. UlongRange \in Nat \ {0} /\ UintRange \in Nat /\ UintRange < UlongRange
  BY CliBounds
<1> QED
  BY <1>1, <1>2, <1>3 DEF strtoul

(* A PID that fits its type is kept.                                       *)
LEMMA PidConversion ==
  \A n \in Int :
    /\ ToPid(strtol(n)) \in Int
    /\ n \in 1 .. (UintRange \div 2) - 1 => strtol(n) = n /\ ToPid(n) = n
<1> TAKE n \in Int
<1>1. PICK half \in Nat : half = UintRange \div 2 /\ 2 * half <= UintRange
  BY CliBounds
<1>2. strtol(n) \in Int
  BY CliBounds DEF strtol
<1>3. \A k \in Int : (k + half) % UintRange \in 0 .. UintRange - 1
  BY CliBounds, Remainders
<1>4. n \in 1 .. half - 1 => (n + half) % UintRange = n + half
  <2>1. n \in 1 .. half - 1 => n + half \in 0 .. UintRange - 1
    BY <1>1, CliBounds
  <2> QED
    BY <2>1, CliBounds, Remainders
<1>5. n \in 1 .. half - 1 => strtol(n) = n
  BY <1>1, CliBounds DEF strtol
<1>6. \A k \in Int : ToPid(k) = ((k + half) % UintRange) - half
  BY <1>1 DEF ToPid
<1> QED
  BY <1>1, <1>2, <1>3, <1>4, <1>5, <1>6
-----------------------------------------------------------------------------
OptionSet ==
  [terminalLogEnabled : BOOLEAN, csvLogEnabled : BOOLEAN,
   csvDirectoryPath : Text, csvFileName : Text,
   csvFlushSampleCount : Nat \ {0}]

LEMMA ArgFields ==
  \A a \in Arg : a.text \in Text /\ a.value \in Int
BY CliAssumption DEF Text

(* What option `name` with value `v` does to each field of the options.    *)
Sets(new, name, v) ==
  /\ new.terminalLogEnabled <=>
       options.terminalLogEnabled \/ name = "--terminal-log"
  /\ new.csvLogEnabled <=> options.csvLogEnabled \/ name # "--terminal-log"
  /\ new.csvDirectoryPath =
       IF name = "--csv-path" THEN v.text ELSE options.csvDirectoryPath
  /\ new.csvFileName =
       IF name = "--csv-filename" THEN v.text ELSE options.csvFileName
  /\ new.csvFlushSampleCount =
       IF name = "--csv-flush-samples"
         THEN strtoul(v.value) ELSE options.csvFlushSampleCount

LEMMA ApplyEffect ==
  ASSUME options \in OptionSet, NEW name \in KnownOption, NEW v \in Arg,
         name = "--csv-flush-samples" => strtoul(v.value) # 0
  PROVE  Apply(name, v) \in OptionSet /\ Sets(Apply(name, v), name, v)
<1>1. v.text \in Text /\ strtoul(v.value) \in Nat
  BY ArgFields, UnsignedConversion
<1> USE DEF Apply, OptionSet, Sets
<1>2. CASE name = "--terminal-log"
  BY <1>2
<1>3. CASE name = "--csv-log"
  BY <1>3
<1>4. CASE name = "--csv-path"
  BY <1>1, <1>4
<1>5. CASE name = "--csv-filename"
  BY <1>1, <1>5
<1>6. CASE name = "--csv-flush-samples"
  BY <1>1, <1>6
<1> QED
  BY <1>2, <1>3, <1>4, <1>5, <1>6 DEF KnownOption, TakesValue

(* The places of the command line hold arguments.                          *)
LEMMA Places ==
  ASSUME CliTypeOK, LoopInv
  PROVE  /\ Len(argv) \in 0 .. MaxArgs /\ argIdx \in 1 .. Len(argv) + 1
         /\ Len(positionals) \in Nat
         /\ \A i \in 1 .. Len(argv) : argv[i] \in Arg
         /\ \A i \in 1 .. Len(positionals) : positionals[i] \in Arg
         /\ ValueCount \in 0 .. 1
         /\ ValueCount = 1 <=> OptionName \in TakesValue
BY CliBounds, LenProperties, ElementOfSeq DEF CliTypeOK, LoopInv, ValueCount

(* An option is refused, or taken with its value.                          *)
LEMMA TakeOptionEffect ==
  ASSUME CliTypeOK, LoopInv, TakeOption
  PROVE  /\ argIdx \in 1 .. Len(argv) /\ outcome = "parsing"
         /\ argv[argIdx].kind = "option" /\ parsingOptions
         /\ UNCHANGED <<argv, parsingOptions, positionals, config>>
         /\ \/ /\ UnknownOrIncomplete \/ BadFlushCount
               /\ outcome' = "usage" /\ UNCHANGED <<argIdx, options>>
            \/ /\ OptionName \in KnownOption
               /\ argIdx' = argIdx + ValueCount + 1
               /\ argIdx' \in 1 .. Len(argv) + 1
               /\ outcome' = outcome
               /\ options' \in OptionSet
               /\ options'.csvLogEnabled \/ options'.terminalLogEnabled
               /\ Sets(options', OptionName, OptionValue)
<1>1. /\ argIdx \in 1 .. Len(argv) /\ outcome = "parsing"
      /\ argv[argIdx].kind = "option" /\ parsingOptions
      /\ UNCHANGED <<argv, parsingOptions, positionals, config>>
  <2>1. /\ argIdx <= Len(argv) /\ outcome = "parsing"
        /\ argv[argIdx].kind = "option" /\ parsingOptions
    BY DEF TakeOption, TakeOptionUnless, InLoop
  <2>2. UNCHANGED <<argv, parsingOptions, positionals, config>>
    BY DEF TakeOption, TakeOptionUnless, Reject
  <2> QED
    BY <2>1, <2>2, Places
<1>2. CASE UnknownOrIncomplete \/ BadFlushCount
  BY <1>1, <1>2 DEF TakeOption, TakeOptionUnless, Reject
<1>3. CASE ~(UnknownOrIncomplete \/ BadFlushCount)
  <2>1. /\ options' = Apply(OptionName, OptionValue)
        /\ argIdx' = argIdx + ValueCount + 1 /\ outcome' = outcome
    BY <1>3 DEF TakeOption, TakeOptionUnless
  <2>2. OptionName \in KnownOption /\ argIdx + ValueCount <= Len(argv)
    BY <1>1, <1>3, Places DEF UnknownOrIncomplete
  <2>3. OptionValue \in Arg
    BY <1>1, <2>2, Places DEF OptionValue
  <2>4. OptionName = "--csv-flush-samples" => strtoul(OptionValue.value) # 0
    BY <1>3 DEF BadFlushCount
  <2>5. options \in OptionSet
    BY DEF CliTypeOK, OptionSet
  <2>6. options' \in OptionSet /\ Sets(options', OptionName, OptionValue)
    BY <2>1, <2>2, <2>3, <2>4, <2>5, ApplyEffect
  <2>7. options'.csvLogEnabled \/ options'.terminalLogEnabled
    BY <2>6 DEF Sets
  <2>8. argIdx' \in 1 .. Len(argv) + 1
    BY <1>1, <2>1, <2>2, Places
  <2> QED
    BY <1>1, <2>1, <2>2, <2>6, <2>7, <2>8
<1> QED
  BY <1>2, <1>3

(* A positional is taken.                                                  *)
LEMMA TakePositionalEffect ==
  ASSUME CliTypeOK, LoopInv, TakePositional
  PROVE  /\ argIdx \in 1 .. Len(argv) /\ outcome = "parsing"
         /\ argv[argIdx].kind # "option" /\ ~parsingOptions'
         /\ UNCHANGED <<argv, options, config, outcome>>
         /\ argIdx' = argIdx + 1 /\ argIdx' \in 1 .. Len(argv) + 1
         /\ positionals' \in Seq(Arg)
         /\ Len(positionals') = Len(positionals) + 1
         /\ \A i \in 1 .. Len(positionals) : positionals'[i] = positionals[i]
         /\ positionals'[Len(positionals) + 1] = argv[argIdx]
         /\ \A i \in 1 .. Len(positionals) + 1 :
              i \in 1 .. Len(positionals) \/ i = Len(positionals) + 1
<1>1. /\ argIdx \in 1 .. Len(argv) /\ outcome = "parsing"
      /\ argv[argIdx].kind # "option" /\ ~parsingOptions'
      /\ UNCHANGED <<argv, options, config, outcome>>
      /\ argIdx' = argIdx + 1
      /\ positionals' = Append(positionals, argv[argIdx])
  BY Places DEF TakePositional, TakePositionalThen, InLoop
<1>2. argv[argIdx] \in Arg /\ positionals \in Seq(Arg)
  BY <1>1, Places DEF CliTypeOK
<1>3. Len(positionals) \in Nat
  BY Places
<1>4. argIdx' \in 1 .. Len(argv) + 1
  BY <1>1, Places
<1> QED
  BY <1>1, <1>2, <1>3, <1>4, AppendProperties
(* What main checks before it makes the app.                               *)
Acceptable ==
  /\ PositionalsParse
  /\ ~HasSeparator(options.csvFileName)
  /\ options.csvLogEnabled \/ options.terminalLogEnabled

(* The configuration of a run has its types.                               *)
LEMMA ConfigTypes ==
  ASSUME CliTypeOK, LoopInv, PositionalsParse
  PROVE  ParsedConfig \in [targetPid : Int, sampleIntervalMs : Nat,
                           hasDurationLimit : BOOLEAN,
                           profileDurationMs : Nat]
<1>1. /\ 1 \in 1 .. Len(positionals) /\ 2 \in 1 .. Len(positionals)
      /\ Len(positionals) = 3 => 3 \in 1 .. Len(positionals)
  BY DEF PositionalsParse, PositionalsParseFrom
<1>2. /\ positionals[1].value \in Int /\ positionals[2].value \in Int
      /\ Len(positionals) = 3 => positionals[3].value \in Int
  BY <1>1, Places, ArgFields
<1>3. /\ ToPid(strtol(positionals[1].value)) \in Int
      /\ strtoul(positionals[2].value) \in Nat
      /\ Len(positionals) = 3 => strtoul(positionals[3].value) \in Nat
  BY <1>2, PidConversion, UnsignedConversion
<1> QED
  BY <1>3 DEF ParsedConfig

(* At the end of the arguments the result runs or is refused.              *)
LEMMA FinishEffect ==
  ASSUME CliTypeOK, LoopInv, Finish
  PROVE  /\ outcome = "parsing" /\ argIdx = Len(argv) + 1
         /\ UNCHANGED <<argv, argIdx, parsingOptions, positionals>>
         /\ \/ ~Acceptable /\ outcome' = "usage"
               /\ UNCHANGED <<options, config>>
            \/ /\ Acceptable /\ outcome' = "run" /\ config' = ParsedConfig
               /\ options' \in OptionSet
               /\ options'.csvLogEnabled = options.csvLogEnabled
               /\ options'.terminalLogEnabled = options.terminalLogEnabled
               /\ options'.csvDirectoryPath = options.csvDirectoryPath
               /\ options'.csvFlushSampleCount = options.csvFlushSampleCount
               /\ options'.csvFileName =
                    IF options.csvLogEnabled /\ options.csvFileName = ""
                      THEN DefaultName ELSE options.csvFileName
<1>1. outcome = "parsing" /\ argIdx = Len(argv) + 1
  <2>1. outcome = "parsing" /\ argIdx > Len(argv)
    BY DEF Finish
  <2> QED
    BY <2>1, Places
<1>2. CASE ~Acceptable
  BY <1>1, <1>2 DEF Finish, Acceptable, Reject
<1>3. CASE Acceptable
  <2>1. /\ outcome' = "run" /\ config' = ParsedConfig
        /\ options' = IF options.csvLogEnabled /\ options.csvFileName = ""
                        THEN [options EXCEPT !.csvFileName = DefaultName]
                        ELSE options
        /\ UNCHANGED <<argv, argIdx, parsingOptions, positionals>>
    BY <1>3 DEF Finish, Acceptable
  <2>2. options \in OptionSet
    BY DEF CliTypeOK, OptionSet
  <2>3. CASE options.csvLogEnabled /\ options.csvFileName = ""
    <3>1. options' = [options EXCEPT !.csvFileName = DefaultName]
      BY <2>1, <2>3
    <3>2. /\ options' \in OptionSet /\ options'.csvFileName = DefaultName
          /\ options'.csvLogEnabled = options.csvLogEnabled
          /\ options'.terminalLogEnabled = options.terminalLogEnabled
          /\ options'.csvDirectoryPath = options.csvDirectoryPath
          /\ options'.csvFlushSampleCount = options.csvFlushSampleCount
      <4>1. \A o \in OptionSet, name \in Text :
              LET new == [o EXCEPT !.csvFileName = name]
              IN  /\ new \in OptionSet /\ new.csvFileName = name
                  /\ new.csvLogEnabled = o.csvLogEnabled
                  /\ new.terminalLogEnabled = o.terminalLogEnabled
                  /\ new.csvDirectoryPath = o.csvDirectoryPath
                  /\ new.csvFlushSampleCount = o.csvFlushSampleCount
        BY DEF OptionSet
      <4>2. DefaultName \in Text
        BY DEF Text
      <4> QED
        BY <2>2, <3>1, <4>1, <4>2
    <3> QED
      BY <1>1, <1>3, <2>1, <2>3, <3>2
  <2>4. CASE ~(options.csvLogEnabled /\ options.csvFileName = "")
    BY <1>1, <1>3, <2>1, <2>2, <2>4
  <2> QED
    BY <2>3, <2>4
<1> QED
  BY <1>2, <1>3

(* Every step keeps the types and stays within the command line.           *)
LEMMA CliTypesKept ==
  ASSUME CliTypeOK, LoopInv, [CliNext]_cliVars
  PROVE  CliTypeOK' /\ LoopInv'
<1> USE DEF OptionSet
<1>1. \A i \in 1 .. Len(argv) + 1 : i \in 1 .. MaxArgs + 1
  BY Places, CliBounds
<1>2. CASE TakeOption
  <2>1. /\ UNCHANGED <<argv, parsingOptions, positionals, config>>
        /\ argIdx' \in 1 .. Len(argv) + 1
        /\ options' \in OptionSet
        /\ outcome' \in {"parsing", "usage"}
    BY <1>2, TakeOptionEffect, Places DEF CliTypeOK
  <2> QED
    BY <1>1, <2>1, Places DEF CliTypeOK, LoopInv
<1>3. CASE TakePositional
  <2>1. /\ UNCHANGED <<argv, options, config, outcome>> /\ ~parsingOptions'
        /\ parsingOptions' \in BOOLEAN
        /\ argIdx' \in 1 .. Len(argv) + 1
        /\ positionals' \in Seq(Arg)
    BY <1>3, TakePositionalEffect DEF TakePositional, TakePositionalThen
  <2> QED
    BY <1>1, <2>1, Places DEF CliTypeOK, LoopInv
<1>4. CASE RefuseLateOption
  BY <1>4 DEF RefuseLateOption, Reject, CliTypeOK, LoopInv
<1>5. CASE Finish
  <2>1. /\ UNCHANGED <<argv, argIdx, parsingOptions, positionals>>
        /\ outcome' \in {"usage", "run"}
        /\ options' \in OptionSet
        /\ config' \in [targetPid : Int, sampleIntervalMs : Nat,
                        hasDurationLimit : BOOLEAN, profileDurationMs : Nat]
    BY <1>5, FinishEffect, ConfigTypes DEF CliTypeOK, Acceptable
  <2> QED
    BY <2>1 DEF CliTypeOK, LoopInv
<1>6. CASE UNCHANGED cliVars
  BY <1>6 DEF cliVars, CliTypeOK, LoopInv
<1> QED
  BY <1>2, <1>3, <1>4, <1>5, <1>6 DEF CliNext, Finished
-----------------------------------------------------------------------------
(* A known option after the option part, with its value if it takes one,   *)
(* makes a longer one.                                                     *)
LEMMA OptionPartGrows ==
  ASSUME NEW cut \in Nat, NEW at \in SUBSET (1 .. cut), OptionPart(cut, at),
         NEW n \in 0 .. 1, argv[cut + 1].kind = "option",
         argv[cut + 1].text \in KnownOption,
         n = 1 <=> argv[cut + 1].text \in TakesValue
  PROVE  /\ at \cup {cut + 1} \in SUBSET (1 .. cut + 1 + n)
         /\ OptionPart(cut + 1 + n, at \cup {cut + 1})
<1> DEFINE more == at \cup {cut + 1}
<1>1. /\ \A i \in 1 .. cut : i \in more <=> i \in at
      /\ cut + 1 \in more /\ cut + 2 \notin more /\ 0 \notin more
      /\ \A i \in more : i \in at \/ i = cut + 1
  OBVIOUS
<1>2. \A i \in more : argv[i].text \in KnownOption /\ argv[i].kind = "option"
  BY <1>1 DEF OptionPart
<1>3. \A i \in 1 .. cut :
        \/ i \in more /\ (i - 1 \in more => argv[i - 1].text \notin TakesValue)
        \/ i \notin more /\ i - 1 \in more /\ argv[i - 1].text \in TakesValue
  BY <1>1 DEF OptionPart
<1>4. cut \in more => argv[cut].text \notin TakesValue
  BY <1>1 DEF OptionPart
<1>5. \A i \in 1 .. cut + 1 + n :
        i \in 1 .. cut \/ i = cut + 1 \/ (n = 1 /\ i = cut + 2)
  OBVIOUS
<1>6. \A i \in 1 .. cut + 1 + n :
        \/ i \in more /\ (i - 1 \in more => argv[i - 1].text \notin TakesValue)
        \/ i \notin more /\ i - 1 \in more /\ argv[i - 1].text \in TakesValue
  <2> TAKE i \in 1 .. cut + 1 + n
  <2>1. CASE i \in 1 .. cut
    BY <1>3, <2>1
  <2>2. CASE i = cut + 1
    <3>1. i - 1 = cut
      BY <2>2
    <3> QED
      BY <1>1, <1>4, <2>2, <3>1
  <2>3. CASE n = 1 /\ i = cut + 2
    <3>1. i - 1 = cut + 1
      BY <2>3
    <3> QED
      BY <1>1, <2>3, <3>1
  <2> QED
    BY <1>5, <2>1, <2>2, <2>3
<1>7. cut + 1 + n \in more => argv[cut + 1 + n].text \notin TakesValue
  <2>1. CASE n = 0
    BY <2>1
  <2>2. CASE n = 1
    BY <1>1, <2>2
  <2> QED
    BY <2>1, <2>2
<1>8. more \in SUBSET (1 .. cut + 1 + n)
  OBVIOUS
<1> QED
  BY <1>2, <1>6, <1>7, <1>8 DEF OptionPart

(* Every step keeps what was taken in the form of the grammar.             *)
LEMMA GrammarKept ==
  ASSUME CliTypeOK, LoopInv, GrammarInv, [CliNext]_cliVars
  PROVE  GrammarInv'
<1>0. PICK cut \in 0 .. Len(argv) :
        \E at \in SUBSET (1 .. cut) : Taken(cut, at)
  BY DEF GrammarInv
<1>1. PICK at \in SUBSET (1 .. cut) : Taken(cut, at)
  BY <1>0
<1>2. /\ OptionPart(cut, at) /\ cut + Len(positionals) = argIdx - 1
      /\ parsingOptions => Len(positionals) = 0
      /\ \A i \in cut + 1 .. argIdx - 1 : argv[i].kind # "option"
      /\ options.csvLogEnabled \/ options.terminalLogEnabled => at # {}
  BY <1>1 DEF Taken
<1> HIDE DEF OptionPart
<1>8. ASSUME NEW c \in 0 .. Len(argv), NEW s \in SUBSET (1 .. c),
             argv' = argv, Taken(c, s)'
      PROVE  GrammarInv'
  BY <1>8 DEF GrammarInv
<1>9. ASSUME NEW c, NEW s, OptionPart(c, s), argv' = argv
      PROVE  OptionPart(c, s)'
  BY <1>9 DEF OptionPart
<1>3. CASE TakeOption /\ outcome' = "usage"
  <2>1. UNCHANGED <<argv, parsingOptions, positionals, argIdx, options>>
    BY <1>3, TakeOptionEffect
  <2> QED
    BY <1>1, <2>1 DEF GrammarInv, Taken, OptionPart
<1>4. CASE TakeOption /\ outcome' # "usage"
  <2>1. /\ argIdx \in 1 .. Len(argv) /\ argv[argIdx].kind = "option"
        /\ parsingOptions /\ OptionName \in KnownOption
        /\ UNCHANGED <<argv, parsingOptions, positionals>>
        /\ argIdx' = argIdx + ValueCount + 1 /\ argIdx' \in 1 .. Len(argv) + 1
    BY <1>4, TakeOptionEffect
  <2>2. PICK n \in 0 .. 1 : /\ n = ValueCount
                            /\ n = 1 <=> argv[argIdx].text \in TakesValue
    BY Places DEF OptionName
  <2>3. cut + 1 = argIdx /\ cut \in Nat /\ Len(positionals) = 0
    BY <1>2, <2>1
  <2>4. /\ at \cup {cut + 1} \in SUBSET (1 .. cut + 1 + n)
        /\ OptionPart(cut + 1 + n, at \cup {cut + 1})
    BY <1>2, <2>1, <2>2, <2>3, OptionPartGrows DEF OptionName
  <2>5. cut + 1 + n \in 0 .. Len(argv) /\ argIdx' - 1 = cut + 1 + n
    BY <2>1, <2>2, <2>3, Places
  <2>6. Taken(cut + 1 + n, at \cup {cut + 1})'
    <3>1. OptionPart(cut + 1 + n, at \cup {cut + 1})'
      BY <2>1, <2>4, <1>9
    <3>2. cut + 1 + n + Len(positionals') = argIdx' - 1
      BY <2>1, <2>2, <2>3, <2>5
    <3>3. \A i \in cut + 1 + n + 1 .. argIdx' - 1 : FALSE
      BY <2>2, <2>3, <2>5
    <3>4. at \cup {cut + 1} # {} /\ Len(positionals') = 0
      BY <2>1, <2>3
    <3> QED
      BY <3>1, <3>2, <3>3, <3>4 DEF Taken
  <2> QED
    BY <2>1, <2>4, <2>5, <2>6, <1>8
<1>5. CASE TakePositional
  <2>1. /\ argIdx \in 1 .. Len(argv) /\ argv[argIdx].kind # "option"
        /\ ~parsingOptions' /\ UNCHANGED <<argv, options>>
        /\ argIdx' = argIdx + 1 /\ Len(positionals') = Len(positionals) + 1
    BY <1>5, TakePositionalEffect
  <2>2. cut + Len(positionals') = argIdx' - 1
    BY <1>2, <2>1, Places
  <2>3. \A i \in cut + 1 .. argIdx' - 1 : argv[i].kind # "option"
    <3>1. \A i \in cut + 1 .. argIdx' - 1 :
            i \in cut + 1 .. argIdx - 1 \/ i = argIdx
      BY <2>1, Places
    <3> QED
      BY <1>2, <2>1, <3>1
  <2>4. Taken(cut, at)'
    <3>1. OptionPart(cut, at)'
      BY <1>2, <2>1, <1>9
    <3> QED
      BY <1>2, <2>1, <2>2, <2>3, <3>1 DEF Taken
  <2> QED
    BY <2>1, <2>4, <1>8
<1>6. CASE Finish
  <2>1. /\ UNCHANGED <<argv, argIdx, parsingOptions, positionals>>
        /\ options'.csvLogEnabled = options.csvLogEnabled
        /\ options'.terminalLogEnabled = options.terminalLogEnabled
    BY <1>6, FinishEffect
  <2>2. Taken(cut, at)'
    <3>1. OptionPart(cut, at)'
      BY <1>2, <2>1, <1>9
    <3>2. options'.csvLogEnabled \/ options'.terminalLogEnabled => at # {}
      BY <1>2, <2>1
    <3> QED
      BY <1>2, <2>1, <3>1, <3>2 DEF Taken
  <2> QED
    BY <2>1, <2>2, <1>8
<1>7. CASE RefuseLateOption \/ UNCHANGED cliVars
  <2>1. UNCHANGED <<argv, parsingOptions, positionals, argIdx, options>>
    BY <1>7 DEF RefuseLateOption, Reject, cliVars
  <2> QED
    BY <1>1, <2>1 DEF GrammarInv, Taken, OptionPart
<1> QED
  BY <1>3, <1>4, <1>5, <1>6, <1>7 DEF CliNext, Finished

(* What runs was checked.                                                  *)
LEMMA RunKept ==
  ASSUME CliTypeOK, LoopInv, RunInv, [CliNext]_cliVars
  PROVE  RunInv'
<1> USE DEF RunInv
<1>1. CASE TakeOption
  BY <1>1, TakeOptionEffect
<1>2. CASE TakePositional
  BY <1>2, TakePositionalEffect
<1>3. CASE RefuseLateOption
  BY <1>3 DEF RefuseLateOption, Reject
<1>4. CASE Finish
  BY <1>4, FinishEffect DEF Acceptable, PositionalsParse,
     PositionalsParseFrom, ParsedConfig, HasSeparator, DefaultName
<1>5. CASE UNCHANGED cliVars
  BY <1>5 DEF cliVars, PositionalsParse, PositionalsParseFrom, ParsedConfig
<1> QED
  BY <1>1, <1>2, <1>3, <1>4, <1>5 DEF CliNext, Finished
-----------------------------------------------------------------------------
(* What the documented form says of the options, place by place.           *)
LEMMA DocumentedOptions ==
  ASSUME NEW cut \in 0 .. Len(argv), NEW at \in SUBSET (1 .. cut),
         Documented(cut, at)
  PROVE  /\ Len(argv) \in {cut + 2, cut + 3}
         /\ \A i \in at : /\ i \in 1 .. cut
                          /\ argv[i].kind = "option"
                          /\ argv[i].text \in KnownOption
         /\ \A i \in at : argv[i].text \in TakesValue =>
                            i + 1 \in 1 .. cut /\ i + 1 \notin at
         /\ \A i \in 1 .. cut : i \in at \/ i - 1 \in at
         /\ \A i \in at : argv[i].text \notin TakesValue /\ i < cut =>
                            i + 1 \in at
         /\ \A i \in at : argv[i].text \in TakesValue /\ i + 2 <= cut =>
                            i + 2 \in at
         /\ \A i \in cut + 1 .. Len(argv) : argv[i].kind # "option"
<1>1. Splits(cut, at)
  BY DEF Documented
<1>2. /\ \A i \in at : argv[i].text \in KnownOption /\ argv[i].kind = "option"
      /\ \A i \in cut + 1 .. Len(argv) : argv[i].kind # "option"
      /\ Len(argv) - cut \in {2, 3} /\ cut \in Nat
      /\ cut \in at => argv[cut].text \notin TakesValue
  <2>1. cut \in Nat
    OBVIOUS
  <2> QED
    BY <1>1, <2>1 DEF Splits
<1>3. \A i \in 1 .. cut :
        \/ i \in at /\ (i - 1 \in at => argv[i - 1].text \notin TakesValue)
        \/ i \notin at /\ i - 1 \in at /\ argv[i - 1].text \in TakesValue
  BY <1>1 DEF Splits
<1>4. \A i \in at : i < cut => i + 1 \in 1 .. cut /\ (i + 1) - 1 = i
  OBVIOUS
<1>5. \A i \in at : argv[i].text \in TakesValue => i < cut
  BY <1>2
<1>6. \A i \in at : argv[i].text \in TakesValue =>
                      i + 1 \in 1 .. cut /\ i + 1 \notin at
  BY <1>3, <1>4, <1>5
<1>7. \A i \in at : argv[i].text \notin TakesValue /\ i < cut => i + 1 \in at
  BY <1>3, <1>4
<1>8. \A i \in at : argv[i].text \in TakesValue /\ i + 2 <= cut => i + 2 \in at
  <2> SUFFICES ASSUME NEW i \in at, argv[i].text \in TakesValue, i + 2 <= cut
               PROVE  i + 2 \in at
    OBVIOUS
  <2>1. i + 2 \in 1 .. cut /\ (i + 2) - 1 = i + 1
    OBVIOUS
  <2> QED
    BY <1>3, <1>6, <2>1
<1>9. Len(argv) \in {cut + 2, cut + 3}
  BY <1>2
<1> QED
  BY <1>2, <1>3, <1>6, <1>7, <1>8, <1>9

(* A number that fits its type is what strtoul makes of it, and not zero.  *)
LEMMA FitsUnsigned ==
  \A a \in Arg :
    /\ Fits(a, UintRange) => ParsesUint32(a) /\ strtoul(a.value) = a.value
    /\ Fits(a, UlongRange) => ParsesUint64(a) /\ strtoul(a.value) = a.value
    /\ Fits(a, UintRange) \/ Fits(a, UlongRange) => a.value >= 1
<1> TAKE a \in Arg
<1>1. a.value \in Int
  BY ArgFields
<1>2. a.value \in 1 .. UintRange - 1 => a.value \in 1 .. UlongRange - 1
  BY <1>1, CliBounds
<1>3. a.value \in 1 .. UlongRange - 1 => strtoul(a.value) = a.value
  BY <1>1, UnsignedConversion, CliBounds
<1>4. UlongRange \in Nat
  BY CliBounds
<1> HIDE DEF UlongRange
<1> QED
  BY <1>1, <1>2, <1>3, <1>4, CliBounds DEF Fits, ParsesUint32, ParsesUint64

(* The last value of option `name` once the option at k was taken, too.    *)
LEMMA LastGrows ==
  ASSUME NEW k \in Nat, NEW s \in SUBSET (1 .. k - 1), NEW name
  PROVE  /\ argv[k].text = name =>
              LastAt(s \cup {k}, name) = {k + 1}
         /\ argv[k].text # name =>
              /\ ValuesAt(s \cup {k}, name) = ValuesAt(s, name)
              /\ LastAt(s \cup {k}, name) = LastAt(s, name)
<1>1. \A i \in ValuesAt(s, name) : i \in Int /\ i <= k
  BY DEF ValuesAt
<1>2. CASE argv[k].text = name
  <2>1. ValuesAt(s \cup {k}, name) = ValuesAt(s, name) \cup {k + 1}
    BY <1>2 DEF ValuesAt
  <2>2. \A i \in ValuesAt(s, name) : ~(k + 1 <= i)
    BY <1>1
  <2>3. \A i \in ValuesAt(s \cup {k}, name) :
          (\A j \in ValuesAt(s \cup {k}, name) : j <= i) <=> i = k + 1
    <3> DEFINE values == ValuesAt(s, name)
    <3>1. /\ \A i \in values : i \in Int /\ i <= k
          /\ ValuesAt(s \cup {k}, name) = values \cup {k + 1}
      BY <1>1, <2>1
    <3> HIDE DEF values
    <3>2. \A i \in values \cup {k + 1} : i <= k + 1
      BY <3>1
    <3>3. \A i \in values : ~(k + 1 <= i) /\ i # k + 1
      BY <3>1
    <3> QED
      BY <3>1, <3>2, <3>3
  <2>4. k + 1 \in ValuesAt(s \cup {k}, name)
    BY <2>1
  <2> HIDE DEF ValuesAt
  <2> QED
    BY <1>2, <2>3, <2>4 DEF LastAt
<1>3. CASE argv[k].text # name
  <2>1. ValuesAt(s \cup {k}, name) = ValuesAt(s, name)
    BY <1>3 DEF ValuesAt
  <2> QED
    BY <1>3, <2>1 DEF LastAt
<1> QED
  BY <1>2, <1>3

(* A text that is held stays the last one given.                           *)
LEMMA HoldsTextGrows ==
  ASSUME NEW k \in Nat, NEW s \in SUBSET (1 .. k - 1), NEW name, NEW default,
         NEW held, NEW new, HoldsText(held, s, name, default),
         new = IF argv[k].text = name THEN argv[k + 1].text ELSE held
  PROVE  HoldsText(new, s \cup {k}, name, default)
<1>1. CASE argv[k].text = name
  <2>1. LastAt(s \cup {k}, name) = {k + 1}
    BY <1>1, LastGrows
  <2> QED
    BY <1>1, <2>1 DEF HoldsText
<1>2. CASE argv[k].text # name
  BY <1>2, LastGrows DEF HoldsText
<1> QED
  BY <1>1, <1>2

(* What the options hold depends on them and on the command line only.     *)
LEMMA ValuesStay ==
  ASSUME argv' = argv, NEW s, NEW name
  PROVE  /\ ValuesAt(s, name)' = ValuesAt(s, name)
         /\ LastAt(s, name)' = LastAt(s, name)
BY DEF ValuesAt, LastAt

(* There is one such text only.                                            *)
LEMMA HeldOnce ==
  ASSUME NEW n \in Nat, NEW s \in SUBSET (1 .. n), NEW name, NEW default,
         NEW a, NEW b,
         HoldsText(a, s, name, default), HoldsText(b, s, name, default)
  PROVE  a = b
<1>1. \A i \in LastAt(s, name) : i \in ValuesAt(s, name)
  BY DEF LastAt
<1>2. \A i, j \in LastAt(s, name) : i = j
  <2>1. \A i \in ValuesAt(s, name) : i \in Int
    <3>1. \A i \in s : i + 1 \in Int
      OBVIOUS
    <3> QED
      BY <3>1 DEF ValuesAt
  <2>2. \A i, j \in LastAt(s, name) : i <= j /\ j <= i
    BY DEF LastAt
  <2> QED
    BY <1>1, <2>1, <2>2
<1> QED
  BY <1>1, <1>2 DEF HoldsText

LEMMA HoldsStay ==
  ASSUME argv' = argv, options' = options, NEW s
  PROVE  (Holds(s) => Holds(s)') /\ (HoldsAtEnd(s) => HoldsAtEnd(s)')
<1> USE ValuesStay
<1>1. HoldsLogs(s) => HoldsLogs(s)'
  BY DEF HoldsLogs
<1>2. HoldsFlushCount(s) => HoldsFlushCount(s)'
  BY DEF HoldsFlushCount
<1>3. HoldsPath(s) => HoldsPath(s)'
  BY DEF HoldsPath, HoldsText
<1>4. HoldsName(s) => HoldsName(s)'
  BY DEF HoldsName, HoldsText
<1>5. HoldsFileName(s) => HoldsFileName(s)'
  BY DEF HoldsFileName, HoldsText
<1> QED
  BY <1>1, <1>2, <1>3, <1>4, <1>5 DEF Holds, HoldsAtEnd

(* In step with the documented form, an option is taken with its value and *)
(* the loop is then at the next one, or after the last.                    *)
LEMMA OptionFollows ==
  ASSUME CliTypeOK, LoopInv, TakeOption,
         NEW cut \in 0 .. Len(argv), NEW at \in SUBSET (1 .. cut),
         Documented(cut, at), Follows(cut, at)
  PROVE  Follows(cut, at)'
<1>1. /\ argIdx \in 1 .. Len(argv) /\ argv[argIdx].kind = "option"
      /\ parsingOptions /\ outcome = "parsing"
      /\ UNCHANGED <<argv, parsingOptions, positionals>>
  BY TakeOptionEffect
<1>2. /\ argIdx <= cut + 1 /\ argIdx <= cut => argIdx \in at
      /\ Len(positionals) = 0 /\ Holds(SoFar(at))
      /\ cut \in Nat
  BY <1>1 DEF Follows
<1>3. argIdx \in at /\ argIdx \in 1 .. cut
  <2>1. argIdx \notin cut + 1 .. Len(argv)
    BY <1>1, DocumentedOptions
  <2> QED
    BY <1>1, <1>2, <2>1
<1>4. /\ OptionName \in KnownOption
      /\ ValueCount = 1 => argIdx + 1 \in 1 .. cut /\ argIdx + 1 \notin at
      /\ ValueCount = 0 \/ ValueCount = 1
  BY <1>3, DocumentedOptions, Places DEF OptionName
<1>5. ~UnknownOrIncomplete
  BY <1>1, <1>3, <1>4, Places DEF UnknownOrIncomplete
<1>6. ~BadFlushCount
  <2> SUFFICES ASSUME OptionName = "--csv-flush-samples"
               PROVE  /\ ParsesUint32(OptionValue)
                      /\ strtoul(OptionValue.value) # 0
    BY DEF BadFlushCount
  <2>1. OptionValue = argv[argIdx + 1] /\ ValueCount = 1
    BY DEF OptionValue, ValueCount, TakesValue
  <2>2. argIdx + 1 \in ValuesAt(at, "--csv-flush-samples")
    BY <1>3 DEF ValuesAt, OptionName
  <2>3. Fits(argv[argIdx + 1], UintRange)
    BY <2>2 DEF Documented
  <2>4. argv[argIdx + 1] \in Arg
    BY <1>4, <2>1, Places
  <2> QED
    BY <2>1, <2>3, <2>4, FitsUnsigned
<1>7. /\ argIdx' = argIdx + ValueCount + 1 /\ outcome' = outcome
      /\ options'.csvLogEnabled \/ options'.terminalLogEnabled
      /\ Sets(options', OptionName, OptionValue)
  BY <1>5, <1>6, TakeOptionEffect
<1>8. argIdx' <= cut + 1 /\ (argIdx' <= cut => argIdx' \in at)
  <2>1. CASE ValueCount = 0
    <3>1. argv[argIdx].text \notin TakesValue
      BY <2>1, Places DEF OptionName
    <3> QED
      BY <1>3, <1>7, <2>1, <3>1, DocumentedOptions
  <2>2. CASE ValueCount = 1
    <3>1. argv[argIdx].text \in TakesValue
      BY <2>2, Places DEF OptionName
    <3>2. argIdx' = argIdx + 2
      BY <1>7, <1>3, <2>2
    <3> QED
      BY <1>3, <1>4, <2>2, <3>1, <3>2, DocumentedOptions
  <2> QED
    BY <1>4, <2>1, <2>2
<1>9. Holds(SoFar(at))'
  <2>1. PICK k \in Nat : k = argIdx
    BY <1>1
  <2>2. PICK s \in SUBSET (1 .. k - 1) : s = SoFar(at)
    <3>1. \A i \in at : i \in 1 .. cut /\ (i < k => i \in 1 .. k - 1)
      OBVIOUS
    <3> QED
      BY <2>1, <3>1 DEF SoFar
  <2>3. SoFar(at)' = s \cup {k}
    <3>1. k \in at /\ argIdx' = k + ValueCount + 1
      BY <1>3, <1>7, <2>1
    <3>2. ValueCount = 1 => k + 1 \notin at
      BY <1>4, <2>1
    <3>3. \A i \in at : i < argIdx' <=> i < k \/ i = k
      BY <1>4, <3>1, <3>2
    <3> QED
      BY <2>1, <2>2, <3>1, <3>3 DEF SoFar
  <2>4. /\ OptionName = argv[k].text
        /\ OptionName \in TakesValue => OptionValue = argv[k + 1]
    BY <2>1 DEF OptionName, OptionValue, ValueCount
  <2>5. HoldsLogs(s) /\ HoldsFlushCount(s) /\ HoldsPath(s) /\ HoldsName(s)
    BY <1>2, <2>2 DEF Holds
  <2>6. HoldsLogs(s \cup {k})'
    BY <1>1, <1>7, <2>4, <2>5 DEF HoldsLogs, Sets
  <2>7. HoldsFlushCount(s \cup {k})'
    <3>1. CASE OptionName = "--csv-flush-samples"
      <4>1. options'.csvFlushSampleCount = argv[k + 1].value
        <5>1. OptionValue = argv[k + 1]
          BY <2>4, <3>1 DEF TakesValue
        <5>2. options'.csvFlushSampleCount = strtoul(OptionValue.value)
          BY <1>7, <3>1 DEF Sets
        <5>3. k + 1 \in ValuesAt(at, "--csv-flush-samples")
          BY <1>3, <2>1, <2>4, <3>1 DEF ValuesAt
        <5>4. Fits(argv[k + 1], UintRange)
          BY <5>3 DEF Documented
        <5>5. argv[k + 1] \in Arg
          <6>1. ValueCount = 1
            BY <3>1 DEF ValueCount, TakesValue
          <6>2. k + 1 \in 1 .. cut
            BY <1>4, <2>1, <6>1
          <6> QED
            BY <6>2, Places
        <5> QED
          BY <5>1, <5>2, <5>4, <5>5, FitsUnsigned
      <4>2. LastAt(s \cup {k}, "--csv-flush-samples") = {k + 1}
        <5>1. argv[k].text = "--csv-flush-samples"
          BY <2>4, <3>1
        <5> QED
          BY <5>1, LastGrows
      <4> QED
        BY <1>1, <4>1, <4>2, ValuesStay DEF HoldsFlushCount
    <3>2. CASE OptionName # "--csv-flush-samples"
      <4>1. options'.csvFlushSampleCount = options.csvFlushSampleCount
        BY <1>7, <3>2 DEF Sets
      <4>2. /\ ValuesAt(s \cup {k}, "--csv-flush-samples")
                = ValuesAt(s, "--csv-flush-samples")
            /\ LastAt(s \cup {k}, "--csv-flush-samples")
                = LastAt(s, "--csv-flush-samples")
        BY <2>4, <3>2, LastGrows
      <4> QED
        BY <1>1, <2>5, <4>1, <4>2, ValuesStay DEF HoldsFlushCount
    <3> QED
      BY <3>1, <3>2
  <2>8. HoldsPath(s \cup {k})'
    <3>1. PICK path : path = options'.csvDirectoryPath
      OBVIOUS
    <3>2. path = IF argv[k].text = "--csv-path"
                   THEN argv[k + 1].text ELSE options.csvDirectoryPath
      BY <1>7, <2>4, <3>1 DEF Sets, TakesValue
    <3>3. HoldsText(path, s \cup {k}, "--csv-path", ".")
      BY <2>5, <3>2, HoldsTextGrows DEF HoldsPath
    <3> QED
      BY <1>1, <3>1, <3>3, ValuesStay DEF HoldsPath, HoldsText
  <2>9. HoldsName(s \cup {k})'
    <3>1. PICK name : name = options'.csvFileName
      OBVIOUS
    <3>2. name = IF argv[k].text = "--csv-filename"
                   THEN argv[k + 1].text ELSE options.csvFileName
      BY <1>7, <2>4, <3>1 DEF Sets, TakesValue
    <3>3. HoldsText(name, s \cup {k}, "--csv-filename", "")
      BY <2>5, <3>2, HoldsTextGrows DEF HoldsName
    <3> QED
      BY <1>1, <3>1, <3>3, ValuesStay DEF HoldsName, HoldsText
  <2> HIDE DEF HoldsLogs, HoldsFlushCount, HoldsPath, HoldsName
  <2> QED
    BY <2>3, <2>6, <2>7, <2>8, <2>9 DEF Holds
<1>10. \A i \in 1 .. Len(positionals') : FALSE
  BY <1>1, <1>2
<1> QED
  BY <1>1, <1>2, <1>7, <1>8, <1>9, <1>10 DEF Follows

(* A positional is taken after the options only.                           *)
LEMMA PositionalFollows ==
  ASSUME CliTypeOK, LoopInv, TakePositional,
         NEW cut \in 0 .. Len(argv), NEW at \in SUBSET (1 .. cut),
         Documented(cut, at), Follows(cut, at)
  PROVE  Follows(cut, at)'
<1>1. /\ argIdx \in 1 .. Len(argv) /\ argv[argIdx].kind # "option"
      /\ ~parsingOptions' /\ outcome = "parsing"
      /\ UNCHANGED <<argv, options, config, outcome>>
      /\ argIdx' = argIdx + 1
      /\ Len(positionals') = Len(positionals) + 1
      /\ \A i \in 1 .. Len(positionals) : positionals'[i] = positionals[i]
      /\ positionals'[Len(positionals) + 1] = argv[argIdx]
      /\ \A i \in 1 .. Len(positionals) + 1 :
           i \in 1 .. Len(positionals) \/ i = Len(positionals) + 1
  BY TakePositionalEffect
<1>2. /\ parsingOptions <=> argIdx <= cut + 1
      /\ argIdx <= cut => argIdx \in at
      /\ parsingOptions => Len(positionals) = 0
      /\ ~parsingOptions => Len(positionals) = argIdx - 1 - cut
      /\ \A i \in 1 .. Len(positionals) : positionals[i] = argv[cut + i]
      /\ argIdx > 1 => options.csvLogEnabled \/ options.terminalLogEnabled
      /\ Holds(SoFar(at))
      /\ cut \in Nat
  BY <1>1 DEF Follows
<1>3. argIdx \notin at
  BY <1>1, DocumentedOptions
<1>4. argIdx > cut /\ Len(positionals) = argIdx - 1 - cut
  BY <1>1, <1>2, <1>3
<1>5. argIdx > 1
  <2>1. PICK i \in at : TRUE
    BY DEF Documented
  <2> QED
    BY <1>1, <1>2, <1>4, <2>1
<1>6. Len(positionals') = argIdx' - 1 - cut /\ argIdx' > cut + 1
  BY <1>1, <1>2, <1>4
<1>7. \A i \in 1 .. Len(positionals') : positionals'[i] = argv[cut + i]
  <2>1. cut + (Len(positionals) + 1) = argIdx
    BY <1>1, <1>2, <1>4
  <2> QED
    BY <1>1, <1>2, <2>1
<1>8. Holds(SoFar(at))'
  <2>1. PICK s : s = SoFar(at)
    OBVIOUS
  <2>2. SoFar(at)' = s
    <3>1. \A i \in at : i < argIdx /\ i < argIdx'
      BY <1>1, <1>2, <1>4
    <3> QED
      BY <2>1, <3>1 DEF SoFar
  <2> QED
    BY <1>1, <1>2, <2>1, <2>2, HoldsStay
<1> QED
  BY <1>1, <1>2, <1>4, <1>5, <1>6, <1>7, <1>8 DEF Follows

(* At the end of a command line of the documented form nothing is refused. *)
LEMMA DocumentedIsAcceptable ==
  ASSUME CliTypeOK, LoopInv, outcome = "parsing", argIdx = Len(argv) + 1,
         NEW cut \in 0 .. Len(argv), NEW at \in SUBSET (1 .. cut),
         Documented(cut, at), Follows(cut, at)
  PROVE  Acceptable
<1>1. /\ Len(argv) \in {cut + 2, cut + 3} /\ cut \in Nat /\ argIdx > cut + 1
      /\ Len(argv) \in Nat
  BY DocumentedOptions
<1>2. /\ Len(positionals) = Len(argv) - cut /\ argIdx > 1
      /\ \A i \in 1 .. Len(positionals) : positionals[i] = argv[cut + i]
      /\ options.csvLogEnabled \/ options.terminalLogEnabled
      /\ Holds(SoFar(at))
  BY <1>1 DEF Follows
<1>3. /\ Len(positionals) \in {2, 3} /\ 1 \in 1 .. Len(positionals)
      /\ 2 \in 1 .. Len(positionals)
      /\ Len(positionals) = 3 => 3 \in 1 .. Len(positionals)
  BY <1>1, <1>2
<1>4. /\ Fits(positionals[1], UintRange \div 2)
      /\ Fits(positionals[2], UintRange)
      /\ Len(positionals) = 3 => Fits(positionals[3], UlongRange)
  BY <1>2, <1>3 DEF Documented
<1>5. /\ positionals[1] \in Arg /\ positionals[2] \in Arg
      /\ Len(positionals) = 3 => positionals[3] \in Arg
  BY <1>3, Places
<1>6. ParsesPid(positionals[1])
  <2>1. positionals[1].kind = "number"
    BY <1>4 DEF Fits
  <2>2. positionals[1].value \in 1 .. (UintRange \div 2) - 1
    BY <1>4 DEF Fits
  <2>3. positionals[1].value \in Int
    BY <1>5, ArgFields
  <2>4. strtol(positionals[1].value) = positionals[1].value
    BY <2>2, <2>3, PidConversion
  <2> QED
    BY <2>1, <2>2, <2>3, <2>4 DEF ParsesPid
<1>7. PositionalsParse
  BY <1>3, <1>4, <1>5, <1>6, FitsUnsigned
     DEF PositionalsParse, PositionalsParseFrom
<1>8. ~HasSeparator(options.csvFileName)
  <2>1. CASE options.csvFileName = ""
    BY <2>1 DEF HasSeparator
  <2>2. CASE options.csvFileName # ""
    <3>1. SoFar(at) = at
      <4>1. \A i \in at : i < argIdx
        BY <1>1
      <4> QED
        BY <4>1 DEF SoFar
    <3>2. PICK i \in LastAt(at, "--csv-filename") :
            options.csvFileName = argv[i].text
      BY <1>2, <2>2, <3>1 DEF Holds, HoldsName, HoldsText
    <3> QED
      BY <3>2 DEF Documented
  <2> QED
    BY <2>1, <2>2
<1> QED
  BY <1>2, <1>7, <1>8 DEF Acceptable

(* Every step keeps the loop in step with the documented form.             *)
LEMMA FollowKept ==
  ASSUME CliTypeOK, LoopInv, FollowInv, [CliNext]_cliVars
  PROVE  FollowInv'
<1>1. argv' = argv
  BY TakeOptionEffect, TakePositionalEffect, FinishEffect
     DEF CliNext, RefuseLateOption, Reject, Finished, cliVars
<1> SUFFICES ASSUME NEW cut \in 0 .. Len(argv), NEW at \in SUBSET (1 .. cut),
                    Documented(cut, at), Follows(cut, at)
             PROVE  Follows(cut, at)'
  <2>1. ASSUME NEW cut, NEW at
        PROVE  Documented(cut, at)' <=> Documented(cut, at)
    BY <1>1 DEF Documented, Splits, ValuesAt, LastAt
  <2> QED
    BY <1>1, <2>1 DEF FollowInv
<1>3. CASE TakeOption
  BY <1>3, OptionFollows
<1>4. CASE TakePositional
  BY <1>4, PositionalFollows
<1>5. CASE RefuseLateOption
  <2>1. /\ argIdx \in 1 .. Len(argv) /\ argv[argIdx].kind = "option"
        /\ ~parsingOptions
    BY <1>5, Places DEF RefuseLateOption, InLoop
  <2>2. argIdx > cut + 1
    BY <2>1, Places DEF Follows
  <2> QED
    BY <2>1, <2>2, DocumentedOptions
<1>6. CASE Finish
  <2>1. /\ outcome = "parsing" /\ argIdx = Len(argv) + 1
        /\ UNCHANGED <<argv, argIdx, parsingOptions, positionals>>
    BY <1>6, FinishEffect
  <2>2. Acceptable
    BY <2>1, DocumentedIsAcceptable
  <2>3. /\ outcome' = "run"
        /\ options'.csvLogEnabled = options.csvLogEnabled
        /\ options'.terminalLogEnabled = options.terminalLogEnabled
        /\ options'.csvDirectoryPath = options.csvDirectoryPath
        /\ options'.csvFlushSampleCount = options.csvFlushSampleCount
        /\ options'.csvFileName =
             IF options.csvLogEnabled /\ options.csvFileName = ""
               THEN DefaultName ELSE options.csvFileName
    BY <1>6, <2>2, FinishEffect
  <2>4. Holds(at)
    <3>1. SoFar(at) = at
      <4>1. Len(argv) \in Nat
        BY Places
      <4>2. \A i \in at : i < argIdx
        BY <2>1, <4>1
      <4> QED
        BY <4>2 DEF SoFar
    <3> QED
      BY <2>1, <3>1 DEF Follows
  <2>5. HoldsAtEnd(at)'
    <3>1. HoldsLogs(at)' /\ HoldsFlushCount(at)' /\ HoldsPath(at)'
      BY <2>1, <2>3, <2>4, ValuesStay DEF Holds, HoldsLogs, HoldsFlushCount,
         HoldsPath, HoldsText
    <3>2. HoldsFileName(at)'
      <4>1. HoldsName(at)
        BY <2>4 DEF Holds
      <4>2. CASE options.csvLogEnabled /\ options.csvFileName = ""
        <5>1. options'.csvLogEnabled /\ options'.csvFileName = DefaultName
          BY <2>3, <4>2
        <5>2. HoldsText("", at, "--csv-filename", "")'
          BY <2>1, <4>1, <4>2, ValuesStay DEF HoldsName, HoldsText
        <5> QED
          BY <5>1, <5>2 DEF HoldsFileName
      <4>3. CASE ~(options.csvLogEnabled /\ options.csvFileName = "")
        <5>1. /\ options'.csvLogEnabled <=> options.csvLogEnabled
              /\ options'.csvFileName = options.csvFileName
          BY <2>3, <4>3
        <5>2. ~(/\ options.csvLogEnabled
                /\ HoldsText("", at, "--csv-filename", ""))
          <6>1. cut \in Nat
            OBVIOUS
          <6> QED
            BY <4>1, <4>3, <6>1, HeldOnce DEF HoldsName
        <5>3. HoldsFileName(at)
          BY <4>1, <5>2 DEF HoldsFileName, HoldsName
        <5> QED
          BY <2>1, <5>1, <5>3, ValuesStay DEF HoldsFileName, HoldsText
      <4> QED
        BY <4>2, <4>3
    <3> QED
      BY <3>1, <3>2 DEF HoldsAtEnd
  <2> QED
    BY <2>1, <2>3, <2>5 DEF Follows
<1>7. CASE UNCHANGED cliVars
  <2>1. UNCHANGED <<argv, argIdx, parsingOptions, options, positionals>>
        /\ outcome' = outcome
    BY <1>7 DEF cliVars
  <2>2. PICK s : s = SoFar(at)
    OBVIOUS
  <2>3. SoFar(at)' = s
    BY <2>1, <2>2 DEF SoFar
  <2>4. outcome' = "parsing" => Holds(SoFar(at))'
    BY <2>1, <2>2, <2>3, HoldsStay DEF Follows
  <2>5. outcome' = "run" => HoldsAtEnd(at)'
    BY <2>1, HoldsStay DEF Follows
  <2> QED
    BY <2>1, <2>4, <2>5 DEF Follows
<1> QED
  BY <1>3, <1>4, <1>5, <1>6, <1>7 DEF CliNext, Finished
-----------------------------------------------------------------------------
(* Before the first argument nothing is taken and nothing was checked.     *)
LEMMA CliInitEstablishes ==
  ASSUME CliInit
  PROVE  CliInv
<1>1. /\ argIdx = 1 /\ parsingOptions = TRUE /\ options = NoOptions
      /\ positionals = <<>> /\ config = NoConfig /\ outcome = "parsing"
  BY DEF CliInit
<1>2. PICK n \in 0 .. MaxArgs : argv \in [1 .. n -> Arg]
  BY DEF CliInit
<1>3. argv \in Seq(Arg) /\ Len(argv) = n
  BY <1>2, CliBounds
<1>4. Len(argv) \in 0 .. MaxArgs /\ MaxArgs \in Nat
  BY <1>3, CliBounds
<1>5. positionals \in Seq(Arg) /\ Len(positionals) = 0
  BY <1>1
<1>6. CliTypeOK
  <2>1. argIdx \in 1 .. MaxArgs + 1
    BY <1>1, <1>4
  <2>2. options \in OptionSet
    <3>1. "." \in Text /\ "" \in Text /\ 10 \in Nat \ {0}
      BY DEF Text
    <3> QED
      BY <1>1, <3>1 DEF NoOptions, OptionSet
  <2>3. config \in [targetPid : Int, sampleIntervalMs : Nat,
                    hasDurationLimit : BOOLEAN, profileDurationMs : Nat]
    BY <1>1 DEF NoConfig
  <2> QED
    BY <1>1, <1>3, <1>5, <2>1, <2>2, <2>3 DEF CliTypeOK, OptionSet
<1>7. LoopInv
  BY <1>1, <1>4 DEF LoopInv
<1>8. GrammarInv
  <2>1. Taken(0, {})
    <3>1. OptionPart(0, {})
      BY DEF OptionPart
    <3>2. ~options.csvLogEnabled /\ ~options.terminalLogEnabled
      BY <1>1 DEF NoOptions
    <3>3. /\ 0 + Len(positionals) = argIdx - 1
          /\ \A i \in 0 + 1 .. argIdx - 1 : FALSE
      BY <1>1, <1>5
    <3> QED
      BY <1>5, <3>1, <3>2, <3>3 DEF Taken
  <2>2. 0 \in 0 .. Len(argv) /\ {} \in SUBSET (1 .. 0)
    BY <1>4
  <2> QED
    BY <2>1, <2>2 DEF GrammarInv
<1>9. RunInv
  BY <1>1 DEF RunInv
<1>10. FollowInv
  <2> SUFFICES ASSUME NEW cut \in 0 .. Len(argv), NEW at \in SUBSET (1 .. cut),
                      Documented(cut, at)
               PROVE  Follows(cut, at)
    BY DEF FollowInv
  <2>1. cut \in Nat /\ 1 <= cut + 1
    BY <1>4
  <2>2. 1 <= cut => 1 \in at
    <3>1. 0 \notin at
      OBVIOUS
    <3>2. 1 <= cut => 1 \in at \/ 0 \in at
      BY <2>1, DocumentedOptions
    <3> QED
      BY <3>1, <3>2
  <2>3. Holds(SoFar(at))
    <3>1. SoFar(at) = {}
      <4>1. \A i \in at : ~(i < 1)
        BY <2>1
      <4> QED
        BY <1>1, <4>1 DEF SoFar
    <3>2. Holds({})
      BY <1>1 DEF Holds, HoldsLogs, HoldsFlushCount, HoldsPath, HoldsName,
         HoldsText, ValuesAt, NoOptions
    <3> QED
      BY <3>1, <3>2
  <2> QED
    BY <1>1, <1>5, <2>1, <2>2, <2>3 DEF Follows
<1> QED
  BY <1>6, <1>7, <1>8, <1>9, <1>10 DEF CliInv

(* Every step keeps the whole invariant.                                   *)
LEMMA CliStepKeeps ==
  ASSUME CliInv, [CliNext]_cliVars
  PROVE  CliInv'
<1>1. CliTypeOK /\ LoopInv /\ GrammarInv /\ RunInv /\ FollowInv
  BY DEF CliInv
<1> QED
  BY <1>1, CliTypesKept, GrammarKept, RunKept, FollowKept DEF CliInv

(* Everywhere in parseClientArguments and main the loop is within the      *)
(* command line, what it took has the documented form, a command line of   *)
(* that form was not refused, and what runs was checked.                   *)
THEOREM CliInvariant == CliSpec => []CliInv
<1>1. CliInit => CliInv
  BY CliInitEstablishes
<1>2. CliInv /\ [CliNext]_cliVars => CliInv'
  BY CliStepKeeps
<1> QED
  BY <1>1, <1>2, PTL DEF CliSpec

(* The variables have their types: no read is outside the command line, no *)
(* flush count is zero.                                                    *)
THEOREM CliTypesOK == CliSpec => []CliTypeOK
<1>1. CliInv => CliTypeOK
  BY DEF CliInv
<1> QED
  BY CliInvariant, <1>1, PTL

(* What runs has two or three positionals, all after the options.          *)
LEMMA RunPositionals ==
  ASSUME CliInv, outcome = "run"
  PROVE  /\ Len(positionals) \in {2, 3}
         /\ positionals[1] \in Arg /\ positionals[2] \in Arg
         /\ Len(positionals) = 3 => positionals[3] \in Arg
         /\ config.targetPid = ToPid(strtol(positionals[1].value))
         /\ config.sampleIntervalMs = strtoul(positionals[2].value)
         /\ config.hasDurationLimit <=> Len(positionals) = 3
         /\ config.hasDurationLimit =>
              config.profileDurationMs = strtoul(positionals[3].value)
<1>1. CliTypeOK /\ LoopInv /\ RunInv
  BY DEF CliInv
<1>2. PositionalsParse /\ config = ParsedConfig
  BY <1>1 DEF RunInv
<1>3. Len(positionals) \in {2, 3}
  BY <1>2 DEF PositionalsParse, PositionalsParseFrom
<1>4. /\ 1 \in 1 .. Len(positionals) /\ 2 \in 1 .. Len(positionals)
      /\ Len(positionals) = 3 => 3 \in 1 .. Len(positionals)
  BY <1>3
<1>5. /\ positionals[1] \in Arg /\ positionals[2] \in Arg
      /\ Len(positionals) = 3 => positionals[3] \in Arg
  BY <1>1, <1>4, Places
<1>6. CASE Len(positionals) = 3
  BY <1>2, <1>3, <1>5, <1>6 DEF ParsedConfig
<1>7. CASE Len(positionals) # 3
  BY <1>2, <1>3, <1>5, <1>7 DEF ParsedConfig
<1> QED
  BY <1>6, <1>7

(* Nothing but a command line of the documented form runs: no unknown or   *)
(* misplaced option gets past parseOptionsAndPositionals, no option        *)
(* without its value.                                                      *)
THEOREM OnlyWellFormedRuns == CliSpec => []RunIsWellFormed
<1>1. ASSUME CliInv, outcome = "run"
      PROVE  \E cut \in 0 .. Len(argv) : \E at \in SUBSET (1 .. cut) :
               Splits(cut, at) /\ at # {}
  <2>1. CliTypeOK /\ LoopInv /\ GrammarInv /\ RunInv
    BY <1>1 DEF CliInv
  <2>2. PICK cut \in 0 .. Len(argv) :
          \E at \in SUBSET (1 .. cut) : Taken(cut, at)
    BY <2>1 DEF GrammarInv
  <2>3. PICK at \in SUBSET (1 .. cut) : Taken(cut, at)
    BY <2>2
  <2>4. /\ argIdx = Len(argv) + 1
        /\ options.csvLogEnabled \/ options.terminalLogEnabled
    BY <1>1, <2>1 DEF RunInv
  <2>5. Len(positionals) \in {2, 3}
    BY <1>1, RunPositionals
  <2>6. Len(argv) - cut \in {2, 3} /\ argIdx - 1 = Len(argv)
    <3>1. Len(argv) \in Nat /\ cut \in Nat
      BY <2>1, Places
    <3>2. cut + Len(positionals) = argIdx - 1
      BY <2>3 DEF Taken
    <3>3. argIdx = Len(argv) + 1 /\ Len(positionals) \in Nat
      BY <2>1, <2>4, Places
    <3>4. Len(argv) - cut = Len(positionals) /\ argIdx - 1 = Len(argv)
      BY <3>1, <3>2, <3>3
    <3> QED
      BY <2>5, <3>4
  <2>7. Splits(cut, at) /\ at # {}
    BY <2>3, <2>4, <2>6 DEF Taken, OptionPart, Splits
  <2> QED
    BY <2>7
<1>2. CliInv => RunIsWellFormed
  BY <1>1 DEF RunIsWellFormed
<1> QED
  BY CliInvariant, <1>2, PTL

(* Every command line of the documented form runs, with its own PID,       *)
(* sampling period and, if it gives one, duration, with the logs it asks   *)
(* for and the last value it gives of every option, or the default.        *)
THEOREM EveryWellFormedRuns == CliSpec => []WellFormedRuns
<1>1. ASSUME CliInv, outcome # "parsing",
             NEW cut \in 0 .. Len(argv), NEW at \in SUBSET (1 .. cut),
             Documented(cut, at)
      PROVE  /\ outcome = "run"
             /\ config.targetPid = argv[cut + 1].value
             /\ config.sampleIntervalMs = argv[cut + 2].value
             /\ config.hasDurationLimit <=> Len(argv) - cut = 3
             /\ Len(argv) - cut = 3 =>
                  config.profileDurationMs = argv[cut + 3].value
             /\ HoldsAtEnd(at)
  <2>1. CliTypeOK /\ LoopInv /\ RunInv /\ FollowInv
    BY <1>1 DEF CliInv
  <2>2. Follows(cut, at)
    BY <1>1, <2>1 DEF FollowInv
  <2>3. outcome = "run" /\ HoldsAtEnd(at)
    BY <1>1, <2>1, <2>2 DEF Follows, CliTypeOK
  <2>4. /\ Len(argv) \in {cut + 2, cut + 3} /\ cut \in Nat
        /\ argIdx = Len(argv) + 1
    <3>1. argIdx = Len(argv) + 1
      BY <2>1, <2>3 DEF RunInv
    <3>2. Len(argv) \in {cut + 2, cut + 3}
      BY <1>1, DocumentedOptions
    <3>3. Len(argv) \in Nat
      BY <2>1, Places
    <3> QED
      BY <3>1, <3>2, <3>3
  <2>5. /\ Len(positionals) = Len(argv) - cut
        /\ \A i \in 1 .. Len(positionals) : positionals[i] = argv[cut + i]
    BY <2>2, <2>4 DEF Follows
  <2>6. /\ 1 \in 1 .. Len(positionals) /\ 2 \in 1 .. Len(positionals)
        /\ Len(positionals) = 3 => 3 \in 1 .. Len(positionals)
    BY <2>4, <2>5
  <2>7. /\ positionals[1] = argv[cut + 1] /\ positionals[2] = argv[cut + 2]
        /\ Len(positionals) = 3 => positionals[3] = argv[cut + 3]
    BY <2>5, <2>6
  <2>8. /\ Fits(positionals[1], UintRange \div 2)
        /\ Fits(positionals[2], UintRange)
        /\ Len(positionals) = 3 => Fits(positionals[3], UlongRange)
    BY <1>1, <2>5, <2>7 DEF Documented
  <2>9. /\ positionals[1] \in Arg /\ positionals[2] \in Arg
        /\ Len(positionals) = 3 => positionals[3] \in Arg
    BY <2>1, <2>6, Places
  <2>10. ToPid(strtol(positionals[1].value)) = positionals[1].value
    <3>1. positionals[1].value \in 1 .. (UintRange \div 2) - 1
      BY <2>8 DEF Fits
    <3>2. positionals[1].value \in Int
      BY <2>9, ArgFields
    <3> QED
      BY <3>1, <3>2, PidConversion
  <2>11. /\ config.targetPid = positionals[1].value
         /\ config.sampleIntervalMs = positionals[2].value
         /\ config.hasDurationLimit <=> Len(positionals) = 3
         /\ Len(positionals) = 3 =>
              config.profileDurationMs = positionals[3].value
    BY <1>1, <2>3, <2>8, <2>9, <2>10, FitsUnsigned, RunPositionals
  <2> QED
    BY <2>3, <2>5, <2>7, <2>11
<1>2. CliInv => WellFormedRuns
  BY <1>1 DEF WellFormedRuns, HoldsAtEnd, HoldsPath
<1> QED
  BY CliInvariant, <1>2, PTL

(* Whatever runs has a sampling period and a limit that are not zero, a    *)
(* logger, CSV options create accepts, and a PID, a period and a limit     *)
(* that are those given, where these are positive and fit their types; a   *)
(* PID that does not fit is not refused, and becomes another one.          *)
THEOREM RunsAreUsable == CliSpec => []RunIsUsable
<1>1. ASSUME CliInv, outcome = "run"
      PROVE  RunIsUsable
  <2>1. CliTypeOK /\ LoopInv /\ RunInv
    BY <1>1 DEF CliInv
  <2>2. PositionalsParse
    BY <1>1, <2>1 DEF RunInv
  <2>3. /\ positionals[1].value \in Int /\ positionals[2].value \in Int
        /\ Len(positionals) = 3 => positionals[3].value \in Int
    BY <1>1, RunPositionals, ArgFields
  <2>4. /\ strtoul(positionals[2].value) \in Nat
        /\ strtoul(positionals[2].value) < UintRange
        /\ strtoul(positionals[2].value) >= 1
        /\ Len(positionals) = 3 => strtoul(positionals[3].value) # 0
    BY <2>2, <2>3, UnsignedConversion
       DEF PositionalsParse, PositionalsParseFrom, ParsesUint32
  <2>5. config.sampleIntervalMs \in 1 .. UintRange - 1
    BY <1>1, <2>4, RunPositionals, CliBounds
  <2>6. positionals[2].value > 0 =>
          config.sampleIntervalMs = positionals[2].value
    BY <1>1, <2>3, <2>4, RunPositionals, UnsignedConversion
  <2>7. config.hasDurationLimit <=> Len(positionals) = 3
    BY <1>1, RunPositionals
  <2>8. config.hasDurationLimit =>
          /\ config.profileDurationMs # 0
          /\ positionals[3].value \in 0 .. UlongRange - 1 =>
               config.profileDurationMs = positionals[3].value
    BY <1>1, <2>3, <2>4, RunPositionals, UnsignedConversion
  <2>9. /\ ~HasSeparator(options.csvFileName)
        /\ options.csvLogEnabled => options.csvFileName # ""
        /\ options.csvLogEnabled \/ options.terminalLogEnabled
    BY <1>1, <2>1 DEF RunInv
  <2>10. options.csvFlushSampleCount # 0
    BY <2>1 DEF CliTypeOK
  <2>11. /\ positionals[1].value > 0
         /\ positionals[1].value < UintRange \div 2 =>
              config.targetPid = positionals[1].value
    <3>1. strtol(positionals[1].value) > 0
      BY <2>2 DEF PositionalsParse, PositionalsParseFrom, ParsesPid
    <3>2. positionals[1].value > 0
      BY <2>3, <3>1, CliBounds DEF strtol
    <3>3. config.targetPid = ToPid(strtol(positionals[1].value))
      BY <1>1, RunPositionals
    <3>4. ASSUME positionals[1].value < UintRange \div 2
          PROVE  positionals[1].value \in 1 .. (UintRange \div 2) - 1
      BY <2>3, <3>2, <3>4, CliBounds
    <3> QED
      BY <2>3, <3>2, <3>3, <3>4, PidConversion
  <2> QED
    BY <2>5, <2>6, <2>7, <2>8, <2>9, <2>10, <2>11 DEF RunIsUsable
<1>2. CliInv => RunIsUsable
  BY <1>1 DEF RunIsUsable
<1> QED
  BY CliInvariant, <1>2, PTL
=============================================================================
