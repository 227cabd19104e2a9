----------------------------- MODULE CliParsing -----------------------------
(***************************************************************************)
(* The command line: parseClientArguments of client/CliParsing.cpp and the *)
(* checks main makes on its result.                                        *)
(*                                                                         *)
(* An argument is a record: its kind ("option" for a text that starts with *)
(* two dashes, "number" for one that strtol and strtoul consume entirely,  *)
(* "word" for any other), its text and, for a number, its value.  Integer  *)
(* types are two's complement, and their ranges are parameters, so that    *)
(* truncation and clamping can be seen on small values.                    *)
(***************************************************************************)
EXTENDS Integers, SequencesExt

CONSTANTS
  Arg,        (* the arguments that may be given                           *)
  MaxArgs,    (* bound: how many are given                                 *)
  UintRange,  (* 2^32: the values of uint32_t, and of pid_t                *)
  LongRange   (* 2^63: the values of long that are not negative            *)

ASSUME CliAssumption ==
  /\ Arg \subseteq [kind : {"option", "number", "word"}, text : STRING,
                    value : Int]
  /\ {MaxArgs, UintRange, LongRange} \subseteq Nat \ {0}
  /\ UintRange <= LongRange

VARIABLES
  argv,            (* the arguments after the program's name               *)
  argIdx,          (* the loop of parseOptionsAndPositionals               *)
  parsingOptions,
  options,         (* *pOptions                                            *)
  positionals,     (* *pPositionals                                        *)
  config,          (* *pConfig                                             *)
  outcome          (* "parsing", "usage" (printUsage, exit 1) or "run"     *)

cliVars == <<argv, argIdx, parsingOptions, options, positionals, config,
             outcome>>

(* The values of unsigned long and uint64_t.                               *)
UlongRange == 2 * LongRange

(* strtol clamps to the range of long.                                     *)
strtol(n) == IF n >= LongRange THEN LongRange - 1
             ELSE IF n < -LongRange THEN -LongRange ELSE n

(* strtoul clamps too large a magnitude, and negates modulo the range.     *)
strtoul(n) == IF n >= UlongRange \/ n <= -UlongRange THEN UlongRange - 1
              ELSE n % UlongRange

(* static_cast<pid_t> of a long.                                           *)
ToPid(n) == LET half == UintRange \div 2 IN ((n + half) % UintRange) - half

ParsesUint32(a) == a.kind = "number" /\ strtoul(a.value) < UintRange
ParsesUint64(a) == a.kind = "number"
ParsesPid(a) == a.kind = "number" /\ strtol(a.value) > 0

(* find_first_of a separator in the text of an argument.                   *)
HasSeparator(text) == text = "a/b"

(* buildDefaultCsvFileName: a time stamp and the PID.                      *)
DefaultName == "default"

NoOptions == [terminalLogEnabled |-> FALSE, csvLogEnabled |-> FALSE,
              csvDirectoryPath |-> ".", csvFileName |-> "",
              csvFlushSampleCount |-> 10]

NoConfig == [targetPid |-> 0, sampleIntervalMs |-> 0,
             hasDurationLimit |-> FALSE, profileDurationMs |-> 0]

(* The texts an option can hold: those that were given, and the defaults.  *)
Text == {a.text : a \in Arg} \cup {".", "", DefaultName}

CliTypeOK ==
  /\ argv \in Seq(Arg)
  /\ argIdx \in 1 .. MaxArgs + 1
  /\ parsingOptions \in BOOLEAN
  /\ options \in [terminalLogEnabled : BOOLEAN, csvLogEnabled : BOOLEAN,
                   csvDirectoryPath : Text, csvFileName : Text,
                   csvFlushSampleCount : Nat \ {0}]
  /\ positionals \in Seq(Arg)
  /\ config \in [targetPid : Int, sampleIntervalMs : Nat,
                  hasDurationLimit : BOOLEAN, profileDurationMs : Nat]
  /\ outcome \in {"parsing", "usage", "run"}

CliInit ==
  /\ argv \in UNION {[1 .. n -> Arg] : n \in 0 .. MaxArgs}
  /\ argIdx = 1
  /\ parsingOptions = TRUE
  /\ options = NoOptions
  /\ positionals = <<>>
  /\ config = NoConfig
  /\ outcome = "parsing"

-----------------------------------------------------------------------------
TakesValue == {"--csv-path", "--csv-filename", "--csv-flush-samples"}
KnownOption == TakesValue \cup {"--terminal-log", "--csv-log"}

(* The options once option `name` with value `v` was taken.                *)
Apply(name, v) ==
  CASE name = "--terminal-log" ->
         [options EXCEPT !.terminalLogEnabled = TRUE]
    [] name = "--csv-log" ->
         [options EXCEPT !.csvLogEnabled = TRUE]
    [] name = "--csv-path" ->
         [options EXCEPT !.csvLogEnabled = TRUE, !.csvDirectoryPath = v.text]
    [] name = "--csv-filename" ->
         [options EXCEPT !.csvLogEnabled = TRUE, !.csvFileName = v.text]
    [] name = "--csv-flush-samples" ->
         [options EXCEPT !.csvLogEnabled = TRUE,
                         !.csvFlushSampleCount = strtoul(v.value)]

Reject ==
  /\ outcome' = "usage"
  /\ UNCHANGED <<argv, argIdx, parsingOptions, options, positionals, config>>

InLoop == outcome = "parsing" /\ argIdx <= Len(argv)

OptionName == argv[argIdx].text
ValueCount == IF OptionName \in TakesValue THEN 1 ELSE 0
OptionValue == argv[argIdx + ValueCount]

(* An option takes the next argument as its value, whatever that is.       *)
TakeOptionUnless(refused) ==
  /\ InLoop
  /\ argv[argIdx].kind = "option"
  /\ parsingOptions
  /\ IF refused
       THEN Reject
       ELSE /\ options' = Apply(OptionName, OptionValue)
            /\ argIdx' = argIdx + ValueCount + 1
            /\ UNCHANGED <<argv, parsingOptions, positionals, config, outcome>>

UnknownOrIncomplete ==
  OptionName \notin KnownOption \/ argIdx + ValueCount > Len(argv)

BadFlushCount ==
  /\ OptionName = "--csv-flush-samples"
  /\ ~(ParsesUint32(OptionValue) /\ strtoul(OptionValue.value) # 0)

(* Mutants: a flush count of zero is accepted; an option does not take     *)
(* another option for its value.                                           *)
TakeOptionAllowingZero ==
  TakeOptionUnless(\/ UnknownOrIncomplete
                   \/ BadFlushCount /\ ~ParsesUint32(OptionValue))
TakeOptionOnlyBeforeValue ==
  TakeOptionUnless(\/ UnknownOrIncomplete \/ BadFlushCount
                   \/ ValueCount = 1 /\ OptionValue.kind = "option")

TakeOption == TakeOptionUnless(UnknownOrIncomplete \/ BadFlushCount)

TakePositionalThen(parseOptions) ==
  /\ InLoop
  /\ argv[argIdx].kind # "option"
  /\ parsingOptions' = parseOptions
  /\ positionals' = Append(positionals, argv[argIdx])
  /\ argIdx' = argIdx + 1
  /\ UNCHANGED <<argv, options, config, outcome>>

(* Mutant: options are still taken after a positional.                     *)
TakePositionalAnywhere == TakePositionalThen(parsingOptions)

(* The first positional ends the options.                                  *)
TakePositional == TakePositionalThen(FALSE)

RefuseLateOption ==
  /\ InLoop
  /\ argv[argIdx].kind = "option"
  /\ ~parsingOptions
  /\ Reject

(* The checks of parseClientArguments on the positionals.                  *)
PositionalsParseFrom(leastInterval) ==
  /\ Len(positionals) \in {2, 3}
  /\ ParsesPid(positionals[1])
  /\ ParsesUint32(positionals[2])
  /\ strtoul(positionals[2].value) >= leastInterval
  /\ Len(positionals) = 3 =>
       ParsesUint64(positionals[3]) /\ strtoul(positionals[3].value) # 0

(* Mutant: a sampling period of zero is accepted.                          *)
PositionalsParseWithZero == PositionalsParseFrom(0)

PositionalsParse == PositionalsParseFrom(1)

ParsedConfig ==
  [targetPid |-> ToPid(strtol(positionals[1].value)),
   sampleIntervalMs |-> strtoul(positionals[2].value),
   hasDurationLimit |-> Len(positionals) = 3,
   profileDurationMs |-> IF Len(positionals) = 3
                           THEN strtoul(positionals[3].value) ELSE 0]

(* The rest of parseClientArguments, and main up to the app.               *)
Finish ==
  /\ outcome = "parsing"
  /\ argIdx > Len(argv)
  /\ IF /\ PositionalsParse
        /\ ~HasSeparator(options.csvFileName)
        /\ options.terminalLogEnabled \/ options.csvLogEnabled
       THEN /\ outcome' = "run"
            /\ config' = ParsedConfig
            /\ options' = IF options.csvLogEnabled /\ options.csvFileName = ""
                            THEN [options EXCEPT !.csvFileName = DefaultName]
                            ELSE options
            /\ UNCHANGED <<argv, argIdx, parsingOptions, positionals>>
       ELSE Reject

Finished == outcome # "parsing" /\ UNCHANGED cliVars

CliNext ==
  \/ TakeOption \/ TakePositional \/ RefuseLateOption
  \/ Finish \/ Finished

CliSpec == CliInit /\ [][CliNext]_cliVars

-----------------------------------------------------------------------------
(* The grammar, stated on a whole command line.  The options are at the    *)
(* positions `at` of its first `cut` arguments, each followed by its value *)
(* if it takes one; two or three positionals follow.                       *)
Splits(cut, at) ==
  /\ \A i \in at : argv[i].text \in KnownOption /\ argv[i].kind = "option"
  /\ \A i \in 1 .. cut :
       \/ i \in at /\ (i - 1 \in at => argv[i - 1].text \notin TakesValue)
       \/ i \notin at /\ i - 1 \in at /\ argv[i - 1].text \in TakesValue
  /\ cut \in at => argv[cut].text \notin TakesValue
  /\ \A i \in cut + 1 .. Len(argv) : argv[i].kind # "option"
  /\ Len(argv) - cut \in {2, 3}

(* n is written as a number of the given range, other than zero.           *)
Fits(a, range) == a.kind = "number" /\ a.value \in 1 .. range - 1

(* The places of the values given to option `name`, and the last of them:  *)
(* none, or one.                                                           *)
ValuesAt(at, name) == {i + 1 : i \in {j \in at : argv[j].text = name}}
LastAt(at, name) ==
  {i \in ValuesAt(at, name) : \A j \in ValuesAt(at, name) : j <= i}

Documented(cut, at) ==
  /\ Splits(cut, at)
  /\ at # {}
  /\ \A i \in ValuesAt(at, "--csv-flush-samples") : Fits(argv[i], UintRange)
  /\ \A i \in LastAt(at, "--csv-filename") : ~HasSeparator(argv[i].text)
  /\ Fits(argv[cut + 1], UintRange \div 2)
  /\ Fits(argv[cut + 2], UintRange)
  /\ Len(argv) - cut = 3 => Fits(argv[cut + 3], UlongRange)

(* What is held for option `name` is the last text given to it, or else    *)
(* the default.                                                            *)
HoldsText(held, at, name, default) ==
  \/ ValuesAt(at, name) = {} /\ held = default
  \/ \E i \in LastAt(at, name) : held = argv[i].text

HoldsFlushCount(at) ==
  LET given == LastAt(at, "--csv-flush-samples")
      held == options.csvFlushSampleCount
  IN  \/ ValuesAt(at, "--csv-flush-samples") = {} /\ held = 10
      \/ \E i \in given : held = argv[i].value

(* The logs that are on are those that were asked for, and every option of *)
(* the CSV log asks for it.                                                *)
HoldsLogs(at) ==
  /\ options.terminalLogEnabled <=>
       \E i \in at : argv[i].text = "--terminal-log"
  /\ options.csvLogEnabled <=> \E i \in at : argv[i].text # "--terminal-log"

(* A CSV log without a file name, or with an empty one, has the default.   *)
HoldsFileName(at) ==
  LET isGiven(name) == HoldsText(name, at, "--csv-filename", "") IN
  IF options.csvLogEnabled /\ isGiven("")
    THEN options.csvFileName = DefaultName
    ELSE isGiven(options.csvFileName)

(* Every command line of the documented form runs, whatever the order and  *)
(* the repetition of its options, a value that looks like an option        *)
(* included; with its own PID and sampling period, with a limit if and     *)
(* only if it gives one, with its logs, and of each option with the value  *)
(* given last, or the documented default.                                  *)
WellFormedRuns ==
  outcome # "parsing" =>
    \A cut \in 0 .. Len(argv) : \A at \in SUBSET (1 .. cut) :
      Documented(cut, at) =>
        /\ outcome = "run"
        /\ config.targetPid = argv[cut + 1].value
        /\ config.sampleIntervalMs = argv[cut + 2].value
        /\ config.hasDurationLimit <=> Len(argv) - cut = 3
        /\ Len(argv) - cut = 3 =>
             config.profileDurationMs = argv[cut + 3].value
        /\ HoldsLogs(at) /\ HoldsFlushCount(at) /\ HoldsFileName(at)
        /\ HoldsText(options.csvDirectoryPath, at, "--csv-path", ".")

(* Nothing else runs: no misplaced or unknown option, no missing value.    *)
RunIsWellFormed ==
  outcome = "run" =>
    \E cut \in 0 .. Len(argv) : \E at \in SUBSET (1 .. cut) :
      Splits(cut, at) /\ at # {}

(* Whatever is run has a sampling period and a limit other than zero, a    *)
(* logger, and CSV options that create does not refuse; and of its         *)
(* positionals each is the number that was given, if that was positive and *)
(* fits its type.  A PID that is too large is not refused: the cast makes  *)
(* any other number of it, zero and negative ones included, and nothing is *)
(* said of that one.                                                       *)
RunIsUsable ==
  outcome = "run" =>
    /\ positionals[1].value > 0
    /\ positionals[1].value < UintRange \div 2 =>
         config.targetPid = positionals[1].value
    /\ config.sampleIntervalMs \in 1 .. UintRange - 1
    /\ positionals[2].value > 0 =>
         config.sampleIntervalMs = positionals[2].value
    /\ config.hasDurationLimit <=> Len(positionals) = 3
    /\ config.hasDurationLimit =>
         /\ config.profileDurationMs # 0
         /\ positionals[3].value \in 0 .. UlongRange - 1 =>
              config.profileDurationMs = positionals[3].value
    /\ options.csvLogEnabled =>
         /\ options.csvFileName # ""
         /\ ~HasSeparator(options.csvFileName)
         /\ options.csvFlushSampleCount # 0
    /\ options.csvLogEnabled \/ options.terminalLogEnabled
=============================================================================
