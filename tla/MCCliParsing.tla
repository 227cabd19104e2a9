---------------------------- MODULE MCCliParsing ----------------------------
(* Instance of CliParsing for TLC: every option, an unknown one, words and *)
(* numbers around the bounds of 3-bit and 5-bit integers.                  *)
EXTENDS CliParsing

Option(t) == [kind |-> "option", text |-> t, value |-> 0]
Word(t) == [kind |-> "word", text |-> t, value |-> 0]
Number(n) == [kind |-> "number", text |-> ToString(n), value |-> n]

(* 3 is the largest pid_t, 8 the smallest number that is no uint32_t, and  *)
(* -31 becomes 1 when it is read as unsigned.                              *)
MCArg ==
  {Option(t) : t \in KnownOption \cup {"--bogus"}}
    \cup {Word(t) : t \in {"", "a/b"}}
    \cup {Number(n) : n \in {-31, 0, 3, 8, 32}}
=============================================================================
