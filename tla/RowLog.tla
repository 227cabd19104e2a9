------------------------------ MODULE RowLog ------------------------------
(***************************************************************************)
(* What a buffered row logger promises, without buffers or streams: rows   *)
(* are logged one by one and saved in the same order, at the logger's own  *)
(* pace, and while writing works fewer than Limit logged rows are unsaved  *)
(* whenever another one is accepted.  A logger that is closed has saved    *)
(* them all, unless writing failed; one that is killed saves no more.      *)
(***************************************************************************)
EXTENDS Integers

CONSTANT Limit  (* unsaved rows that make the logger save before it goes on*)

VARIABLES
  state,        (* "new", "open", "closed" or "killed"                     *)
  logged,       (* rows 1 .. logged were logged                            *)
  saved,        (* rows 1 .. saved are in the file                         *)
  broken        (* writing failed                                          *)

logVars == <<state, logged, saved, broken>>

LogInit == state = "new" /\ logged = 0 /\ saved = 0 /\ broken = FALSE

Open ==
  /\ state = "new"
  /\ state' \in {"open", "closed"}
  /\ UNCHANGED <<logged, saved, broken>>

Log ==
  /\ state = "open"
  /\ broken \/ logged - saved < Limit
  /\ logged' = logged + 1
  /\ UNCHANGED <<state, saved, broken>>

Save ==
  /\ state = "open"
  /\ saved' \in saved .. logged
  /\ broken' \in {broken, TRUE}
  /\ UNCHANGED <<state, logged>>

Close ==
  /\ state = "open"
  /\ state' = "closed"
  /\ saved' \in saved .. logged
  /\ broken \/ saved' = logged
  /\ UNCHANGED <<logged, broken>>

Kill ==
  /\ state = "open"
  /\ state' = "killed"
  /\ UNCHANGED <<logged, saved, broken>>

LogNext == Open \/ Log \/ Save \/ Close \/ Kill

LogSpec == LogInit /\ [][LogNext]_logVars
=============================================================================
