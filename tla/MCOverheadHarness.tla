------------------------- MODULE MCOverheadHarness -------------------------
(* Instance of OverheadHarness for TLC.  One list has both backends, one   *)
(* has ebpf twice, so that the second finds the CSV file of the first; the *)
(* others cannot be used.                                                  *)
EXTENDS OverheadHarness

MCSelections ==
  {<<"perf", "ebpf">>, <<"ebpf", "ebpf">>, <<"perf", "other">>, <<>>}
=============================================================================
