---------------------------- MODULE MCRunManager ----------------------------
(* The run manager on small sets of runs, for TLC. *)
EXTENDS RunManagerProps

(* The default condition of a wait(), and no wait() at all. *)
WaitTerminal == {Terminal}
WaitNothing == {}
=============================================================================
