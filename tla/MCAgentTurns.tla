---------------------------- MODULE MCAgentTurns ----------------------------
(* The agent on a few requests and tools, for TLC. *)
EXTENDS AgentTurnsProps

CONSTANTS look, edit

(* A tool that runs at once, and one a person is asked about. *)
LookAndEdit == [t \in {look, edit} |-> IF t = edit THEN "ask" ELSE "auto"]
EditOnly == [t \in {edit} |-> "ask"]
=============================================================================
