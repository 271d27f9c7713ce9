-------------------------- MODULE MCTerminalShells --------------------------
(* Small instances of TerminalShells.                                       *)
EXTENDS TerminalShells, TLC

CONSTANTS v1, v2

SecondTwice == [v \in Viewers |-> IF v = v1 THEN 1 ELSE 2]
FirstTwice == [v \in Viewers |-> IF v = v1 THEN 2 ELSE 1]
=============================================================================
