----------------------------- MODULE MCCmdRunner -----------------------------
(* Scripts of up to four lines, a pipe that holds two.                      *)
EXTENDS CmdRunner
=============================================================================
