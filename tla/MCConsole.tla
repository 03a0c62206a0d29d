------------------------------ MODULE MCConsole ------------------------------
(***************************************************************************)
(* Small buffers for TLC: a command line of three keys, an output buffer   *)
(* that two chunks overflow, and a one-letter "exit".                      *)
(***************************************************************************)
EXTENDS Console

CONSTANTS a, x

MCExitWord == <<x>>
=============================================================================
