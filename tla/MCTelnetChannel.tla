-------------------------- MODULE MCTelnetChannel --------------------------
(* The TelnetChannel runs: two tool calls that share one client.             *)
EXTENDS TelnetChannel

CONSTANTS c1, c2
=============================================================================
