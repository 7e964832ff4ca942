---------------------------- MODULE MCMcpServer ----------------------------
(***************************************************************************)
(* McpServer for TLC: two calls at once, over a tool that reads, one that  *)
(* gathers into a directory, and one that execs and cannot be told not to. *)
(***************************************************************************)
EXTENDS McpServer

CONSTANTS c1, c2, topology, gather, shell, nsA, nsB, nsCtx

MCCalls == {c1, c2}
MCTools == {topology, gather, shell}
MCExecTools == {gather, shell}
MCNoExecTools == {gather}
MCDirTools == {gather}
MCNsTools == {topology}
MCNamespaces == {nsA, nsB, nsCtx}
=============================================================================
