----------------------------- MODULE MCOperations -----------------------------
(* The instance of Operations for TLC: the messages and plans of MCPlatform.   *)
EXTENDS MCPlatform, Operations

CONSTANTS id1, id2, r1
===============================================================================
