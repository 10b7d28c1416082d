----------------------------- MODULE Identifiers ------------------------------
(* The values every store is keyed by.                                         *)
CONSTANTS
  Call,  \* Vapi call ids, which are the session ids
  None   \* no call, no process, no entry

ASSUME NoneAssumption == None \notin Call
===============================================================================
