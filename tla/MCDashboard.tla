------------------------------ MODULE MCDashboard -----------------------------
(* One browser for TLC: two tabs, the first with two calls that can meet the   *)
(* same 401, and a client elsewhere that logs out.                             *)
EXTENDS Dashboard, TLC

CONSTANTS t1, t2, r1, r2

MCTabOf == [r \in Call |-> t1]
MCConn == (Call \X {"query", "refresh"}) \union (Tab \X {"form"}) \union {<<None, "logout">>}

Symmetry == Permutations({r1, r2})
===============================================================================
