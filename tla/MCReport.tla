------------------------------- MODULE MCReport --------------------------------
(* Instance of ReportPipeline for TLC.  The rows meet at the threshold: a user *)
(* who starts at 8 answers an assistant that ends at 1 after more than 6, one  *)
(* that ends at 2 after exactly 6, and one that ends at 3 in time.             *)
EXTENDS ReportPipeline

R(role, time, endTime) == [role |-> role, time |-> time, endTime |-> endTime]

MCRow == {R("bot", 0, 1), R("bot", 1, 2), R("bot", 2, 3), R("bot", -1, 2),
          R("user", 8, 9), R("user", 9, 8), R("tool", 4, 4)}

Say(role) == [role |-> role, text |-> TRUE]
CallTool == [role |-> "assistant", text |-> FALSE]

MCFormatted == {<< >>, <<Say("user"), Say("assistant")>>,
                <<Say("system"), Say("assistant"), CallTool, Say("user")>>,
                <<Say("assistant"), Say("user"), Say("assistant"), Say("user")>>}

MCTiming == {[latencies |-> << >>, duration |-> 300], [latencies |-> <<-1, 2885, 3100>>, duration |-> 450]}

Terminating == phase = "done" /\ runs = MaxRuns /\ UNCHANGED reportVars
MCNext == ReportNext \/ Terminating
MCSpec == ReportInit /\ [][MCNext]_reportVars
===============================================================================
