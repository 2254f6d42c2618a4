----------------------------- MODULE MCOperations -----------------------------
(* Instance of LogSink and Server for TLC, side by side: a behaviour is one of *)
(* the log sink or one of the process, chosen at the start, so that their      *)
(* states add up instead of multiplying.  What is asked of fairness is met in  *)
(* the initial states, so that it asks nothing of the one that does not run.   *)
EXTENDS LogSink, ServerPart

VARIABLE part    \* the part that runs

processVars == <<starts, main, stopper, signalled, grpc, http, pool, call, queue, timedOut,
                 job, work>>

MCInit == part \in {"sink", "process"} /\ Init /\ Srv!Init

MCNext ==
    /\ \/ part = "sink" /\ Next /\ UNCHANGED processVars
       \/ part = "process" /\ Srv!Next /\ UNCHANGED vars
    /\ UNCHANGED part

MCSpec == MCInit /\ [][MCNext]_<<part, vars, processVars>> /\ Fairness /\ Srv!Fairness
=============================================================================
