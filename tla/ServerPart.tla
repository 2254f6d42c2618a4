----------------------------- MODULE ServerPart -----------------------------
(***************************************************************************)
(* Server under names of its own, so that a module about another part of   *)
(* the process can be used beside it: the constants and variables, what is *)
(* assumed of the constants, and what the component promises.              *)
(***************************************************************************)
CONSTANTS GrpcCalls, HttpCalls, Streams, Jobs, MaxStarts
VARIABLES starts, main, stopper, signalled, grpc, http, pool, call, queue, timedOut, job, work

Srv == INSTANCE Server

ASSUME ProcessAssumption == Srv!ServerAssumption

-----------------------------------------------------------------------------
\* The connection pool outlives those who use it (main.go, the shutdown).
PoolOutlivesItsUsers == Srv!PoolOutlivesItsUsers

\* A process that leaves by itself leaves no request and no query behind it
\* (main.go, idleConnsClosed).
ExitCutsNobody == Srv!ExitCutsNobody

\* A signalled process is gone in the end if the clients of its streams leave,
\* unless HTTP came up after its own shutdown (main.go).
ShutdownFinishes == Srv!ShutdownFinishes

\* A job that was enqueued is done in the end once a process with a queue stays
\* up (queue/queue.go).
NoJobForgotten == Srv!NoJobForgotten
=============================================================================
