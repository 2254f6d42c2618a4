-------------------------------- MODULE Server --------------------------------
(***************************************************************************)
(* The life of the server process (cmd/server/main.go): it opens the       *)
(* connection pool, starts the job queue, serves gRPC and then HTTP; a     *)
(* signal makes a goroutine stop the queue, drain gRPC, drain HTTP, close  *)
(* the caches and close the pool, in this order, while main waits for it.  *)
(* A gRPC port that is taken ends main at once: it closes the pool and     *)
(* stops nothing.                                                          *)
(*                                                                         *)
(* The process can also die at any point, and be started again.  Jobs are  *)
(* rows of the database: River (external) runs them, and puts a job back   *)
(* whose process is gone.  Calls are requests of clients; some of them     *)
(* stream until the client goes away (gRPC StreamTelemetry, HTTP           *)
(* /health/stream).  The model is that of a server with a database.        *)
(***************************************************************************)
EXTENDS Naturals

CONSTANTS
    GrpcCalls,    \* gRPC requests
    HttpCalls,    \* HTTP requests
    Streams,      \* those that last until their client leaves
    Jobs,         \* process_file jobs
    MaxStarts     \* bound: how often the process is started

Calls == GrpcCalls \cup HttpCalls

\* What is assumed of the constants.
ServerAssumption ==
    /\ Streams \subseteq Calls
    /\ GrpcCalls \cap HttpCalls = {}
    /\ MaxStarts \in Nat \ {0}

VARIABLES
    starts,      \* how often the process was started
    main,        \* where the main goroutine is
    stopper,     \* where the goroutine that waits for the signal is
    signalled,   \* the signal has arrived at the channel
    grpc, http,  \* the two servers
    pool,        \* the connection pool
    call,        \* call[c]: the state of request c
    queue,       \* the job queue of the process
    timedOut,    \* stopping the queue took more than five seconds
    job,         \* job[j]: the row of job j
    work         \* work[j]: what a worker of this process does with it

serverVars == <<main, stopper, signalled, grpc, http>>
jobVars == <<queue, timedOut, job, work>>
vars == <<starts, serverVars, pool, call, jobVars>>

TypeOK ==
    /\ starts \in 0..MaxStarts
    /\ main \in {"down", "booting", "failed", "serving", "listening", "waiting", "exited"}
    /\ stopper \in {"none", "starting", "armed", "queue", "grpc", "http",
                    "caches", "closing", "closed"}
    /\ signalled \in BOOLEAN
    /\ grpc \in {"down", "up", "draining"}
    /\ http \in {"down", "up", "draining"}
    /\ pool \in {"open", "closed"}
    /\ call \in [Calls -> {"none", "running", "over"}]
    /\ queue \in {"off", "on", "stopping"}
    /\ timedOut \in BOOLEAN
    /\ job \in [Jobs -> {"none", "available", "running", "done"}]
    /\ work \in [Jobs -> {"none", "working", "querying", "broken"}]

Running(cs) == {c \in cs : call[c] = "running"}
AtWork == {j \in Jobs : work[j] \in {"working", "querying"}}
Up == main \notin {"down", "exited"}

\* Shutdown does nothing to a server that does not listen yet: when the signal
\* comes between Notify and Listen, HTTP may come up after its own shutdown.
\* Nothing ends this process but a kill.
ListensLate == http = "up" /\ stopper \in {"caches", "closing", "closed"}

\* What is left of a process that is gone: the rows of the jobs.
ProcessGone ==
    /\ stopper' = "none" /\ signalled' = FALSE
    /\ grpc' = "down" /\ http' = "down" /\ pool' = "closed"
    /\ call' = [c \in Calls |-> IF call[c] = "running" THEN "over" ELSE call[c]]
    /\ queue' = "off" /\ timedOut' = FALSE
    /\ work' = [j \in Jobs |-> "none"]
    /\ UNCHANGED starts

\* Mutant of Gone: the jobs are kept in memory.
GoneWithItsJobs ==
    /\ ProcessGone
    /\ job' = [j \in Jobs |-> IF job[j] = "done" THEN "done" ELSE "none"]

Gone == ProcessGone /\ UNCHANGED job

Init ==
    /\ starts = 0 /\ main = "down" /\ stopper = "none" /\ signalled = FALSE
    /\ grpc = "down" /\ http = "down" /\ pool = "closed"
    /\ call = [c \in Calls |-> "none"]
    /\ queue = "off" /\ timedOut = FALSE
    /\ job = [j \in Jobs |-> "none"] /\ work = [j \in Jobs |-> "none"]

-----------------------------------------------------------------------------
(* Starting *)

\* main connects to the database and starts the queue, or goes on without one.
Boot ==
    /\ ~Up /\ starts < MaxStarts
    /\ starts' = starts + 1
    /\ main' = "booting" /\ pool' = "open" /\ queue' \in {"on", "off"}
    /\ UNCHANGED <<stopper, signalled, grpc, http, call, timedOut, job, work>>

\* main serves gRPC.
ServeGrpc ==
    /\ main = "booting"
    /\ grpc' = "up" /\ main' = "serving"
    /\ UNCHANGED <<starts, stopper, signalled, http, pool, call, jobVars>>

\* The gRPC port is taken: run returns, and its deferred Close closes the pool.
\* The queue is already working, and nothing stops it.
GrpcListenFails ==
    /\ main = "booting"
    /\ main' = "failed" /\ pool' = "closed"
    /\ UNCHANGED <<starts, stopper, signalled, grpc, http, call, jobVars>>

\* main builds the HTTP application and starts the goroutine.
StartStopper ==
    /\ main = "serving" /\ stopper = "none"
    /\ stopper' = "starting"
    /\ UNCHANGED <<starts, main, signalled, grpc, http, pool, call, jobVars>>

Notify ==
    /\ stopper = "starting"
    /\ stopper' = "armed"
    /\ UNCHANGED <<starts, main, signalled, grpc, http, pool, call, jobVars>>

\* main listens for HTTP, or fails to and only waits for the goroutine.
Listen ==
    /\ main = "serving" /\ stopper # "none"
    /\ \/ main' = "listening" /\ http' = "up"
       \/ main' = "waiting" /\ UNCHANGED http
    /\ UNCHANGED <<starts, stopper, signalled, grpc, pool, call, jobVars>>

-----------------------------------------------------------------------------
(* Requests *)

\* Accepted by a server that still listens.
Accept(c) ==
    /\ call[c] = "none"
    /\ (IF c \in GrpcCalls THEN grpc ELSE http) = "up"
    /\ call' = [call EXCEPT ![c] = "running"]
    /\ UNCHANGED <<starts, serverVars, pool, jobVars>>

Over(c) ==
    /\ call[c] = "running"
    /\ call' = [call EXCEPT ![c] = "over"]
    /\ UNCHANGED <<starts, serverVars, pool, jobVars>>

\* A handler returns its response.
Return(c) == c \notin Streams /\ Over(c)

\* The gRPC stream ends when its context does or a send fails.
StreamTelemetry(c) == c \in Streams \cap GrpcCalls /\ Over(c)

\* The event stream of HTTP, whose writer has no context, ends when a write fails.
Stream(c) == c \in Streams \cap HttpCalls /\ Over(c)

\* An upload enqueues a job, also when the queue of this process has stopped.
EnqueueProcessFile(j) ==
    /\ Running(Calls \ Streams) # {} /\ pool = "open"
    /\ job[j] = "none"
    /\ job' = [job EXCEPT ![j] = "available"]
    /\ UNCHANGED <<starts, serverVars, pool, call, queue, timedOut, work>>

-----------------------------------------------------------------------------
(* Jobs *)

\* River hands an available job to a worker of this process.
Fetch(j) ==
    /\ queue = "on" /\ pool = "open"
    /\ job[j] = "available" /\ work[j] \in {"none", "broken"}
    /\ job' = [job EXCEPT ![j] = "running"]
    /\ work' = [work EXCEPT ![j] = "working"]
    /\ UNCHANGED <<starts, serverVars, pool, call, queue, timedOut>>

\* The worker takes a connection, or finds the pool closed: then it cannot
\* work on, nor record that it failed.
Query(j) ==
    /\ work[j] = "working"
    /\ work' = [work EXCEPT ![j] = IF pool = "open" THEN "querying" ELSE "broken"]
    /\ UNCHANGED <<starts, serverVars, pool, call, queue, timedOut, job>>

\* The query ends; it may have been the one that records the job as done.
Work(j) ==
    /\ work[j] = "querying"
    /\ \/ /\ work' = [work EXCEPT ![j] = "working"]
          /\ UNCHANGED job
       \/ /\ work' = [work EXCEPT ![j] = "none"]
          /\ job' = [job EXCEPT ![j] = "done"]
    /\ UNCHANGED <<starts, serverVars, pool, call, queue, timedOut>>

\* River puts back a job that is marked as running and that nobody runs.
Rescue(j) ==
    /\ queue = "on" /\ pool = "open"
    /\ job[j] = "running" /\ j \notin AtWork
    /\ job' = [job EXCEPT ![j] = "available"]
    /\ UNCHANGED <<starts, serverVars, pool, call, queue, timedOut, work>>

-----------------------------------------------------------------------------
(* Stopping *)

\* A signal (the first one counts).
Signal ==
    /\ stopper = "armed" /\ ~signalled
    /\ signalled' = TRUE
    /\ UNCHANGED <<starts, main, stopper, grpc, http, pool, call, jobVars>>

\* A crash, a SIGKILL, or a signal that arrives before anybody listens for it.
Die ==
    /\ Up
    /\ main' = "down"
    /\ Gone

StopQueue ==
    /\ stopper = "armed" /\ signalled
    /\ stopper' = "queue" /\ queue' = "stopping"
    /\ UNCHANGED <<starts, main, signalled, grpc, http, pool, call, timedOut, job, work>>

\* Stop returns when no job runs, or after five seconds; GracefulStop begins.
QueueStopped ==
    /\ stopper = "queue"
    /\ timedOut' = (AtWork # {})
    /\ stopper' = "grpc" /\ grpc' = "draining"
    /\ UNCHANGED <<starts, main, signalled, http, pool, call, queue, job, work>>

\* Mutant of GrpcStopped: Stop in place of GracefulStop.
GrpcNotAwaited ==
    /\ stopper = "grpc"
    /\ stopper' = "http" /\ grpc' = "down"
    /\ http' = IF http = "up" THEN "draining" ELSE http
    /\ UNCHANGED <<starts, main, signalled, pool, call, jobVars>>

\* GracefulStop returns when every call has ended; Shutdown begins.
GrpcStopped ==
    /\ stopper = "grpc" /\ Running(GrpcCalls) = {}
    /\ stopper' = "http" /\ grpc' = "down"
    /\ http' = IF http = "up" THEN "draining" ELSE http
    /\ UNCHANGED <<starts, main, signalled, pool, call, jobVars>>

\* Listen returns as soon as Shutdown has begun, and main waits.
ListenReturns ==
    /\ main = "listening" /\ http # "up"
    /\ main' = "waiting"
    /\ UNCHANGED <<starts, stopper, signalled, grpc, http, pool, call, jobVars>>

\* Mutant of HttpStopped: it waits for a server that never listened.
HttpStoppedOnceListening ==
    /\ stopper = "http" /\ Running(HttpCalls) = {}
    /\ http = "draining"
    /\ stopper' = "caches" /\ http' = "down"
    /\ UNCHANGED <<starts, main, signalled, grpc, pool, call, jobVars>>

\* Shutdown returns when every connection is closed.
HttpStopped ==
    /\ stopper = "http" /\ Running(HttpCalls) = {}
    /\ stopper' = "caches" /\ http' = "down"
    /\ UNCHANGED <<starts, main, signalled, grpc, pool, call, jobVars>>

\* The token cache and the limiter are closed, and the pool is told to.
ClosePool ==
    /\ stopper = "caches"
    /\ stopper' = "closing" /\ pool' = "closed"
    /\ UNCHANGED <<starts, main, signalled, grpc, http, call, jobVars>>

\* Close returns when no connection is in use; main may go.
NobodyQueries == \A j \in Jobs : work[j] # "querying"

PoolClosed ==
    /\ stopper = "closing" /\ NobodyQueries
    /\ stopper' = "closed"
    /\ UNCHANGED <<starts, main, signalled, grpc, http, pool, call, jobVars>>

\* Mutant of Exit: main returns when Listen does.
ExitAtOnce ==
    /\ main = "waiting"
    /\ main' = "exited"
    /\ Gone

Exit ==
    /\ main = "waiting" /\ stopper = "closed"
    /\ main' = "exited"
    /\ Gone

\* The deferred Close waits too, and the process exits with an error.
ExitFailed ==
    /\ main = "failed" /\ NobodyQueries
    /\ main' = "exited"
    /\ Gone

-----------------------------------------------------------------------------

Stopping == \/ StopQueue \/ QueueStopped \/ GrpcStopped \/ ListenReturns
            \/ HttpStopped \/ ClosePool \/ PoolClosed \/ Exit \/ ExitFailed

JobStep(j) == Fetch(j) \/ Query(j) \/ Rescue(j)

Next ==
    \/ Boot \/ ServeGrpc \/ GrpcListenFails \/ StartStopper \/ Notify \/ Listen
    \/ Signal \/ Die \/ Stopping
    \/ \E c \in Calls : Accept(c) \/ Return(c)
                        \/ StreamTelemetry(c) \/ Stream(c)
    \/ \E j \in Jobs : EnqueueProcessFile(j) \/ JobStep(j) \/ Work(j)

Spec == Init /\ [][Next]_vars

\* The goroutines of the process run; a request that does not stream ends by
\* itself; River keeps working, and a job does not query for ever.  Nobody
\* makes the client of a stream leave.
Fairness ==
    /\ WF_vars(ServeGrpc) /\ WF_vars(StartStopper) /\ WF_vars(Notify) /\ WF_vars(Listen)
    /\ WF_vars(Stopping)
    /\ \A c \in Calls \ Streams : WF_vars(Return(c))
    /\ \A j \in Jobs :
          /\ WF_vars(JobStep(j)) /\ WF_vars(Work(j))
          /\ SF_vars(Work(j) /\ job'[j] = "done")

FairSpec == Spec /\ Fairness

-----------------------------------------------------------------------------
(* Properties *)

\* The connection pool outlives those who use it (main.go, the order of the
\* shutdown): a request that was accepted, a stream included, never finds it
\* closed unless HTTP came up after its shutdown, and a job only if it was still
\* running when Stop gave up on it, or if the gRPC port was taken.
PoolOutlivesItsUsers ==
    /\ Running(Calls) # {} /\ ~ListensLate => pool = "open"
    /\ (\E j \in Jobs : work[j] = "broken") => timedOut \/ main = "failed"

\* A process that leaves by itself leaves no request and no query behind it:
\* main waits although Listen returns early (main.go, idleConnsClosed).
ExitCutsNobody ==
    [][main' = "exited" /\ main # "exited"
          => Running(Calls) = {} /\ NobodyQueries]_vars

\* A signalled process is gone in the end if the clients of its streams leave;
\* also when listening for HTTP failed, and when a job still runs. The one
\* exception is HTTP coming up after its own shutdown.
ShutdownFinishes ==
    (\A c \in Streams : call[c] = "running" ~> call[c] # "running")
        => (signalled ~> ~signalled \/ ListensLate)

\* A job that was enqueued is done in the end once a process with a queue stays
\* up, although it was enqueued after its own process had stopped fetching, or
\* lost its worker to a closed pool or a crash.
NoJobForgotten ==
    <>[](main = "listening" /\ ~signalled /\ queue = "on")
        => \A j \in Jobs : job[j] = "available" ~> job[j] = "done"
=============================================================================
