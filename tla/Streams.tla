------------------------------- MODULE Streams -------------------------------
(***************************************************************************)
(* The streams in which stored files are read, and the zstd decoders they  *)
(* borrow from zstdReaderPool.  Local files and S3 objects share the pool. *)
(*                                                                         *)
(* Who closes a stream depends on who opened it: the HTTP server once the  *)
(* response is sent, the RPC handler or a conversion when it returns, and  *)
(* in three places nobody.  sync.Pool (external) hands out any decoder it  *)
(* holds, or a new one, and may drop what it holds at any time.            *)
(***************************************************************************)
EXTENDS Naturals, FiniteSets

CONSTANTS
    Streams,    \* streams that are ever opened
    Decoders,   \* decoders that exist at a time
    None

VARIABLES
    stream,     \* stream[s]: who uses it, whether it is open, its decoder
    pool,       \* pool[d]: how often decoder d lies in the pool
    source      \* source[d]: the stream decoder d was last reset to

vars == <<stream, pool, source>>

\* Stages of the use of a stream: GetFile decides about its answer ("http"),
\* then the response is sent ("response"); the RPC handler reads and closes
\* ("rpc"), or reads only ("rpc webp"); a job finds a cached derivative ("job");
\* dimensions are read or an image is converted ("convert").
Uses == {"none", "http", "response", "rpc", "rpc webp", "job", "convert", "over"}

TypeOK ==
    /\ stream \in [Streams -> [use : Uses, open : BOOLEAN, dec : Decoders \cup {None}]]
    /\ pool \in [Decoders -> 0..2]
    /\ source \in [Decoders -> Streams \cup {None}]

Unopened == [use |-> "none", open |-> FALSE, dec |-> None]

Init ==
    /\ stream = [s \in Streams |-> Unopened]
    /\ pool = [d \in Decoders |-> 0]
    /\ source = [d \in Decoders |-> None]

-----------------------------------------------------------------------------
(* The pool *)

Held == {stream[s].dec : s \in {x \in Streams : stream[x].open}}

\* What Get may return, and the pool it leaves: a decoder of the pool, or a new
\* one, which may take the name of a decoder that is gone.
Gets ==
    {<<d, [pool EXCEPT ![d] = @ - 1]>> : d \in {x \in Decoders : pool[x] > 0}}
    \cup {<<d, pool>> : d \in {x \in Decoders \ Held : pool[x] = 0}}

Put(d, bag) == [bag EXCEPT ![d] = @ + 1]

\* The garbage collector empties the pool, in part or as a whole.
Collect ==
    /\ \E d \in Decoders : pool[d] > 0 /\ pool' = [pool EXCEPT ![d] = @ - 1]
    /\ UNCHANGED <<stream, source>>

-----------------------------------------------------------------------------
(* Opening and closing *)

\* Open and OpenWebP of either engine: the file or object is there, and a
\* decoder is reset to it ...
OpenStream(s, use) ==
    /\ stream[s].use = "none"
    /\ \E g \in Gets :
          /\ stream' = [stream EXCEPT ![s] = [use |-> use, open |-> TRUE, dec |-> g[1]]]
          /\ source' = [source EXCEPT ![g[1]] = s]
          /\ pool' = g[2]

\* ... or cannot be reset: it goes back and the file is closed.
OpenFails(s) ==
    /\ stream[s].use = "none"
    /\ \E g \in Gets :
          /\ source' = [source EXCEPT ![g[1]] = s]
          /\ pool' = Put(g[1], g[2])
    /\ stream' = [stream EXCEPT ![s].use = "over"]

\* Close closes the file and puts the decoder back, whether or not it was
\* called before.
Closing(s, use) ==
    /\ stream' = [stream EXCEPT ![s] = [@ EXCEPT !.use = use, !.open = FALSE]]
    /\ pool' = Put(stream[s].dec, pool)
    /\ UNCHANGED source

-----------------------------------------------------------------------------
(* HTTP: GetFile *)

\* The original, or the cached derivative GetAsWebP returns.
GetFile(s) == OpenStream(s, "http")

\* If-None-Match: 304 without a body, and the stream stays open.
NotModified(s) ==
    /\ stream[s].use = "http"
    /\ stream' = [stream EXCEPT ![s].use = "over"]
    /\ UNCHANGED <<pool, source>>

\* Mutant of SendStream: GetFile closes its stream when it returns, as RPC does.
SendStreamDeferring(s) ==
    /\ stream[s].use = "http"
    /\ Closing(s, "response")

\* SendStream gives the stream to the response.
SendStream(s) ==
    /\ stream[s].use = "http"
    /\ stream' = [stream EXCEPT ![s].use = "response"]
    /\ UNCHANGED <<pool, source>>

\* The HTTP server (external) closes the body when it is sent, or when the
\* client has left.
ResponseEnds(s) ==
    /\ stream[s].use = "response"
    /\ Closing(s, "over")

-----------------------------------------------------------------------------
(* RPC, conversions and jobs *)

\* The RPC GetFile defers the Close of an original ...
RpcGetFile(s) == OpenStream(s, "rpc")

RpcEnds(s) ==
    /\ stream[s].use = "rpc"
    /\ Closing(s, "over")

\* ... but a derivative comes as an io.Reader, which it cannot close.
RpcGetWebP(s) == OpenStream(s, "rpc webp")

\* ProcessAsync drops the reader GetAsWebP returns for a cached derivative.
PreGenerate(s) == OpenStream(s, "job")

Dropped(s) ==
    /\ stream[s].use \in {"rpc webp", "job"}
    /\ stream' = [stream EXCEPT ![s].use = "over"]
    /\ UNCHANGED <<pool, source>>

\* GetAsWebP converts the original, and Upload and ProcessAsync read an image
\* for its dimensions; they close it when they have read it or failed.
Convert(s) == OpenStream(s, "convert")

ConvertEnds(s) ==
    /\ stream[s].use = "convert"
    /\ Closing(s, "over")

-----------------------------------------------------------------------------
Next ==
    \/ \E s \in Streams :
          \/ GetFile(s) \/ NotModified(s) \/ SendStream(s) \/ ResponseEnds(s)
          \/ RpcGetFile(s) \/ RpcEnds(s) \/ RpcGetWebP(s) \/ PreGenerate(s)
          \/ Dropped(s) \/ Convert(s) \/ ConvertEnds(s) \/ OpenFails(s)
    \/ Collect

Spec == Init /\ [][Next]_vars

-----------------------------------------------------------------------------
(* Properties *)

\* A stream that is being read reads its own file: no other stream has its
\* decoder, however requests, conversions and jobs share the pool and whatever
\* they leave open. (Close is not idempotent: a second one would put a decoder
\* into the pool that is in use.)
StreamsReadTheirOwn ==
    \A s \in Streams :
        stream[s].use \notin {"none", "over"} => source[stream[s].dec] = s
=============================================================================
