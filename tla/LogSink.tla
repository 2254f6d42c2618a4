------------------------------- MODULE LogSink -------------------------------
(***************************************************************************)
(* The log records of the server on their way to the system_logs table    *)
(* (telemetry/logger.go), and the calls of the log service that read and   *)
(* delete them (repository/log.go, grpc/server/log.go).                    *)
(*                                                                         *)
(* A record takes its time when it is made.  Handle then offers it to a    *)
(* bounded channel without waiting; one worker takes the records one by    *)
(* one and inserts each under a timeout, and what fails is gone.  A reader *)
(* pages through the table, newest first, while rows come and go.          *)
(***************************************************************************)
EXTENDS Naturals, Sequences, FiniteSetsExt, Functions

CONSTANTS
    MaxRecords,     \* bound: records made in a behaviour
    Capacity,       \* slots of logChan (1000)
    DefaultLimit,   \* rows of a page when the request names none (50)
    MaxLimit,       \* rows of a page at most (200)
    RequestLimits   \* the limits requests ask for

ASSUME LogSinkAssumption ==
    /\ MaxRecords \in Nat /\ Capacity \in Nat \ {0}
    /\ DefaultLimit \in Nat \ {0} /\ MaxLimit \in Nat /\ DefaultLimit <= MaxLimit
    /\ RequestLimits \subseteq Nat

VARIABLES
    stamp,    \* stamp[r]: the time of record r; records are numbered as made
    held,     \* records a goroutine has made and not yet offered
    channel,  \* logChan
    hand,     \* the record the worker inserts, or Nothing
    table,    \* system_logs
    walk      \* one reader paging through the table

sinkVars == <<stamp, held, channel, hand>>
vars == <<sinkVars, table, walk>>

Records == 1..Len(stamp)
Nothing == 0

\* The reader: rows received so far (its next offset) and which, what the
\* table held when it began, and whether a single row was deleted meanwhile or
\* an answer came back empty because its query broke.
NoWalk == [state |-> "none", offset |-> 0, seen |-> {}, goal |-> {},
           spoilt |-> FALSE]

TypeOK ==
    /\ stamp \in Seq(Nat) /\ Len(stamp) <= MaxRecords
    /\ held \subseteq Records /\ table \subseteq Records
    /\ channel \in Seq(Records) /\ Len(channel) <= Capacity
    /\ hand \in Records \cup {Nothing}
    /\ walk \in [state : {"none", "reading", "done"}, offset : Nat,
                 seen : SUBSET Records, goal : SUBSET Records, spoilt : BOOLEAN]

Init ==
    /\ stamp = <<>> /\ held = {} /\ channel = <<>> /\ hand = Nothing
    /\ table = {} /\ walk = NoWalk

-----------------------------------------------------------------------------
(* The sink *)

\* slog makes the record and stamps it; two records may share a stamp.
Make ==
    /\ Len(stamp) < MaxRecords
    /\ \E t \in IF stamp = <<>> THEN {0}
                ELSE {stamp[Len(stamp)], stamp[Len(stamp)] + 1} :
          stamp' = Append(stamp, t)
    /\ held' = held \cup {Len(stamp) + 1}
    /\ UNCHANGED <<channel, hand, table, walk>>

\* Handle sends without waiting and drops the record when the channel is full.
Handle(r) ==
    /\ r \in held
    /\ held' = held \ {r}
    /\ channel' = IF Len(channel) < Capacity THEN Append(channel, r) ELSE channel
    /\ UNCHANGED <<stamp, hand, table, walk>>

\* The worker receives the next record.
Take ==
    /\ hand = Nothing /\ channel # <<>>
    /\ hand' = Head(channel)
    /\ channel' = Tail(channel)
    /\ UNCHANGED <<stamp, held, table, walk>>

\* Mutant of Insert: the worker puts a record whose insert failed back in line.
InsertRequeueing ==
    /\ hand # Nothing
    /\ hand' = Nothing
    /\ \/ table' = table \cup {hand} /\ UNCHANGED channel
       \/ channel' = Append(channel, hand) /\ UNCHANGED table
    /\ Len(channel') <= Capacity
    /\ UNCHANGED <<stamp, held, walk>>

\* The worker's INSERT; its error, the timeout included, is discarded.
Insert ==
    /\ hand # Nothing
    /\ hand' = Nothing
    /\ table' \in {table, table \cup {hand}}
    /\ UNCHANGED <<stamp, held, channel, walk>>

-----------------------------------------------------------------------------
(* Deleting *)

\* Rows leave the table; a single row's departure is noted for the reader.
Delete(rows, single) ==
    /\ table' = table \ rows
    /\ walk' = [walk EXCEPT !.spoilt =
                   @ \/ (walk.state = "reading" /\ single /\ rows # {})]
    /\ UNCHANGED sinkVars

\* Mutant of OlderThan: the comparison is turned round.
NewerThan(t) == {r \in table : stamp[r] > t}

OlderThan(t) == {r \in table : stamp[r] < t}

\* DeleteLogs: all rows, else the row named, else the rows older than a time,
\* else none.
DeleteLogs ==
    \/ Delete(table, FALSE)
    \/ \E r \in table : Delete({r}, TRUE)
    \/ \E i \in Records : Delete(OlderThan(stamp[i]), FALSE)

-----------------------------------------------------------------------------
(* Reading *)

\* The limit the query runs with.
RowLimit(l) == IF l = 0 THEN DefaultLimit ELSE Min({l, MaxLimit})

AtLeastAsNew(A, B) == \A a \in A, b \in B : stamp[a] >= stamp[b]

\* The page ORDER BY timestamp DESC LIMIT limit OFFSET offset may return: rows
\* of equal time come in any order, and in another one in the next call.
IsPage(P, limit, offset) ==
    \E skipped \in SUBSET (table \ P) :
        /\ Cardinality(skipped) = Min({offset, Cardinality(table)})
        /\ Cardinality(P) = Min({limit, Cardinality(table \ skipped)})
        /\ AtLeastAsNew(skipped, table \ skipped)
        /\ AtLeastAsNew(P, table \ (skipped \cup P))

\* A reader asks for the pages one after another until it gets an empty one.
BeginWalk ==
    /\ walk.state = "none"
    /\ walk' = [NoWalk EXCEPT !.state = "reading", !.goal = table]
    /\ UNCHANGED <<sinkVars, table>>

Received(P) ==
    [walk EXCEPT !.offset = @ + Cardinality(P), !.seen = @ \cup P,
                 !.state = IF P = {} THEN "done" ELSE @]

GetLogs ==
    /\ walk.state = "reading"
    /\ \E l \in RequestLimits, P \in SUBSET table :
          /\ IsPage(P, RowLimit(l), walk.offset)
          /\ walk' = Received(P)
    /\ UNCHANGED <<sinkVars, table>>

\* GetLogs does not ask the rows why they ended: a connection lost on the way
\* leaves the beginning of the page, and no error.
GetLogsCut ==
    /\ walk.state = "reading"
    /\ \E l \in RequestLimits, P \in SUBSET table :
          /\ Cardinality(P) < RowLimit(l)
          /\ IsPage(P, Cardinality(P), walk.offset)
          /\ walk' = [Received(P) EXCEPT !.spoilt = @ \/ P = {}]
    /\ UNCHANGED <<sinkVars, table>>

EndWalk ==
    /\ walk.state = "done"
    /\ walk' = NoWalk
    /\ UNCHANGED <<sinkVars, table>>

-----------------------------------------------------------------------------

Next ==
    \/ Make \/ (\E r \in held : Handle(r)) \/ Take \/ Insert
    \/ DeleteLogs \/ BeginWalk \/ GetLogs \/ GetLogsCut \/ EndWalk

Spec == Init /\ [][Next]_vars

\* The worker never stops: its insert ends within three seconds.
Fairness == WF_vars(Take) /\ WF_vars(Insert)

FairSpec == Spec /\ Fairness

-----------------------------------------------------------------------------
(* Properties *)

\* A walk over the pages misses a row that was there when it began only if the
\* row is gone, or shares its time with another one, or a single row was deleted
\* during the walk, or a broken query looked like the end. Rows that arrive
\* meanwhile, also late ones with an old time, and purges by age make it miss
\* nothing (repository/log.go, GetLogs and DeleteLogs).
WalkMissesNothing ==
    walk.state = "done" /\ ~walk.spoilt =>
        \A r \in (walk.goal \cap table) \ walk.seen :
            \E s \in Records \ {r} : stamp[s] = stamp[r]

\* The worker is done with every record it was sent, for good, however many
\* inserts fail: one that the database refuses does not hold up the others
\* (logger.go, worker).
SinkKeepsDraining ==
    \A r \in 1..MaxRecords :
        r \in Range(channel) ~> [](r \notin Range(channel) /\ hand # r)
=============================================================================
