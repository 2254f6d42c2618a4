------------------------- MODULE Operations_proofs --------------------------
(***************************************************************************)
(* Proofs about the running of the server: LogSink, for any records,       *)
(* capacity and limits; then Server, for any calls, jobs and number of     *)
(* starts.                                                                 *)
(***************************************************************************)
EXTENDS LogSink, ServerPart, FiniteSetTheorems, TLAPS

\* A row whose time no other record has, and the rows that are newer than it.
Alone(r) == \A s \in Records \ {r} : stamp[s] # stamp[r]
Newer(r) == {x \in table : stamp[x] > stamp[r]}

\* A record that has not been inserted is in one place, and no reader has seen it.
Fresh(r) == r \notin held /\ r \notin table /\ r \notin walk.goal

\* A record is in one place until it is inserted.
InFlight ==
    /\ \A r \in held : r \notin table /\ r \notin walk.goal
    /\ \A i \in 1..Len(channel) : Fresh(channel[i]) /\ channel[i] # hand
    /\ \A i, j \in 1..Len(channel) : i # j => channel[i] # channel[j]
    /\ Fresh(hand)

\* Every row that a reader has yet to receive has as many newer rows before it
\* as the reader has received.
StillAhead ==
    walk.state = "reading" /\ ~walk.spoilt =>
        \A r \in (walk.goal \cap table) \ walk.seen :
            Alone(r) => Cardinality(Newer(r)) >= walk.offset

\* The inductive invariant of the sink and its reader.
LogInv == TypeOK /\ InFlight /\ StillAhead /\ WalkMissesNothing

-----------------------------------------------------------------------------
\* The smaller of two numbers, as GetLogs takes it.
LEMMA MinOfTwo ==
  ASSUME NEW a \in Nat, NEW b \in Nat
  PROVE  Min({a, b}) = IF a <= b THEN a ELSE b
<1>1. CASE a <= b
  <2> DEFINE P(x) == x \in {a, b} /\ \A y \in {a, b} : x =< y
  <2>1. P(a) /\ \A x : P(x) => x = a
    BY <1>1
  <2>2. (CHOOSE x : P(x)) = a
    <3> HIDE DEF P
    <3> QED  BY <2>1
  <2>3. Min({a, b}) = CHOOSE x : P(x)
    BY DEF Min
  <2> QED  BY <1>1, <2>2, <2>3
<1>2. CASE ~(a <= b)
  <2> DEFINE P(x) == x \in {a, b} /\ \A y \in {a, b} : x =< y
  <2>1. P(b) /\ \A x : P(x) => x = b
    BY <1>2
  <2>2. (CHOOSE x : P(x)) = b
    <3> HIDE DEF P
    <3> QED  BY <2>1
  <2>3. Min({a, b}) = CHOOSE x : P(x)
    BY DEF Min
  <2> QED  BY <1>2, <2>2, <2>3
<1> QED  BY <1>1, <1>2

\* A page has room for at least one row.
LEMMA LimitPositive ==
  ASSUME NEW l \in RequestLimits
  PROVE  RowLimit(l) \in Nat \ {0}
<1>1. l \in Nat /\ MaxLimit \in Nat \ {0} /\ DefaultLimit \in Nat \ {0}
  BY LogSinkAssumption
<1> QED  BY <1>1, MinOfTwo DEF RowLimit

\* The rows can be counted.
LEMMA FiniteTable ==
  ASSUME TypeOK
  PROVE  \A S \in SUBSET table : IsFiniteSet(S) /\ Cardinality(S) \in Nat
<1>1. Len(stamp) \in Nat
  BY DEF TypeOK
<1>2. IsFiniteSet(1..Len(stamp))
  BY <1>1, FS_Interval
<1>3. \A S \in SUBSET table : S \in SUBSET (1..Len(stamp))
  BY DEF TypeOK, Records
<1>4. \A S \in SUBSET table : IsFiniteSet(S)
  BY <1>2, <1>3, FS_Subset
<1> QED  BY <1>4, FS_CardinalityType

\* A page leaves a row that it does not hold behind all that it does.
LEMMA PageStaysAhead ==
  ASSUME TypeOK, NEW limit \in Nat, NEW offset \in Nat, NEW P \in SUBSET table,
         IsPage(P, limit, offset),
         NEW r \in table \ P, Alone(r), Cardinality(Newer(r)) >= offset
  PROVE  Cardinality(Newer(r)) >= offset + Cardinality(P)
<1> PICK skipped \in SUBSET (table \ P) :
        /\ Cardinality(skipped) = Min({offset, Cardinality(table)})
        /\ AtLeastAsNew(skipped, table \ skipped)
        /\ AtLeastAsNew(P, table \ (skipped \cup P))
  BY DEF IsPage
<1>1. /\ \A x \in table : stamp[x] \in Nat
      /\ \A x \in table : x # r => stamp[x] # stamp[r]
  BY DEF TypeOK, Records, Alone
<1>2. Newer(r) \in SUBSET table /\ r \notin Newer(r)
  BY <1>1 DEF Newer
<1>3. \A S \in SUBSET table : IsFiniteSet(S) /\ Cardinality(S) \in Nat
  BY FiniteTable
<1>4. Cardinality(Newer(r)) <= Cardinality(table)
  BY <1>2, <1>3, FS_Subset
<1>5. Cardinality(skipped) = offset
  <2>1. Cardinality(table) \in Nat /\ Cardinality(Newer(r)) \in Nat
    BY <1>2, <1>3
  <2>2. Cardinality(table) >= offset
    BY <1>4, <2>1
  <2> QED  BY <2>1, <2>2, MinOfTwo
<1>6. r \notin skipped
  <2> SUFFICES ASSUME r \in skipped PROVE FALSE
    OBVIOUS
  <2>1. Newer(r) \subseteq skipped
    BY <1>1 DEF AtLeastAsNew, Newer
  <2>2. Newer(r) \cup {r} \in SUBSET skipped
    BY <2>1
  <2>3. Cardinality(Newer(r) \cup {r}) = Cardinality(Newer(r)) + 1
    BY <1>2, <1>3, FS_AddElement
  <2>4. Cardinality(Newer(r) \cup {r}) <= Cardinality(skipped)
    BY <2>2, <1>3, FS_Subset
  <2>5. Cardinality(Newer(r)) \in Nat
    BY <1>2, <1>3
  <2> QED  BY <1>5, <2>3, <2>4, <2>5
<1>7. skipped \cup P \in SUBSET Newer(r)
  <2>1. skipped \subseteq Newer(r)
    BY <1>1, <1>6 DEF AtLeastAsNew, Newer
  <2>2. P \subseteq Newer(r)
    BY <1>1, <1>6 DEF AtLeastAsNew, Newer
  <2> QED  BY <2>1, <2>2
<1>8. Cardinality(skipped \cup P) = Cardinality(skipped) + Cardinality(P)
  <2>1. skipped \cap P = {} /\ skipped \in SUBSET table
    OBVIOUS
  <2>2. /\ IsFiniteSet(skipped) /\ IsFiniteSet(P)
        /\ Cardinality(skipped) \in Nat /\ Cardinality(P) \in Nat
    BY <1>3, <2>1
  <2>3. Cardinality(skipped \cup P)
            = Cardinality(skipped) + Cardinality(P) - Cardinality(skipped \cap P)
    BY <2>2, FS_Union
  <2>4. Cardinality(skipped \cap P) = 0
    BY <2>1, FS_EmptySet
  <2> QED  BY <2>2, <2>3, <2>4
<1>9. Cardinality(skipped \cup P) <= Cardinality(Newer(r))
  BY <1>2, <1>3, <1>7, FS_Subset
<1> QED  BY <1>5, <1>8, <1>9

\* An empty page says that the table has no more rows than the reader received.
LEMMA EmptyPageIsTheEnd ==
  ASSUME TypeOK, NEW limit \in Nat \ {0}, NEW offset \in Nat, IsPage({}, limit, offset)
  PROVE  \A r \in table : Cardinality(Newer(r)) < offset
<1> PICK skipped \in SUBSET table :
        /\ Cardinality(skipped) = Min({offset, Cardinality(table)})
        /\ Cardinality({}) = Min({limit, Cardinality(table \ skipped)})
  BY DEF IsPage
<1>1. \A S \in SUBSET table : IsFiniteSet(S) /\ Cardinality(S) \in Nat
  BY FiniteTable
<1>2. table \ skipped \in SUBSET table /\ table \in SUBSET table
  OBVIOUS
<1>3. Cardinality(table \ skipped) = 0
  BY <1>1, <1>2, MinOfTwo, FS_EmptySet
<1>4. table = skipped
  BY <1>1, <1>2, <1>3, FS_EmptySet
<1>5. Cardinality(table) <= offset
  BY <1>1, <1>2, <1>4, MinOfTwo
<1>6. ASSUME NEW r \in table PROVE Cardinality(Newer(r)) < offset
  <2>1. Newer(r) \in SUBSET table /\ r \notin Newer(r)
    BY DEF Newer, TypeOK, Records
  <2>2. Newer(r) \cup {r} \in SUBSET table
    BY <2>1
  <2>3. Cardinality(Newer(r) \cup {r}) = Cardinality(Newer(r)) + 1
    BY <1>1, <2>1, FS_AddElement
  <2>4. Cardinality(Newer(r) \cup {r}) <= Cardinality(table)
    BY <1>1, <1>2, <2>2, FS_Subset
  <2>5. Cardinality(Newer(r)) \in Nat /\ Cardinality(table) \in Nat
    BY <1>1, <1>2, <2>1
  <2> QED  BY <1>5, <2>3, <2>4, <2>5
<1> QED  BY <1>6

-----------------------------------------------------------------------------
\* The parts of the reader's record, which the provers handle better apart.
WalkType(w) ==
    /\ w.state \in {"none", "reading", "done"}
    /\ w.offset \in Nat
    /\ w.seen \subseteq Records /\ w.goal \subseteq Records
    /\ w.spoilt \in BOOLEAN

\* The invariant holds at the start.
LEMMA LogInit == Init => LogInv
<1> SUFFICES ASSUME Init PROVE LogInv
  OBVIOUS
<1>1. Len(stamp) = 0 /\ stamp \in Seq(Nat) /\ channel \in Seq(Records) /\ Len(channel) = 0
  BY DEF Init
<1>2. TypeOK
  BY <1>1, LogSinkAssumption DEF Init, TypeOK, NoWalk, Nothing, Records
<1>3. InFlight
  BY <1>1 DEF Init, InFlight, Fresh, NoWalk, Nothing
<1>4. StillAhead /\ WalkMissesNothing
  BY DEF Init, StillAhead, WalkMissesNothing, NoWalk
<1> QED  BY <1>2, <1>3, <1>4 DEF LogInv

\* A new record changes no time, so it can only make a row share its own.
LEMMA MakeInv == LogInv /\ Make => LogInv'
<1> SUFFICES ASSUME LogInv, Make PROVE LogInv'
  OBVIOUS
<1> USE DEF LogInv
<1> DEFINE new == Len(stamp) + 1
<1>1. PICK t \in Nat : stamp' = Append(stamp, t)
  <2>1. stamp # <<>> => stamp[Len(stamp)] \in Nat
    BY DEF TypeOK
  <2> QED  BY <2>1 DEF Make
<1>2. /\ stamp' \in Seq(Nat) /\ Len(stamp') = new /\ Len(stamp) \in Nat
      /\ new <= MaxRecords
      /\ \A r \in Records : stamp'[r] = stamp[r]
  <2>1. Len(stamp) \in Nat /\ Len(stamp) < MaxRecords /\ MaxRecords \in Nat
    BY LogSinkAssumption DEF Make, TypeOK
  <2> QED  BY <1>1, <2>1 DEF TypeOK, Records
<1>3. Records \subseteq Records' /\ new \in Records' /\ new \notin Records
  BY <1>2 DEF Records
<1>4. UNCHANGED <<channel, hand, table, walk>> /\ held' = held \cup {new}
  BY DEF Make
<1>5. TypeOK'
  <2>1. held' \subseteq Records' /\ table' \subseteq Records'
          /\ hand' \in Records' \cup {Nothing}
    BY <1>3, <1>4 DEF TypeOK
  <2>2. channel' \in Seq(Records') /\ Len(channel') <= Capacity
    BY <1>3, <1>4 DEF TypeOK
  <2>3. walk' \in [state : {"none", "reading", "done"}, offset : Nat,
                   seen : SUBSET Records', goal : SUBSET Records', spoilt : BOOLEAN]
    BY <1>3, <1>4 DEF TypeOK
  <2> QED  BY <1>2, <2>1, <2>2, <2>3 DEF TypeOK
<1>6. InFlight'
  <2>1. walk.goal \subseteq Records /\ table \subseteq Records
    BY DEF TypeOK
  <2>2. \A i \in 1..Len(channel) : channel[i] \in Records
    BY DEF TypeOK
  <2>3. hand # new
    BY <1>2, <1>3 DEF TypeOK, Nothing
  <2> QED  BY <1>3, <1>4, <2>1, <2>2, <2>3 DEF InFlight, Fresh
<1>7. StillAhead'
  <2> SUFFICES ASSUME walk.state = "reading" /\ ~walk.spoilt,
                      NEW r \in (walk.goal \cap table) \ walk.seen, Alone(r)'
               PROVE  Cardinality(Newer(r)') >= walk.offset
    BY <1>4 DEF StillAhead
  <2>1. r \in Records /\ table \subseteq Records
    BY DEF TypeOK
  <2>2. Alone(r)
    BY <1>2, <1>3, <2>1 DEF Alone
  <2>3. Newer(r)' = Newer(r)
    BY <1>2, <1>4, <2>1 DEF Newer
  <2> QED  BY <2>2, <2>3 DEF StillAhead
<1>8. WalkMissesNothing'
  <2>1. table \subseteq Records
    BY DEF TypeOK
  <2> QED  BY <1>2, <1>3, <1>4, <2>1 DEF WalkMissesNothing
<1> QED  BY <1>5, <1>6, <1>7, <1>8

\* The steps that touch neither the table nor the reader.
LEMMA SameWalk ==
  ASSUME LogInv, UNCHANGED <<stamp, table, walk>>
  PROVE  StillAhead' /\ WalkMissesNothing'
<1>1. Records' = Records /\ \A r : Alone(r)' = Alone(r) /\ Newer(r)' = Newer(r)
  BY DEF Records, Alone, Newer
<1>2. StillAhead'
  BY <1>1 DEF LogInv, StillAhead
<1>3. WalkMissesNothing'
  BY <1>1 DEF LogInv, WalkMissesNothing
<1> QED  BY <1>2, <1>3

\* Handle only queues or drops a record,
LEMMA HandleInv ==
  ASSUME LogInv, NEW r \in held, Handle(r)
  PROVE  LogInv'
<1> USE DEF LogInv
<1>1. /\ UNCHANGED <<stamp, hand, table, walk>> /\ held' = held \ {r}
      /\ channel' = IF Len(channel) < Capacity THEN Append(channel, r) ELSE channel
  BY DEF Handle
<1>2. Records' = Records /\ r \in Records
  BY <1>1 DEF Records, TypeOK
<1>3. TypeOK'
  <2>1. channel' \in Seq(Records') /\ Len(channel') <= Capacity
    <3>1. Capacity \in Nat /\ Len(channel) \in Nat
      BY LogSinkAssumption DEF TypeOK
    <3> QED  BY <1>1, <1>2, <3>1 DEF TypeOK
  <2> QED  BY <1>1, <1>2, <2>1 DEF TypeOK
<1>4. InFlight'
  <2>1. CASE Len(channel) < Capacity
    <3>1. /\ Len(channel) \in Nat /\ Len(channel') = Len(channel) + 1
          /\ channel'[Len(channel) + 1] = r
          /\ \A i \in 1..Len(channel) : channel'[i] = channel[i]
      BY <1>1, <1>2, <2>1 DEF TypeOK
    <3>2. r # hand /\ \A i \in 1..Len(channel) : channel[i] # r
      BY DEF InFlight, Fresh
    <3>3. 1..Len(channel') = (1..Len(channel)) \cup {Len(channel) + 1}
      BY <3>1
    <3>4. \A i \in 1..Len(channel') :
             /\ channel'[i] # hand
             /\ channel'[i] \notin held' /\ channel'[i] \notin table
             /\ channel'[i] \notin walk.goal
      BY <1>1, <3>1, <3>2, <3>3 DEF InFlight, Fresh
    <3>5. \A i, j \in 1..Len(channel') : i # j => channel'[i] # channel'[j]
      BY <3>1, <3>2, <3>3 DEF InFlight
    <3> QED  BY <1>1, <3>4, <3>5 DEF InFlight, Fresh
  <2>2. CASE ~(Len(channel) < Capacity)
    BY <1>1, <2>2 DEF InFlight, Fresh
  <2> QED  BY <2>1, <2>2
<1> QED  BY <1>1, <1>3, <1>4, SameWalk

\* the worker takes it from the queue,
LEMMA TakeInv == LogInv /\ Take => LogInv'
<1> SUFFICES ASSUME LogInv, Take PROVE LogInv'
  OBVIOUS
<1> USE DEF LogInv
<1>1. /\ UNCHANGED <<stamp, held, table, walk>> /\ hand' = Head(channel)
      /\ channel' = Tail(channel) /\ channel # <<>>
  BY DEF Take
<1>2. Records' = Records
  BY <1>1 DEF Records
<1>3. /\ Len(channel) \in Nat \ {0} /\ Len(channel') = Len(channel) - 1
      /\ channel' \in Seq(Records) /\ hand' = channel[1] /\ hand' \in Records
      /\ \A i \in 1..Len(channel') : channel'[i] = channel[i + 1]
  BY <1>1 DEF TypeOK
<1>4. TypeOK'
  <2>1. Len(channel') <= Capacity
    BY <1>3, LogSinkAssumption DEF TypeOK
  <2> QED  BY <1>1, <1>2, <1>3, <2>1 DEF TypeOK
<1>5. InFlight'
  <2>1. 1 \in 1..Len(channel) /\ \A i \in 1..Len(channel') : i + 1 \in 1..Len(channel)
          /\ i + 1 # 1
    BY <1>3
  <2>2. hand' \notin held /\ hand' \notin table /\ hand' \notin walk.goal
    BY <1>1, <1>3, <2>1 DEF InFlight, Fresh
  <2>3. \A i \in 1..Len(channel') :
           /\ channel'[i] # hand'
           /\ channel'[i] \notin held /\ channel'[i] \notin table
           /\ channel'[i] \notin walk.goal
    BY <1>1, <1>3, <2>1 DEF InFlight, Fresh
  <2>4. \A i, j \in 1..Len(channel') : i # j => channel'[i] # channel'[j]
    <3>1. \A i, j \in 1..Len(channel') : i # j => i + 1 # j + 1
      BY <1>3
    <3> QED  BY <1>3, <2>1, <3>1 DEF InFlight
  <2> QED  BY <1>1, <2>2, <2>3, <2>4 DEF InFlight, Fresh
<1> QED  BY <1>1, <1>4, <1>5, SameWalk

\* A row that arrives is none that a reader waits for, and it can only be one
\* more in front of those.
LEMMA InsertInv == LogInv /\ Insert => LogInv'
<1> SUFFICES ASSUME LogInv, Insert PROVE LogInv'
  OBVIOUS
<1> USE DEF LogInv
<1>1. /\ UNCHANGED <<stamp, held, channel, walk>> /\ hand # Nothing /\ hand' = Nothing
      /\ table' \in {table, table \cup {hand}}
  BY DEF Insert
<1>2. Records' = Records /\ hand \in Records /\ hand \notin walk.goal /\ hand \notin held
  BY <1>1 DEF Records, TypeOK, InFlight, Fresh
<1>3. TypeOK'
  BY <1>1, <1>2 DEF TypeOK
<1>4. InFlight'
  <2>1. Nothing \notin Records
    BY DEF Nothing, Records, TypeOK
  <2>2. \A i \in 1..Len(channel) : channel[i] \in Records
    BY DEF TypeOK
  <2>3. held \subseteq Records /\ walk.goal \subseteq Records /\ table' \subseteq Records
    BY <1>1, <1>2 DEF TypeOK
  <2> QED  BY <1>1, <1>2, <2>1, <2>2, <2>3 DEF InFlight, Fresh
<1>5. StillAhead'
  <2> SUFFICES ASSUME walk.state = "reading" /\ ~walk.spoilt,
                      NEW r \in (walk.goal \cap table') \ walk.seen, Alone(r)'
               PROVE  Cardinality(Newer(r)') >= walk.offset
    BY <1>1 DEF StillAhead
  <2>1. r \in table /\ Alone(r)
    BY <1>1, <1>2 DEF Alone
  <2>2. Cardinality(Newer(r)) >= walk.offset
    BY <2>1 DEF StillAhead
  <2>3. /\ Newer(r) \in SUBSET Newer(r)'
        /\ Newer(r) \in SUBSET table /\ Newer(r)' \in SUBSET table'
    BY <1>1 DEF Newer
  <2>4. IsFiniteSet(Newer(r)') /\ Cardinality(Newer(r)') \in Nat
          /\ Cardinality(Newer(r)) \in Nat
    <3>1. \A S \in SUBSET table' : IsFiniteSet(S) /\ Cardinality(S) \in Nat
      <4>1. IsFiniteSet(table)
        BY FiniteTable
      <4>2. IsFiniteSet(table')
        BY <1>1, <4>1, FS_AddElement
      <4>3. \A S \in SUBSET table' : IsFiniteSet(S)
        BY <4>2, FS_Subset
      <4> QED  BY <4>3, FS_CardinalityType
    <3> QED  BY <2>3, <3>1, FiniteTable
  <2>5. Cardinality(Newer(r)) <= Cardinality(Newer(r)')
    BY <2>3, <2>4, FS_Subset
  <2>6. walk.offset \in Nat
    BY DEF TypeOK
  <2> QED  BY <2>2, <2>4, <2>5, <2>6
<1>6. WalkMissesNothing'
  <2>1. walk.goal \cap table' = walk.goal \cap table
    BY <1>1, <1>2
  <2> QED  BY <1>1, <1>2, <2>1 DEF WalkMissesNothing
<1> QED  BY <1>3, <1>4, <1>5, <1>6

-----------------------------------------------------------------------------
(* Deleting *)

\* What any deletion keeps: the rows that stay, and what the reader has.
LEMMA DeleteKeeps ==
  ASSUME LogInv, NEW rows, NEW single \in BOOLEAN, Delete(rows, single)
  PROVE  /\ TypeOK' /\ InFlight' /\ WalkMissesNothing'
         /\ table' = table \ rows /\ UNCHANGED stamp /\ Records' = Records
         /\ walk'.state = walk.state /\ walk'.offset = walk.offset
         /\ walk'.seen = walk.seen /\ walk'.goal = walk.goal
         /\ walk'.spoilt = (walk.spoilt
                              \/ (walk.state = "reading" /\ single /\ rows # {}))
<1> USE DEF LogInv
<1>1. /\ table' = table \ rows /\ UNCHANGED <<stamp, held, channel, hand>>
      /\ Records' = Records
  BY DEF Delete, sinkVars, Records
<1>2. /\ walk'.state = walk.state /\ walk'.offset = walk.offset
      /\ walk'.seen = walk.seen /\ walk'.goal = walk.goal
      /\ walk'.spoilt = (walk.spoilt
                           \/ (walk.state = "reading" /\ single /\ rows # {}))
  BY DEF Delete, TypeOK
<1>3. TypeOK'
  <2>1. walk' \in [state : {"none", "reading", "done"}, offset : Nat,
                   seen : SUBSET Records, goal : SUBSET Records, spoilt : BOOLEAN]
    <3> DEFINE b == walk.spoilt \/ (walk.state = "reading" /\ single /\ rows # {})
    <3>1. b \in BOOLEAN
      OBVIOUS
    <3>2. walk' = [walk EXCEPT !.spoilt = b]
      BY DEF Delete
    <3> HIDE DEF b
    <3> QED  BY <3>1, <3>2 DEF TypeOK
  <2> QED  BY <1>1, <2>1 DEF TypeOK
<1>4. InFlight'
  BY <1>1, <1>2 DEF InFlight, Fresh
<1>5. WalkMissesNothing'
  BY <1>1, <1>2 DEF WalkMissesNothing
<1> QED  BY <1>1, <1>2, <1>3, <1>4, <1>5

\* and the rows a deletion takes were asked for no more.
LEMMA DeleteInv == LogInv /\ DeleteLogs => LogInv'
<1> SUFFICES ASSUME LogInv, DeleteLogs PROVE LogInv'
  OBVIOUS
<1>1. CASE Delete(table, FALSE)
  <2>1. table' = {} /\ TypeOK' /\ InFlight' /\ WalkMissesNothing'
    BY <1>1, DeleteKeeps
  <2> QED  BY <2>1 DEF LogInv, StillAhead
<1>2. ASSUME NEW r \in table, Delete({r}, TRUE) PROVE LogInv'
  <2>1. /\ TypeOK' /\ InFlight' /\ WalkMissesNothing'
        /\ walk'.state = walk.state
        /\ walk'.spoilt = (walk.spoilt
                             \/ (walk.state = "reading" /\ TRUE /\ {r} # {}))
    BY <1>2, DeleteKeeps
  <2>2. walk'.state = "reading" => walk'.spoilt
    BY <2>1
  <2> QED  BY <2>1, <2>2 DEF LogInv, StillAhead
<1>3. ASSUME NEW i \in Records, Delete(OlderThan(stamp[i]), FALSE) PROVE LogInv'
  <2>1. /\ TypeOK' /\ InFlight' /\ WalkMissesNothing'
        /\ table' = table \ OlderThan(stamp[i]) /\ stamp' = stamp /\ Records' = Records
        /\ walk'.state = walk.state /\ walk'.offset = walk.offset
        /\ walk'.seen = walk.seen /\ walk'.goal = walk.goal
    BY <1>3, DeleteKeeps
  <2>2. walk'.spoilt = (walk.spoilt
           \/ (walk.state = "reading" /\ FALSE /\ OlderThan(stamp[i]) # {}))
    BY <1>3, DeleteKeeps
  <2>3. StillAhead'
    <3> SUFFICES ASSUME walk.state = "reading" /\ ~walk.spoilt,
                        NEW r \in (walk.goal \cap table') \ walk.seen, Alone(r)'
                 PROVE  Cardinality(Newer(r)') >= walk.offset
      BY <2>1, <2>2 DEF StillAhead
    <3>1. r \in table /\ Alone(r) /\ r \notin OlderThan(stamp[i])
      BY <2>1 DEF Alone
    <3>2. /\ stamp[i] \in Nat /\ \A x \in table : stamp[x] \in Nat
      BY DEF LogInv, TypeOK, Records
    <3>3. stamp[r] >= stamp[i]
      BY <3>1, <3>2 DEF OlderThan
    <3>4. \A x \in Newer(r) : x \in table /\ stamp[x] > stamp[i]
      BY <3>1, <3>2, <3>3 DEF Newer
    <3>5. \A x \in Newer(r) : x \notin OlderThan(stamp[i])
      BY <3>2, <3>4 DEF OlderThan
    <3>6. Newer(r)' = Newer(r)
      BY <2>1, <3>5 DEF Newer
    <3> QED  BY <3>1, <3>6 DEF LogInv, StillAhead
  <2> QED  BY <2>1, <2>3 DEF LogInv
<1> QED  BY <1>1, <1>2, <1>3 DEF DeleteLogs

-----------------------------------------------------------------------------
(* Reading *)

\* A step of the reader alone.
LEMMA ReaderKeeps ==
  ASSUME LogInv, UNCHANGED <<sinkVars, table>>,
         walk' \in [state : {"none", "reading", "done"}, offset : Nat,
                    seen : SUBSET Records, goal : SUBSET Records, spoilt : BOOLEAN],
         walk'.goal \in {walk.goal, table, {}}
  PROVE  /\ TypeOK' /\ InFlight' /\ Records' = Records
         /\ \A r : Alone(r)' = Alone(r) /\ Newer(r)' = Newer(r)
<1> USE DEF LogInv, sinkVars
<1>1. Records' = Records /\ \A r : Alone(r)' = Alone(r) /\ Newer(r)' = Newer(r)
  BY DEF Records, Alone, Newer
<1>2. TypeOK'
  BY <1>1 DEF TypeOK
<1>3. InFlight'
  BY DEF InFlight, Fresh
<1> QED  BY <1>1, <1>2, <1>3

\* A walk begins with every row ahead of it,
LEMMA BeginInv == LogInv /\ BeginWalk => LogInv'
<1> SUFFICES ASSUME LogInv, BeginWalk PROVE LogInv'
  OBVIOUS
<1>1. /\ walk' = [state |-> "reading", offset |-> 0, seen |-> {}, goal |-> table,
                  spoilt |-> FALSE]
      /\ UNCHANGED <<sinkVars, table>>
  BY DEF BeginWalk, NoWalk
<1>2. /\ TypeOK' /\ InFlight' /\ \A r : Newer(r)' = Newer(r)
  <2>1. table \subseteq Records
    BY DEF LogInv, TypeOK
  <2> QED  BY <1>1, <2>1, ReaderKeeps
<1>3. StillAhead'
  <2>1. \A r : Cardinality(Newer(r)) \in Nat
    <3>1. \A r : Newer(r) \in SUBSET table
      BY DEF Newer
    <3> QED  BY <3>1, FiniteTable DEF LogInv
  <2> QED  BY <1>1, <1>2, <2>1 DEF StillAhead
<1>4. WalkMissesNothing'
  BY <1>1 DEF WalkMissesNothing
<1> QED  BY <1>2, <1>3, <1>4 DEF LogInv

\* and one that is done is forgotten.
LEMMA EndInv == LogInv /\ EndWalk => LogInv'
<1> SUFFICES ASSUME LogInv, EndWalk PROVE LogInv'
  OBVIOUS
<1>1. /\ walk' = [state |-> "none", offset |-> 0, seen |-> {}, goal |-> {},
                  spoilt |-> FALSE]
      /\ UNCHANGED <<sinkVars, table>>
  BY DEF EndWalk, NoWalk
<1>2. TypeOK' /\ InFlight'
  BY <1>1, ReaderKeeps
<1> QED  BY <1>1, <1>2 DEF LogInv, StillAhead, WalkMissesNothing

\* A page moves the reader on; the rows still to come stay ahead of it.
LEMMA PageInv ==
  ASSUME LogInv, walk.state = "reading", NEW limit \in Nat, NEW P \in SUBSET table,
         IsPage(P, limit, walk.offset), UNCHANGED <<sinkVars, table>>,
         NEW b \in BOOLEAN, walk' = [Received(P) EXCEPT !.spoilt = b],
         walk.spoilt => b,
         P = {} => b \/ limit # 0
  PROVE  LogInv'
<1> USE DEF LogInv
<1>1. P \subseteq Records /\ Cardinality(P) \in Nat
  <2>1. P \subseteq Records
    BY DEF TypeOK
  <2> QED  BY <2>1, FiniteTable
<1>2. /\ walk'.state = (IF P = {} THEN "done" ELSE "reading")
      /\ walk'.offset = walk.offset + Cardinality(P)
      /\ walk'.seen = walk.seen \cup P /\ walk'.goal = walk.goal
      /\ walk'.spoilt = b
  BY DEF Received, TypeOK
<1>3. walk' \in [state : {"none", "reading", "done"}, offset : Nat,
                 seen : SUBSET Records, goal : SUBSET Records, spoilt : BOOLEAN]
  <2> DEFINE st == IF P = {} THEN "done" ELSE walk.state
             off == walk.offset + Cardinality(P)
             got == walk.seen \cup P
  <2>1. /\ st \in {"none", "reading", "done"} /\ off \in Nat /\ got \in SUBSET Records
    BY <1>1 DEF TypeOK
  <2>2. walk' = [[walk EXCEPT !.offset = off, !.seen = got, !.state = st]
                    EXCEPT !.spoilt = b]
    BY DEF Received
  <2> HIDE DEF st, off, got
  <2> QED  BY <2>1, <2>2 DEF TypeOK
<1>4. /\ TypeOK' /\ InFlight' /\ Records' = Records
      /\ \A r : Alone(r)' = Alone(r) /\ Newer(r)' = Newer(r)
  BY <1>2, <1>3, ReaderKeeps
<1>5. walk.offset \in Nat
  BY DEF TypeOK
<1>6. StillAhead'
  <2> SUFFICES ASSUME walk'.state = "reading", ~b,
                      NEW r \in (walk.goal \cap table) \ (walk.seen \cup P), Alone(r)
               PROVE  Cardinality(Newer(r)) >= walk.offset + Cardinality(P)
    BY <1>2, <1>4 DEF StillAhead
  <2>1. ~walk.spoilt /\ r \in table \ P
    OBVIOUS
  <2>2. Cardinality(Newer(r)) >= walk.offset
    BY <2>1 DEF StillAhead
  <2> QED  BY <1>5, <2>1, <2>2, PageStaysAhead
<1>7. WalkMissesNothing'
  <2> SUFFICES ASSUME walk'.state = "done", ~b,
                      NEW r \in (walk.goal \cap table) \ (walk.seen \cup P)
               PROVE  \E s \in Records \ {r} : stamp[s] = stamp[r]
    BY <1>2, <1>4 DEF WalkMissesNothing, sinkVars
  <2> SUFFICES ASSUME Alone(r) PROVE FALSE
    BY DEF Alone
  <2>1. P = {} /\ limit \in Nat \ {0} /\ ~walk.spoilt
    BY <1>2
  <2>2. Cardinality(Newer(r)) < walk.offset
    BY <1>5, <2>1, EmptyPageIsTheEnd
  <2>3. Cardinality(Newer(r)) >= walk.offset
    BY <2>1 DEF StillAhead
  <2>4. Cardinality(Newer(r)) \in Nat
    <3>1. Newer(r) \in SUBSET table
      BY DEF Newer
    <3> QED  BY <3>1, FiniteTable
  <2> QED  BY <1>5, <2>2, <2>3, <2>4
<1> QED  BY <1>4, <1>6, <1>7

\* A page, whole or cut off, moves the reader over the rows it returns; an
\* empty one had no row left to return.
LEMMA GetInv == LogInv /\ (GetLogs \/ GetLogsCut) => LogInv'
<1> SUFFICES ASSUME LogInv, GetLogs \/ GetLogsCut PROVE LogInv'
  OBVIOUS
<1>0. walk.spoilt \in BOOLEAN
  BY DEF LogInv, TypeOK
<1>1. CASE GetLogs
  <2> PICK l \in RequestLimits, P \in SUBSET table :
         IsPage(P, RowLimit(l), walk.offset) /\ walk' = Received(P)
    BY <1>1 DEF GetLogs
  <2>1. RowLimit(l) \in Nat \ {0}
    BY LimitPositive
  <2>2. walk' = [Received(P) EXCEPT !.spoilt = walk.spoilt]
    BY DEF Received, LogInv, TypeOK
  <2>3. walk.state = "reading" /\ UNCHANGED <<sinkVars, table>>
    BY <1>1 DEF GetLogs
  <2> QED  BY <1>0, <2>1, <2>2, <2>3, PageInv
<1>2. CASE GetLogsCut
  <2> PICK l \in RequestLimits, P \in SUBSET table :
         /\ IsPage(P, Cardinality(P), walk.offset)
         /\ walk' = [Received(P) EXCEPT !.spoilt = @ \/ P = {}]
    BY <1>2 DEF GetLogsCut
  <2> DEFINE b == walk.spoilt \/ P = {}
  <2>1. Cardinality(P) \in Nat
    BY FiniteTable DEF LogInv
  <2>2. walk' = [Received(P) EXCEPT !.spoilt = b]
    BY DEF Received, LogInv, TypeOK
  <2>3. walk.state = "reading" /\ UNCHANGED <<sinkVars, table>>
    BY <1>2 DEF GetLogsCut
  <2>4. b \in BOOLEAN /\ (walk.spoilt => b) /\ (P = {} => b)
    BY <1>0
  <2> HIDE DEF b
  <2> QED  BY <2>1, <2>2, <2>3, <2>4, PageInv
<1> QED  BY <1>1, <1>2

\* Every step preserves the invariant.
LEMMA LogStep == LogInv /\ [Next]_vars => LogInv'
<1> SUFFICES ASSUME LogInv, [Next]_vars PROVE LogInv'
  OBVIOUS
<1>1. CASE UNCHANGED vars
  <2>1. UNCHANGED <<stamp, held, channel, hand, table, walk>>
    BY <1>1 DEF vars, sinkVars
  <2>2. TypeOK'
    BY <2>1 DEF LogInv, TypeOK, Records
  <2>3. InFlight'
    BY <2>1 DEF LogInv, InFlight, Fresh
  <2> QED  BY <2>1, <2>2, <2>3, SameWalk DEF LogInv
<1>2. CASE Next
  BY <1>2, MakeInv, HandleInv, TakeInv, InsertInv, DeleteInv, BeginInv, GetInv, EndInv
     DEF Next
<1> QED  BY <1>1, <1>2

\* The invariant holds for any records, capacity, limits and numbers of rows.
THEOREM LogInvariant == Spec => []LogInv
BY LogInit, LogStep, PTL DEF Spec

\* A reader that walks the pages to the empty one has seen every row there was
\* at its start that is still there and shares its time with no other, whatever
\* arrives and is purged by age meanwhile, unless a single row was deleted or a
\* broken query looked like the end (GetLogs, DeleteLogs).
THEOREM WalksMissNothing == Spec => []WalkMissesNothing
<1>1. LogInv => WalkMissesNothing
  BY DEF LogInv
<1> QED  BY <1>1, LogInvariant, PTL

-----------------------------------------------------------------------------
(***************************************************************************)
(* Server: start and shutdown.                                             *)
(***************************************************************************)

\* The shutdown has stopped the servers.
Late == {"caches", "closing", "closed"}

\* Nothing is left of a process that is gone but the rows of the jobs.
GoneIsGone ==
    ~Srv!Up => /\ stopper = "none" /\ grpc = "down" /\ http = "down"
               /\ queue = "off" /\ ~timedOut /\ \A j \in Jobs : work[j] = "none"

\* The pool is open from Boot to ClosePool, unless the gRPC port is taken.
PoolIsOpen ==
    /\ Srv!Up /\ main # "failed" /\ stopper \notin {"closing", "closed"} => pool = "open"
    /\ stopper \in {"closing", "closed"} => pool = "closed"
    /\ stopper = "closed" => \A j \in Jobs : work[j] # "querying"

\* A server that is down serves nobody, and both stay down once they were
\* drained, but for HTTP, which main may still bring up.
ServersDrain ==
    /\ main \in {"booting", "failed"} => stopper = "none" /\ grpc = "down" /\ http = "down"
    /\ grpc = "down" => \A c \in GrpcCalls : call[c] # "running"
    /\ http = "down" => \A c \in HttpCalls : call[c] # "running"
    /\ stopper \in Late \cup {"http"} => grpc = "down"
    /\ stopper \in Late => http # "draining"
    /\ main # "listening" => http # "up"

\* Once Stop has returned no job is at work unless it timed out, and none begins.
QueueDrains ==
    /\ timedOut => stopper \in Late \cup {"grpc", "http"}
    /\ stopper \in Late \cup {"queue", "grpc", "http"} => queue = "stopping"
    /\ stopper \in Late \cup {"grpc", "http"} =>
          \A j \in Jobs : work[j] \in {"working", "querying"} => timedOut
    /\ \A j \in Jobs : work[j] = "broken" => timedOut \/ main = "failed"

\* The inductive invariant of the process.
ServerInv == Srv!TypeOK /\ GoneIsGone /\ PoolIsOpen /\ ServersDrain /\ QueueDrains

-----------------------------------------------------------------------------
\* It holds before the first start.
LEMMA ServerInit == ASSUME Srv!ServerAssumption, Srv!Init PROVE ServerInv
<1> USE DEF Srv!ServerAssumption, Srv!Init
<1>1. Srv!TypeOK
  <2>1. starts \in 0..MaxStarts
    OBVIOUS
  <2> QED BY <2>1 DEF Srv!TypeOK
<1>2. GoneIsGone /\ PoolIsOpen /\ ServersDrain /\ QueueDrains
  BY DEF GoneIsGone, PoolIsOpen, ServersDrain, QueueDrains, Late, Srv!Up, Srv!Calls
<1> QED BY <1>1, <1>2 DEF ServerInv

\* Every step preserves it.
LEMMA ServerStep ==
    ASSUME Srv!ServerAssumption, ServerInv, [Srv!Next]_Srv!vars
    PROVE  ServerInv'
<1> USE DEF Srv!ServerAssumption, ServerInv, GoneIsGone, PoolIsOpen, ServersDrain,
            QueueDrains, Late, Srv!Up, Srv!serverVars, Srv!jobVars
<1>1. Srv!TypeOK'
  <2> USE DEF Srv!TypeOK
  <2>1. CASE Srv!Boot
    <3>1. starts + 1 \in 0..MaxStarts
      BY <2>1 DEF Srv!Boot
    <3> QED BY <2>1, <3>1 DEF Srv!Boot
  <2>7. CASE \/ Srv!ServeGrpc \/ Srv!GrpcListenFails \/ Srv!StartStopper
             \/ Srv!Notify \/ Srv!Listen \/ Srv!Signal
    BY <2>7 DEF Srv!ServeGrpc, Srv!GrpcListenFails, Srv!StartStopper, Srv!Notify, Srv!Listen, Srv!Signal
  <2>2. CASE Srv!Die \/ Srv!Exit \/ Srv!ExitFailed
    <3>1. Srv!ProcessGone /\ job' = job /\ main' \in {"down", "exited"}
      BY <2>2 DEF Srv!Die, Srv!Exit, Srv!ExitFailed, Srv!Gone
    <3>2. call' \in [Srv!Calls -> {"none", "running", "over"}]
      BY <3>1 DEF Srv!ProcessGone
    <3> QED BY <3>1, <3>2 DEF Srv!ProcessGone
  <2>3. CASE Srv!StopQueue \/ Srv!QueueStopped \/ Srv!GrpcStopped \/ Srv!HttpStopped
    BY <2>3 DEF Srv!StopQueue, Srv!QueueStopped, Srv!GrpcStopped, Srv!HttpStopped
  <2>8. CASE Srv!ListenReturns \/ Srv!ClosePool \/ Srv!PoolClosed
    BY <2>8 DEF Srv!ListenReturns, Srv!ClosePool, Srv!PoolClosed
  <2>4. CASE \E c \in Srv!Calls : Srv!Accept(c) \/ Srv!Return(c) \/ Srv!StreamTelemetry(c)
                                    \/ Srv!Stream(c)
    BY <2>4 DEF Srv!Accept, Srv!Return, Srv!StreamTelemetry, Srv!Stream, Srv!Over
  <2>5. CASE \E j \in Jobs : Srv!EnqueueProcessFile(j) \/ Srv!JobStep(j) \/ Srv!Work(j)
    BY <2>5
       DEF Srv!EnqueueProcessFile, Srv!JobStep, Srv!Work, Srv!Fetch, Srv!Query, Srv!Rescue
  <2>6. CASE UNCHANGED Srv!vars
    BY <2>6 DEF Srv!vars
  <2> QED BY <2>1, <2>2, <2>3, <2>4, <2>5, <2>6, <2>7, <2>8 DEF Srv!Next, Srv!Stopping
<1>2. CASE \/ Srv!Boot
           \/ Srv!ServeGrpc
           \/ Srv!GrpcListenFails
           \/ Srv!StartStopper
           \/ Srv!Notify
           \/ Srv!Listen
           \/ Srv!Signal
  BY <1>1, <1>2
     DEF Srv!TypeOK, Srv!Boot, Srv!ServeGrpc, Srv!GrpcListenFails, Srv!StartStopper,
         Srv!Notify, Srv!Listen, Srv!Signal
<1>3. CASE Srv!Die \/ Srv!Exit \/ Srv!ExitFailed
  BY <1>1, <1>3
     DEF Srv!TypeOK, Srv!Die, Srv!Exit, Srv!ExitFailed, Srv!Gone, Srv!ProcessGone, Srv!Calls
<1>4. CASE Srv!StopQueue \/ Srv!QueueStopped
  BY <1>1, <1>4 DEF Srv!TypeOK, Srv!StopQueue, Srv!QueueStopped, Srv!AtWork
<1>5. CASE Srv!GrpcStopped \/ Srv!HttpStopped
  BY <1>1, <1>5 DEF Srv!TypeOK, Srv!GrpcStopped, Srv!HttpStopped, Srv!Running
<1>6. CASE Srv!ListenReturns \/ Srv!ClosePool \/ Srv!PoolClosed
  BY <1>1, <1>6
     DEF Srv!TypeOK, Srv!ListenReturns, Srv!ClosePool, Srv!PoolClosed, Srv!NobodyQueries
<1>7. CASE \E c \in Srv!Calls : Srv!Accept(c) \/ Srv!Return(c) \/ Srv!StreamTelemetry(c)
                                  \/ Srv!Stream(c)
  BY <1>1, <1>7
     DEF Srv!TypeOK, Srv!Accept, Srv!Return, Srv!StreamTelemetry, Srv!Stream, Srv!Over,
         Srv!Calls
<1>8. CASE \E j \in Jobs : Srv!EnqueueProcessFile(j) \/ Srv!JobStep(j) \/ Srv!Work(j)
  <2>1. CASE \E j \in Jobs : Srv!EnqueueProcessFile(j) \/ Srv!Rescue(j)
    BY <1>1, <2>1 DEF Srv!EnqueueProcessFile, Srv!Rescue
  <2>2. ASSUME NEW j \in Jobs, Srv!Fetch(j) \/ Srv!Query(j) \/ Srv!Work(j)
        PROVE  ServerInv'
    <3>1. UNCHANGED <<Srv!serverVars, pool, call, queue, timedOut>> /\ Srv!Up
      BY <2>2 DEF Srv!TypeOK, Srv!Fetch, Srv!Query, Srv!Work
    <3>2. \A i \in Jobs : i # j => work'[i] = work[i]
      BY <2>2 DEF Srv!TypeOK, Srv!Fetch, Srv!Query, Srv!Work
    <3>3. work'[j] = "broken" => timedOut \/ main = "failed"
      BY <2>2 DEF Srv!TypeOK, Srv!Fetch, Srv!Query, Srv!Work
    <3>4. work'[j] \in {"working", "querying"} =>
             work[j] \in {"working", "querying"} \/ queue = "on"
      BY <2>2 DEF Srv!TypeOK, Srv!Fetch, Srv!Query, Srv!Work
    <3>5. work'[j] = "querying" => pool = "open"
      BY <2>2 DEF Srv!TypeOK, Srv!Fetch, Srv!Query, Srv!Work
    <3> QED BY <1>1, <3>1, <3>2, <3>3, <3>4, <3>5 DEF Srv!TypeOK
  <2> QED BY <1>8, <2>1, <2>2 DEF Srv!JobStep
<1>9. CASE UNCHANGED Srv!vars
  BY <1>1, <1>9 DEF Srv!vars
<1> QED
  BY <1>2, <1>3, <1>4, <1>5, <1>6, <1>7, <1>8, <1>9 DEF Srv!Next, Srv!Stopping

\* The invariant holds for any calls, jobs and number of starts.
THEOREM ServerInvariant == Srv!Spec => []ServerInv
<1> USE ProcessAssumption
<1>1. Srv!Init => ServerInv
  BY ServerInit
<1>2. ServerInv /\ [Srv!Next]_Srv!vars => ServerInv'
  BY ServerStep
<1> QED BY <1>1, <1>2, PTL DEF Srv!Spec

\* Whoever wants a connection finds the pool open, whatever the order in which
\* calls, jobs and the signal arrive, but for a handler of an HTTP server that
\* came up late, and a worker that Stop gave up on or that a gRPC port already
\* taken leaves behind (cmd/server/main.go:74, 156-159, 200).
THEOREM PoolOutlivesUsers == Srv!Spec => []PoolOutlivesItsUsers
<1> USE ProcessAssumption
<1>1. ServerInv => Srv!PoolOutlivesItsUsers
  BY DEF ServerInv, GoneIsGone, PoolIsOpen, ServersDrain, QueueDrains, Late, Srv!Up,
         Srv!TypeOK, Srv!PoolOutlivesItsUsers, Srv!ListensLate, Srv!Running, Srv!Calls
<1> QED BY <1>1, ServerInvariant, PTL DEF PoolOutlivesItsUsers

\* The process does not exit on its own while a handler runs or a job queries.
THEOREM ExitsCutNobody == Srv!Spec => ExitCutsNobody
<1> USE ProcessAssumption
<1> DEFINE CutsNobody == main' = "exited" /\ main # "exited"
                           => Srv!Running(Srv!Calls) = {} /\ Srv!NobodyQueries
<1>1. ASSUME ServerInv, [Srv!Next]_Srv!vars PROVE CutsNobody
  <2>1. SUFFICES ASSUME main' = "exited", main # "exited"
                 PROVE  Srv!Running(Srv!Calls) = {} /\ Srv!NobodyQueries
    OBVIOUS
  <2>2. Srv!Exit \/ Srv!ExitFailed
    BY <1>1, <2>1
       DEF Srv!Next, Srv!Stopping, Srv!JobStep, Srv!Boot, Srv!ServeGrpc,
           Srv!GrpcListenFails, Srv!StartStopper, Srv!Notify, Srv!Listen, Srv!Signal, Srv!Die, Srv!StopQueue, Srv!QueueStopped,
           Srv!GrpcStopped, Srv!ListenReturns, Srv!HttpStopped, Srv!ClosePool,
           Srv!PoolClosed, Srv!Accept, Srv!Return, Srv!StreamTelemetry, Srv!Stream,
           Srv!Over, Srv!EnqueueProcessFile, Srv!Fetch, Srv!Query, Srv!Rescue, Srv!Work,
           Srv!vars, Srv!serverVars
  <2> QED BY <1>1, <2>2
             DEF Srv!Exit, Srv!ExitFailed, Srv!NobodyQueries, ServerInv, ServersDrain, PoolIsOpen, Srv!TypeOK, Late,
                 Srv!Running, Srv!Calls
<1> QED BY <1>1, ServerInvariant, PTL DEF Srv!Spec, Srv!ExitCutsNobody, ExitCutsNobody
-----------------------------------------------------------------------------
\* The steps of the shutdown, in their order.
Follows == {<<"armed", "queue">>, <<"queue", "grpc">>, <<"grpc", "http">>,
            <<"http", "caches">>, <<"caches", "closing">>, <<"closing", "closed">>}

\* The goroutine stays where it is, or takes the next step.
Forward == stopper' = stopper \/ <<stopper, stopper'>> \in Follows

\* A step of the goroutine or of main is due, by its guard.
StepIsDue ==
    \/ main = "serving" /\ stopper # "none"
    \/ stopper \in {"armed", "queue", "caches"}
    \/ stopper = "grpc" /\ Srv!Running(GrpcCalls) = {}
    \/ stopper = "http" /\ Srv!Running(HttpCalls) = {}
    \/ stopper = "closing" /\ \A j \in Jobs : work[j] # "querying"
    \/ main = "listening" /\ http # "up"
    \/ main = "waiting" /\ stopper = "closed"

\* What the goroutine waits for, each at its own step: calls that have not
\* returned, or a query that has not ended. It accepts no more gRPC calls then,
\* and hands out no more jobs.
WaitsForWork ==
    \/ stopper = "grpc" /\ grpc = "draining" /\ Srv!Running(GrpcCalls) # {}
    \/ stopper = "http" /\ grpc = "down" /\ Srv!Running(HttpCalls) # {}
    \/ stopper = "closing" /\ queue = "stopping" /\ \E j \in Jobs : work[j] = "querying"

\* A process that got its signal goes on to its end: a step is due, or it waits
\* for work it accepted, unless HTTP came up after its own shutdown. Main and the
\* goroutine never wait for each other (the safety part of ShutdownFinishes).
HeldUpOnlyByWork == signalled => StepIsDue \/ WaitsForWork \/ Srv!ListensLate

\* A shutdown skips no step, repeats none and takes none back.
StepByStep == [][signalled /\ signalled' => Forward]_Srv!vars

\* Only an armed goroutine hears of the signal, and gRPC drains while it is
\* stopped. Added to the inductive invariant for the theorem below.
SignalIsHeard ==
    /\ signalled => Srv!Up /\ main \notin {"booting", "failed"} /\ stopper \notin {"none", "starting"}
    /\ stopper = "grpc" => grpc = "draining"
    /\ Srv!Up /\ stopper # "none" => main \notin {"booting", "failed"}

\* Every step keeps the signal heard, and goes forward.
LEMMA SignalStep ==
    ASSUME ServerInv, SignalIsHeard, [Srv!Next]_Srv!vars
    PROVE  SignalIsHeard' /\ (signalled /\ signalled' => Forward)
<1> USE DEF SignalIsHeard, Srv!Up, Srv!serverVars, Srv!jobVars, Follows, Forward
<1>0. Srv!TypeOK /\ ServersDrain
  BY DEF ServerInv
<1>1. CASE \/ Srv!Boot
           \/ Srv!ServeGrpc
           \/ Srv!GrpcListenFails
           \/ Srv!StartStopper
           \/ Srv!Notify
           \/ Srv!Listen
           \/ Srv!Signal
  BY <1>0, <1>1
     DEF Srv!TypeOK, ServersDrain, Srv!Boot, Srv!ServeGrpc, Srv!GrpcListenFails,
         Srv!StartStopper, Srv!Notify, Srv!Listen, Srv!Signal, GoneIsGone, ServerInv
<1>2. CASE Srv!Die \/ Srv!Exit \/ Srv!ExitFailed
  BY <1>0, <1>2 DEF Srv!Die, Srv!Exit, Srv!ExitFailed, Srv!Gone, Srv!ProcessGone
<1>3. CASE Srv!StopQueue \/ Srv!QueueStopped \/ Srv!GrpcStopped \/ Srv!HttpStopped
  BY <1>0, <1>3 DEF Srv!StopQueue, Srv!QueueStopped, Srv!GrpcStopped, Srv!HttpStopped
<1>4. CASE Srv!ListenReturns \/ Srv!ClosePool \/ Srv!PoolClosed
  BY <1>0, <1>4 DEF Srv!ListenReturns, Srv!ClosePool, Srv!PoolClosed
<1>5. CASE \E c \in Srv!Calls : Srv!Accept(c) \/ Srv!Return(c) \/ Srv!StreamTelemetry(c)
                                  \/ Srv!Stream(c)
  BY <1>0, <1>5 DEF Srv!Accept, Srv!Return, Srv!StreamTelemetry, Srv!Stream, Srv!Over
<1>6. CASE \E j \in Jobs : Srv!EnqueueProcessFile(j) \/ Srv!JobStep(j) \/ Srv!Work(j)
  BY <1>0, <1>6
     DEF Srv!EnqueueProcessFile, Srv!JobStep, Srv!Work, Srv!Fetch, Srv!Query, Srv!Rescue
<1>7. CASE UNCHANGED Srv!vars
  BY <1>0, <1>7 DEF Srv!vars
<1> QED BY <1>1, <1>2, <1>3, <1>4, <1>5, <1>6, <1>7 DEF Srv!Next, Srv!Stopping

\* For any calls, streams, jobs and number of starts.
THEOREM ShutdownGoesOn == Srv!Spec => []HeldUpOnlyByWork /\ StepByStep
<1> USE ProcessAssumption
<1>1. Srv!Init => SignalIsHeard
  BY DEF Srv!Init, SignalIsHeard, Srv!Up
<1>2. ServerInv /\ SignalIsHeard /\ [Srv!Next]_Srv!vars => SignalIsHeard'
  BY SignalStep
<1>3. ServerInv /\ SignalIsHeard /\ [Srv!Next]_Srv!vars
        => [signalled /\ signalled' => Forward]_Srv!vars
  BY SignalStep
<1>4. ServerInv /\ SignalIsHeard => HeldUpOnlyByWork
  <2>1. SUFFICES ASSUME ServerInv, SignalIsHeard, signalled
                 PROVE  StepIsDue \/ WaitsForWork \/ Srv!ListensLate
    BY DEF HeldUpOnlyByWork
  <2>2. /\ main \in {"serving", "listening", "waiting"}
        /\ stopper \in {"armed", "queue", "grpc", "http"} \cup Late
    BY <2>1 DEF SignalIsHeard, ServerInv, Srv!TypeOK, Srv!Up, Late
  <2>3. CASE stopper \in {"armed", "queue", "caches"}
    BY <2>3 DEF StepIsDue
  <2>4. CASE stopper \in {"grpc", "http", "closing"}
    BY <2>1, <2>4 DEF StepIsDue, WaitsForWork, ServerInv, SignalIsHeard, ServersDrain,
                      QueueDrains, Late
  <2>5. CASE stopper = "closed"
    BY <2>2, <2>5 DEF StepIsDue, Srv!ListensLate
  <2> QED BY <2>2, <2>3, <2>4, <2>5 DEF Late
<1> QED BY <1>1, <1>2, <1>3, <1>4, ServerInvariant, PTL DEF Srv!Spec, StepByStep
=============================================================================
