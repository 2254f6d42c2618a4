----------------------------- MODULE Pastes_proofs -----------------------------
(***************************************************************************)
(* Proofs about Pastes, for any pastes, slugs, contexts (HTTP and others), *)
(* counting goroutines and retries.                                        *)
(***************************************************************************)
EXTENDS Pastes, FiniteSetTheorems, TLAPS

-----------------------------------------------------------------------------
(* The inductive invariant, in named parts. *)

\* A paste has a slug once it was inserted, and nothing was read of it before.
RowOK ==
    \A p \in Pastes :
        /\ row[p] \in {"live", "gone"} => slug[p] \in Slugs
        /\ row[p] \in {"unused", "failed"} =>
              /\ slug[p] = NoSlug /\ views[p] = 0 /\ delivered[p] = 0
              /\ \A k \in Counters : of[k] # p
        /\ row[p] = "unused" => tries[p] < MaxRetries

\* slug is UNIQUE.
SlugOK == \A p, q \in Live : slug[p] = slug[q] => p = q

\* A request that goes on has found a paste, and its slug is still in the
\* memory of its context.
CallOK ==
    \A c \in Contexts :
        /\ pc[c] = "idle" => got[c] = NoPaste
        /\ pc[c] # "idle" => /\ got[c] \in Pastes
                             /\ row[got[c]] \in {"live", "gone"}
                             /\ path[c] = slug[got[c]]
        /\ pc[c] = "burn" => got[c] \in Burn

\* Goroutines count for pastes that were inserted.
GoroutineOK ==
    \A k \in Counters : of[k] # NoPaste =>
        row[of[k]] \in {"live", "gone"} /\ from[k] \in Contexts

\* Whoever has passed the DELETE of a burn paste leaves no row of it.
BurntIsGone ==
    /\ \A c \in Contexts : (pc[c] = "open" /\ got[c] \in Burn) =>
          row[got[c]] = "gone" \/ got[c] \in spared
    /\ \A p \in (Burn \cap answered) \ spared : row[p] = "gone"

IInv ==
    /\ TypeOK
    /\ RowOK
    /\ SlugOK
    /\ CallOK
    /\ GoroutineOK
    /\ BurntIsGone
    /\ GoneOnRequest
    /\ ViewsAreReads

-----------------------------------------------------------------------------
(* Goroutines that are still to count. *)

LEMMA PendingFinite == \A p \in Pastes : IsFiniteSet(Pending(p))
BY FiniteAssumption, FS_Subset DEF Pending

\* A goroutine that starts adds one pending view, to its paste only.
LEMMA PendingMore ==
    ASSUME TypeOK, NEW k \in Counters, NEW q \in Pastes,
           of[k] = NoPaste, of' = [of EXCEPT ![k] = q]
    PROVE  \A p \in Pastes :
              Cardinality(Pending(p)') = IF p = q THEN Cardinality(Pending(p)) + 1
                                         ELSE Cardinality(Pending(p))
<1> TAKE p \in Pastes
<1>1. CASE p = q
  <2>1. Pending(p)' = Pending(p) \cup {k} /\ k \notin Pending(p)
    BY <1>1, NothingAssumption DEF TypeOK, Pending
  <2> QED BY <1>1, <2>1, PendingFinite, FS_AddElement
<1>2. CASE p # q
  <2>1. Pending(p)' = Pending(p)
    BY <1>2, NothingAssumption DEF TypeOK, Pending
  <2> QED BY <1>2, <2>1
<1> QED BY <1>1, <1>2

\* A goroutine that ends takes one pending view away, of its paste only.
LEMMA PendingLess ==
    ASSUME TypeOK, NEW k \in Counters, of[k] # NoPaste,
           of' = [of EXCEPT ![k] = NoPaste]
    PROVE  \A p \in Pastes :
              /\ p # of[k] => Cardinality(Pending(p)') = Cardinality(Pending(p))
              /\ p = of[k] => Cardinality(Pending(p)) = Cardinality(Pending(p)') + 1
<1> TAKE p \in Pastes
<1>1. CASE p = of[k]
  <2>1. Pending(p)' = Pending(p) \ {k} /\ k \in Pending(p)
    BY <1>1, NothingAssumption DEF TypeOK, Pending
  <2>2. Cardinality(Pending(p)) \in Nat
    BY PendingFinite, FS_CardinalityType
  <2>3. Cardinality(Pending(p)') = Cardinality(Pending(p)) - 1
    BY <2>1, PendingFinite, FS_RemoveElement
  <2> QED BY <1>1, <2>2, <2>3
<1>2. CASE p # of[k]
  <2>1. Pending(p)' = Pending(p)
    BY <1>2, NothingAssumption DEF TypeOK, Pending
  <2> QED BY <1>2, <2>1
<1> QED BY <1>1, <1>2

\* The views of a paste stay right while nothing of it changes.
LEMMA ViewsKept ==
    ASSUME ViewsAreReads, UNCHANGED <<slug, views, delivered, of, astray>>,
           \A p \in Pastes : row'[p] = "live" => row[p] = "live"
    PROVE  ViewsAreReads'
BY DEF ViewsAreReads, Live, Sole, Pending

-----------------------------------------------------------------------------
LEMMA InitInv == Init => IInv
<1> SUFFICES ASSUME Init PROVE IInv
  OBVIOUS
<1>1. TypeOK /\ RowOK
  BY BoundAssumption, NothingAssumption DEF Init, TypeOK, RowOK
<1>2. SlugOK /\ CallOK /\ GoroutineOK /\ BurntIsGone
  BY DEF Init, SlugOK, Live, CallOK, GoroutineOK, BurntIsGone
<1>3. GoneOnRequest /\ ViewsAreReads
  BY DEF Init, GoneOnRequest, ViewsAreReads, Live
<1> QED BY <1>1, <1>2, <1>3 DEF IInv

\* CreatePaste keeps the invariant.
LEMMA InsertInv ==
    ASSUME IInv, NEW p \in Pastes, NEW s \in Slugs, Insert(p, s)
    PROVE  IInv'
<1> USE NothingAssumption, BoundAssumption DEF IInv, call, goroutine, history
<1>1. CASE Named(s) = {}
  <2>1. /\ row[p] = "unused"
        /\ row' = [row EXCEPT ![p] = "live"] /\ slug' = [slug EXCEPT ![p] = s]
        /\ UNCHANGED <<tries, expired, views, call, goroutine, history>>
    BY <1>1 DEF Insert
  <2>2. TypeOK' /\ RowOK'
    BY <2>1 DEF TypeOK, RowOK
  <2>3. SlugOK'
    BY <1>1, <2>1 DEF TypeOK, SlugOK, Live, Named
  <2>4. CallOK' /\ GoroutineOK' /\ BurntIsGone'
    BY <2>1 DEF TypeOK, CallOK, GoroutineOK, BurntIsGone
  <2>5. \A q \in Pastes : (row[q] \in {"live", "gone"} /\ Sole(q)') => Sole(q)
    BY <2>1 DEF TypeOK, RowOK, Sole
  <2>6. GoneOnRequest'
    BY <2>1, <2>5 DEF TypeOK, GoneOnRequest
  <2>7. Pending(p) = {}
    BY <2>1 DEF RowOK, Pending
  <2>8. Cardinality(Pending(p)) = 0
    BY <2>7, FS_EmptySet
  <2>9. \A q \in Pastes : Pending(q)' = Pending(q)
    BY <2>1 DEF Pending
  <2>10. ViewsAreReads'
    BY <2>1, <2>5, <2>8, <2>9 DEF TypeOK, RowOK, ViewsAreReads, Live
  <2> QED BY <2>2, <2>3, <2>4, <2>6, <2>10
<1>2. CASE Named(s) # {}
  <2>1. /\ row[p] = "unused"
        /\ tries' = [tries EXCEPT ![p] = @ + 1]
        /\ row' = IF tries[p] + 1 = MaxRetries THEN [row EXCEPT ![p] = "failed"] ELSE row
        /\ UNCHANGED <<slug, expired, views, call, goroutine, history>>
    BY <1>2 DEF Insert
  <2>2. TypeOK' /\ RowOK'
    BY <2>1 DEF TypeOK, RowOK
  <2>3. SlugOK' /\ CallOK' /\ GoroutineOK' /\ BurntIsGone'
    BY <2>1 DEF TypeOK, SlugOK, Live, CallOK, GoroutineOK, BurntIsGone
  <2>4. GoneOnRequest'
    BY <2>1 DEF TypeOK, GoneOnRequest, Sole
  <2>5. ViewsAreReads'
    BY <2>1, ViewsKept DEF TypeOK
  <2> QED BY <2>2, <2>3, <2>4, <2>5
<1> QED BY <1>1, <1>2

\* Reading, up to the answer, keeps the invariant.
LEMMA ReadInv ==
    ASSUME IInv, NEW c \in Contexts,
           \/ \E s \in Slugs, key \in BOOLEAN : Fetch(c, s, key)
           \/ BurnRow(c) \/ BurnFails(c) \/ OpenRefused(c)
    PROVE  IInv'
<1> USE NothingAssumption, KindAssumption DEF IInv, table, goroutine, history, At, End
<1>1. ASSUME NEW s \in Slugs, NEW key \in BOOLEAN, Fetch(c, s, key) PROVE IInv'
  <2>1. UNCHANGED <<table, views, goroutine, history>>
    BY <1>1 DEF Fetch
  <2>2. TypeOK' /\ CallOK'
    BY <1>1 DEF Fetch, Found, TypeOK, CallOK, RowOK, Named, Live
  <2>3. BurntIsGone'
    BY <1>1 DEF Fetch, Found, TypeOK, CallOK, BurntIsGone
  <2>4. RowOK' /\ SlugOK' /\ GoroutineOK' /\ GoneOnRequest'
    BY <2>1 DEF RowOK, SlugOK, Live, GoroutineOK, GoneOnRequest, Sole
  <2>5. ViewsAreReads'
    BY <2>1, ViewsKept
  <2> QED BY <2>2, <2>3, <2>4, <2>5
<1>2. CASE BurnRow(c)
  <2>1. /\ row' = [p \in Pastes |-> IF p \in Named(path[c]) THEN "gone" ELSE row[p]]
        /\ pc[c] = "burn" /\ pc' = [pc EXCEPT ![c] = "open"]
        /\ UNCHANGED <<slug, tries, expired, views, path, got, opens, goroutine, history>>
    BY <1>2 DEF BurnRow
  <2>2. TypeOK' /\ RowOK'
    BY <2>1 DEF TypeOK, RowOK, Named, Live
  <2>3. SlugOK' /\ CallOK' /\ GoroutineOK'
    BY <2>1 DEF TypeOK, SlugOK, Live, CallOK, GoroutineOK
  <2>4. row'[got[c]] = "gone"
    BY <2>1 DEF CallOK, Named, Live
  <2>5. BurntIsGone'
    BY <2>1, <2>4 DEF TypeOK, BurntIsGone
  <2>6. \A p \in Named(path[c]) : p \in Burn \/ ~Sole(p)
    BY <2>1 DEF CallOK, Named, Live, Sole
  <2>7. GoneOnRequest'
    BY <2>1, <2>6 DEF GoneOnRequest, Sole
  <2>8. ViewsAreReads'
    BY <2>1, ViewsKept
  <2> QED BY <2>2, <2>3, <2>5, <2>7, <2>8
<1>3. CASE BurnFails(c)
  <2>1. UNCHANGED <<table, views, path, got, opens, goroutine, delivered, answered, removed, astray>>
    BY <1>3 DEF BurnFails
  <2>2. TypeOK' /\ CallOK' /\ BurntIsGone'
    BY <1>3 DEF BurnFails, TypeOK, CallOK, BurntIsGone
  <2>3. RowOK' /\ SlugOK' /\ GoroutineOK' /\ GoneOnRequest'
    BY <2>1 DEF RowOK, SlugOK, Live, GoroutineOK, GoneOnRequest, Sole
  <2>4. ViewsAreReads'
    BY <2>1, ViewsKept
  <2> QED BY <2>2, <2>3, <2>4
<1>4. CASE OpenRefused(c)
  <2>1. UNCHANGED <<table, views, path, goroutine, delivered, spared, removed, astray>>
    BY <1>4 DEF OpenRefused
  <2>2. TypeOK' /\ CallOK' /\ BurntIsGone'
    BY <1>4 DEF OpenRefused, TypeOK, CallOK, BurntIsGone
  <2>3. RowOK' /\ SlugOK' /\ GoroutineOK' /\ GoneOnRequest'
    BY <2>1 DEF RowOK, SlugOK, Live, GoroutineOK, GoneOnRequest, Sole
  <2>4. ViewsAreReads'
    BY <2>1, ViewsKept
  <2> QED BY <2>2, <2>3, <2>4
<1> QED BY <1>1, <1>2, <1>3, <1>4

\* The answer, which starts a goroutine, keeps the invariant.
LEMMA OpenInv ==
    ASSUME IInv, NEW c \in Contexts, NEW k \in Counters, Open(c, k)
    PROVE  IInv'
<1> USE NothingAssumption DEF IInv
<1>1. /\ pc[c] = "open" /\ got[c] \in Pastes /\ of[k] = NoPaste
      /\ of' = [of EXCEPT ![k] = got[c]] /\ from' = [from EXCEPT ![k] = c]
      /\ delivered' = [delivered EXCEPT ![got[c]] = @ + 1]
      /\ answered' = answered \cup {got[c]}
      /\ End(c)
      /\ UNCHANGED <<row, slug, tries, expired, views, path, spared, removed, astray>>
  BY DEF Open, At, table
<1>2. TypeOK' /\ CallOK'
  BY <1>1 DEF TypeOK, CallOK, End
<1>3. RowOK' /\ GoroutineOK'
  BY <1>1 DEF TypeOK, RowOK, CallOK, GoroutineOK
<1>4. SlugOK' /\ GoneOnRequest'
  BY <1>1 DEF SlugOK, Live, GoneOnRequest, Sole
<1>5. BurntIsGone'
  BY <1>1 DEF TypeOK, BurntIsGone, End
<1>6. \A p \in Pastes : Cardinality(Pending(p)) \in Nat
  BY PendingFinite, FS_CardinalityType
<1>7. ASSUME NEW p \in Live, p \notin astray, Sole(p)
      PROVE  views[p] + Cardinality(Pending(p)') = delivered'[p]
  <2>1. p \in Pastes /\ views[p] \in Nat /\ delivered[p] \in Nat
    BY <1>7 DEF TypeOK, Live
  <2>2. views[p] + Cardinality(Pending(p)) = delivered[p]
    BY <1>7 DEF ViewsAreReads
  <2>3. Cardinality(Pending(p)') = IF p = got[c] THEN Cardinality(Pending(p)) + 1
                                   ELSE Cardinality(Pending(p))
    BY <1>1, <2>1, PendingMore
  <2>4. delivered'[p] = IF p = got[c] THEN delivered[p] + 1 ELSE delivered[p]
    BY <1>1, <2>1 DEF TypeOK
  <2> HIDE DEF IInv
  <2> QED BY <1>6, <2>1, <2>2, <2>3, <2>4
<1>8. ViewsAreReads'
  BY <1>1, <1>7 DEF ViewsAreReads, Live, Sole
<1> QED BY <1>2, <1>3, <1>4, <1>5, <1>8

\* What the goroutines do keeps the invariant, whatever slug they see.
LEMMA CountInv ==
    ASSUME IInv, NEW k \in Counters, Count(k) \/ CountFails(k)
    PROVE  IInv'
<1> USE NothingAssumption DEF IInv
<1>1. /\ of[k] \in Pastes
      /\ of' = [of EXCEPT ![k] = NoPaste] /\ from' = [from EXCEPT ![k] = NoContext]
      /\ UNCHANGED <<row, slug, tries, expired, pc, path, got, opens,
                     delivered, answered, spared, removed>>
  BY DEF TypeOK, Count, CountFails, Free, table, call
<1>2. SlugOK' /\ CallOK' /\ BurntIsGone' /\ GoneOnRequest'
  BY <1>1 DEF SlugOK, Live, CallOK, BurntIsGone, GoneOnRequest, Sole
<1>3. \A p \in Pastes : Cardinality(Pending(p)) \in Nat /\ Cardinality(Pending(p)') \in Nat
  <2>1. \A p \in Pastes : IsFiniteSet(Pending(p)')
    BY FiniteAssumption, FS_Subset DEF Pending
  <2> QED BY <2>1, PendingFinite, FS_CardinalityType
<1>4. ASSUME NEW s \in Seen(k),
             views' = [p \in Pastes |-> IF p \in Named(s) THEN views[p] + 1 ELSE views[p]],
             astray' = IF s = slug[of[k]] THEN astray ELSE astray \cup {of[k]} \cup Named(s)
      PROVE  IInv'
  <2>1. TypeOK' /\ RowOK' /\ GoroutineOK'
    BY <1>1, <1>4 DEF TypeOK, RowOK, GoroutineOK, Named, Live
  <2>2. ASSUME NEW p \in Live, p \notin astray', Sole(p)
        PROVE  views'[p] + Cardinality(Pending(p)') = delivered[p]
    <3>1. p \notin astray /\ views[p] + Cardinality(Pending(p)) = delivered[p]
      BY <1>4, <2>2 DEF ViewsAreReads
    <3>2. CASE p = of[k]
      <4>1. s = slug[p] /\ p \in Named(s)
        BY <1>4, <2>2, <3>2 DEF Named
      <4>2. views'[p] = views[p] + 1
        BY <1>4, <4>1 DEF Named, Live
      <4>3. p \in Pastes /\ views[p] \in Nat
        BY <1>1, <3>2 DEF TypeOK
      <4>4. Cardinality(Pending(p)) = Cardinality(Pending(p)') + 1
        BY <1>1, <3>2, PendingLess, NothingAssumption
      <4>5. Cardinality(Pending(p)') \in Nat
        BY <1>3, <4>3
      <4> HIDE DEF IInv
      <4> QED BY <3>1, <4>2, <4>3, <4>4, <4>5
    <3>3. CASE p # of[k]
      <4>1. p \notin Named(s)
        BY <1>1, <1>4, <2>2, <3>3 DEF Sole, Named
      <4>2. views'[p] = views[p]
        BY <1>4, <4>1 DEF Live
      <4> QED BY <1>1, <3>1, <3>3, <4>2, PendingLess DEF Live
    <3> QED BY <3>2, <3>3
  <2>3. ViewsAreReads'
    BY <1>1, <2>2 DEF ViewsAreReads, Live, Sole
  <2> QED BY <1>2, <2>1, <2>3
<1>5. CASE CountFails(k)
  <2>1. views' = views /\ astray' = astray \cup {of[k]}
    BY <1>5 DEF CountFails
  <2>2. TypeOK' /\ RowOK' /\ GoroutineOK'
    BY <1>1, <2>1 DEF TypeOK, RowOK, GoroutineOK
  <2>3. ViewsAreReads'
    BY <1>1, <2>1, PendingLess DEF ViewsAreReads, Live, Sole
  <2> QED BY <1>2, <2>2, <2>3
<1> QED BY <1>4, <1>5 DEF Count

\* Expiry, other requests and restarts keep the invariant.
LEMMA OtherInv ==
    ASSUME IInv,
           \/ \E p \in Pastes : Expire(p)
           \/ \E c \in Contexts, s \in Slugs : DeletePaste(c, s)
           \/ \E c \in Contexts : OtherRequest(c)
           \/ Restart
    PROVE  IInv'
<1> USE NothingAssumption DEF IInv, call, goroutine, history, table
<1>1. ASSUME NEW p \in Pastes, Expire(p) PROVE IInv'
  <2>1. TypeOK' /\ RowOK' /\ SlugOK' /\ CallOK' /\ GoroutineOK' /\ BurntIsGone' /\ GoneOnRequest'
    BY <1>1 DEF Expire, TypeOK, RowOK, SlugOK, Live, CallOK, GoroutineOK, BurntIsGone,
                GoneOnRequest, Sole
  <2>2. ViewsAreReads'
    BY <1>1, ViewsKept DEF Expire
  <2> QED BY <2>1, <2>2
<1>2. ASSUME NEW c \in Contexts, NEW s \in Slugs, DeletePaste(c, s) PROVE IInv'
  <2>1. TypeOK' /\ RowOK'
    BY <1>2 DEF DeletePaste, TypeOK, RowOK, Named, Live
  <2>2. SlugOK' /\ CallOK' /\ GoroutineOK' /\ BurntIsGone'
    BY <1>2 DEF DeletePaste, TypeOK, SlugOK, Live, CallOK, GoroutineOK, BurntIsGone
  <2>3. GoneOnRequest'
    BY <1>2 DEF DeletePaste, GoneOnRequest, Sole
  <2>4. ViewsAreReads'
    BY <1>2, ViewsKept DEF DeletePaste
  <2> QED BY <2>1, <2>2, <2>3, <2>4
<1>3. ASSUME NEW c \in Contexts, OtherRequest(c) PROVE IInv'
  <2>1. TypeOK' /\ CallOK'
    BY <1>3 DEF OtherRequest, TypeOK, CallOK
  <2>2. RowOK' /\ SlugOK' /\ GoroutineOK' /\ BurntIsGone' /\ GoneOnRequest'
    BY <1>3 DEF OtherRequest, RowOK, SlugOK, Live, GoroutineOK, BurntIsGone, GoneOnRequest, Sole
  <2>3. ViewsAreReads'
    BY <1>3, ViewsKept DEF OtherRequest
  <2> QED BY <2>1, <2>2, <2>3
<1>4. CASE Restart
  <2>1. TypeOK' /\ CallOK' /\ GoroutineOK' /\ BurntIsGone'
    BY <1>4 DEF Restart, TypeOK, CallOK, GoroutineOK, BurntIsGone
  <2>2. RowOK' /\ SlugOK' /\ GoneOnRequest'
    BY <1>4 DEF Restart, RowOK, SlugOK, Live, GoneOnRequest, Sole
  <2>3. \A p \in Pastes : p \notin astray' => Pending(p)' = Pending(p)
    BY <1>4 DEF Restart, Pending
  <2>4. ViewsAreReads'
    BY <1>4, <2>3 DEF Restart, ViewsAreReads, Live, Sole
  <2> QED BY <2>1, <2>2, <2>4
<1> QED BY <1>1, <1>2, <1>3, <1>4

LEMMA StutterInv ==
    ASSUME IInv, UNCHANGED vars
    PROVE  IInv'
BY DEF IInv, vars, table, call, goroutine, history, TypeOK, RowOK, SlugOK, Live, CallOK,
       GoroutineOK, BurntIsGone, GoneOnRequest, ViewsAreReads, Sole, Pending

LEMMA StepInv == IInv /\ [Next]_vars => IInv'
<1> SUFFICES ASSUME IInv, [Next]_vars PROVE IInv'
  OBVIOUS
<1> QED BY InsertInv, ReadInv, OpenInv, CountInv, OtherInv, StutterInv DEF Next

-----------------------------------------------------------------------------
\* The inductive invariant holds in every reachable state of the pastebin
\* (service/paste.go, repository/paste.go).
THEOREM Invariance == Spec => []IInv
BY InitInv, StepInv, PTL DEF Spec

\* Type correctness; in particular CreatePaste stops after maxRetries.
THEOREM TypeCorrect == Spec => []TypeOK
BY Invariance, PTL DEF IInv

\* A paste that does not burn is deleted by a request only (GetPasteBySlug,
\* DeletePaste).
THEOREM DeletedOnRequest == Spec => []GoneOnRequest
BY Invariance, PTL DEF IInv

\* Every read is counted once, but for the views that were lost or went astray
\* (IncrementViews).
THEOREM ViewsCounted == Spec => []ViewsAreReads
BY Invariance, PTL DEF IInv

\* Nobody finds a burn paste after a request for it was answered, unless its
\* DELETE failed (GetPasteBySlug).
THEOREM BurnedIsNotFound == Spec => NoReadAfterBurn
<1> DEFINE A == \A c \in Contexts, p \in Burn :
          (got[c] = NoPaste /\ got'[c] = p) => p \notin answered \/ p \in spared
<1>1. IInv /\ [Next]_vars => [A]_vars
  <2> SUFFICES ASSUME IInv, Next, NEW c \in Contexts, NEW p \in Burn,
                      got[c] = NoPaste, got'[c] = p
               PROVE  p \notin answered \/ p \in spared
    OBVIOUS
  <2>1. p \in Live
    <3>1. ASSUME NEW d \in Contexts, NEW s \in Slugs, NEW key \in BOOLEAN, Fetch(d, s, key)
          PROVE  p \in Live
      BY <3>1, KindAssumption, NothingAssumption
         DEF IInv, TypeOK, Fetch, Found, Named, Live
    <3>2. CASE got' = got
      BY <3>2, KindAssumption, NothingAssumption
    <3>3. ASSUME NEW d \in Contexts, End(d) PROVE p \in Live
      BY <3>3, KindAssumption, NothingAssumption DEF IInv, TypeOK, End
    <3>4. CASE Restart
      BY <3>4, KindAssumption, NothingAssumption DEF Restart
    <3> QED BY <3>1, <3>2, <3>3, <3>4
       DEF Next, Insert, Expire, DeletePaste, BurnRow, BurnFails, OpenRefused, OtherRequest,
           Open, Count, CountFails, call
  <2> QED BY <2>1 DEF IInv, BurntIsGone, Live
<1>2. Spec => [][A]_vars
  BY <1>1, Invariance, PTL DEF Spec
<1> QED BY <1>2 DEF NoReadAfterBurn
=============================================================================
