------------------------------ MODULE Analytics ------------------------------
(***************************************************************************)
(* Page views and the report about them (repository/analytics.go,          *)
(* service/analytics.go).  A report is put together from eleven queries,   *)
(* one after the other and outside a transaction, while views are          *)
(* recorded.  The first query's error ends the report; any other query     *)
(* that fails, or breaks off between two rows, leaves its section short.   *)
(*                                                                         *)
(* Rows are never updated or deleted, and the window of a report begins at *)
(* a fixed time, so that only rows in the window are kept here.            *)
(***************************************************************************)
EXTENDS Naturals, Sequences, FiniteSets, FiniteSetsExt

CONSTANTS
    Views,       \* what may be recorded: [site, bucket, path, slug, ...]
    MaxViews,    \* bound on the recorded views
    Recent,      \* how many recent views a report shows (15)
    Limit,       \* Limit[n]: the LIMIT of query n, for the top lists
    Everywhere,  \* no site filter
    None         \* no slug, no session

\* What is assumed of the constants: the lists of pages, posts, referrers,
\* browsers and countries have a limit (10, 10, 8, 6, 30).
AnalyticsConstants == Limit \in [{4, 5, 6, 8, 9} -> Nat]

Sites == {v.site : v \in Views}

VARIABLES
    rows,     \* page_views, in the order of their insertion
    report,   \* the sections of the report that is being made
    next,     \* its next query, 0 between two reports
    site,     \* its site filter
    \* History, read by no action:
    broken    \* the query that failed, 0 if none did

vars == <<rows, report, next, site, broken>>

Init ==
    /\ rows = <<>>
    /\ report = <<>>
    /\ next = 0
    /\ site = Everywhere
    /\ broken = 0

-----------------------------------------------------------------------------
(* Aggregates *)

\* The rows of the window that the site filter lets through.
Filtered(s) == {i \in DOMAIN rows : s \in {Everywhere, rows[i].site}}

\* COUNT(DISTINCT ...): a session is one visitor, a view without one another.
Unique(ids) ==
    Cardinality({i \in ids : \/ rows[i].session = None
                             \/ \A j \in ids : j < i => rows[j].session # rows[i].session})

Numbers(ids) == [views |-> Cardinality(ids), unique |-> Unique(ids)]

\* GROUP BY one column.
Groups(ids, column) ==
    [value \in {rows[i][column] : i \in ids} |->
        Numbers({i \in ids : rows[i][column] = value})]

\* A section is a function from its groups to their numbers.
Whole(ids) == [all \in {Everywhere} |-> Numbers(ids)]

\* ORDER BY views DESC LIMIT: what may be left of a section.  Groups with the
\* same number of views come in any order.
Largest(section, limit) ==
    LET all == DOMAIN section
        AtTheTop(T) == \A g \in T, h \in all \ T : section[h].views <= section[g].views
    IN  IF Cardinality(all) <= limit THEN {section}
        ELSE {[g \in T |-> section[g]] :
                T \in {T \in SUBSET all : Cardinality(T) = limit /\ AtTheTop(T)}}

-----------------------------------------------------------------------------
(* Recording *)

TrackEvent ==
    /\ Len(rows) < MaxViews
    /\ \E v \in Views : rows' = Append(rows, v)
    /\ UNCHANGED <<report, next, site, broken>>

-----------------------------------------------------------------------------
(* The report *)

\* GetStats begins: the last report is forgotten.
GetStats ==
    /\ next = 0
    /\ site' \in Sites \cup {Everywhere}
    /\ next' = 1
    /\ report' = <<>>
    /\ broken' = 0
    /\ UNCHANGED rows

\* The sections that each query may return, in the order of the queries.
TotalViews == {Whole(Filtered(site))}
ViewsToday == {Whole({i \in Filtered(site) : rows[i].today})}
ViewsTrend == {Groups(Filtered(site), "bucket")}
TopPages == Largest(Groups(Filtered(site), "path"), Limit[4])
TopPosts == Largest(Groups({i \in Filtered(site) : rows[i].slug # None}, "slug"), Limit[5])

\* Mutant of TopReferrers: views without a referrer are left out.
TopReferrersNamed ==
    Largest(Groups({i \in Filtered(site) : rows[i].referrer # None}, "referrer"), Limit[6])

\* Views without a referrer are a group of their own.
TopReferrers == Largest(Groups(Filtered(site), "referrer"), Limit[6])

DeviceStats == {Groups(Filtered(site), "device")}
BrowserStats == Largest(Groups(Filtered(site), "browser"), Limit[8])

\* Each country with its share of the total that the first query counted.
Share(views) ==
    LET total == report[1][Everywhere].views IN
    IF total > 0 THEN (100 * views) \div total ELSE 0

Countries ==
    LET groups == Groups(Filtered(site), "country") IN
    [c \in DOMAIN groups |-> [views |-> groups[c].views, unique |-> groups[c].unique,
                             share |-> Share(groups[c].views)]]

CountryStats == Largest(Countries, Limit[9])

\* The sites are always all of them.
SiteStats == {Groups(DOMAIN rows, "site")}

RecentViews ==
    LET newer(i) == {j \in Filtered(site) : j > i}
        shown == {i \in Filtered(site) : Cardinality(newer(i)) < Recent}
    IN  {[i \in shown |-> [views |-> 1, unique |-> 1]]}

Section(n) ==
    CASE n = 1 -> TotalViews [] n = 2 -> ViewsToday [] n = 3 -> ViewsTrend
      [] n = 4 -> TopPages [] n = 5 -> TopPosts [] n = 6 -> TopReferrers
      [] n = 7 -> DeviceStats [] n = 8 -> BrowserStats [] n = 9 -> CountryStats
      [] n = 10 -> SiteStats [] n = 11 -> RecentViews

Queries == 11

Ask ==
    /\ next > 0
    /\ \E section \in Section(next) : report' = Append(report, section)
    /\ next' = (next + 1) % (Queries + 1)
    /\ UNCHANGED <<rows, site, broken>>

\* A query fails: the first ends the report, another one leaves any part of its
\* section. (Bound: one failure in a report.)
Break ==
    /\ next > 0 /\ broken = 0
    /\ broken' = next
    /\ IF next = 1 THEN next' = 0 /\ UNCHANGED report
       ELSE /\ next' = (next + 1) % (Queries + 1)
            /\ \E section \in Section(next) : \E part \in SUBSET DOMAIN section :
                  report' = Append(report, [g \in part |-> section[g]])
    /\ UNCHANGED <<rows, site>>

-----------------------------------------------------------------------------
Next == TrackEvent \/ GetStats \/ Ask \/ Break

Spec == Init /\ [][Next]_vars

-----------------------------------------------------------------------------
(* Properties *)

Sum(n) == MapThenSumSet(LAMBDA g : report[n][g].views, DOMAIN report[n])

\* The sections that divide up the same rows.
Divisions == {1, 3, 4, 6, 7, 8, 9}

\* A top list that is as long as its limit: groups may be missing from it.
Full(n) == n \in DOMAIN Limit /\ Cardinality(DOMAIN report[n]) >= Limit[n]

\* However many views are recorded while a report is made, its sections add up
\* to what was there when they were asked: a later one never to less than an
\* earlier one, unless its query failed or it is a top list that is full, and
\* none to more than is there; and the countries' shares add up to the whole
\* when the countries shown have all the views of the first query
\* (repository/analytics.go, GetAnalyticsStats).
ReportAddsUp ==
    /\ \A m, n \in Divisions \cap DOMAIN report :
          m < n /\ n # broken /\ ~Full(n) => Sum(m) <= Sum(n)
    /\ \A n \in Divisions \cap DOMAIN report :
          /\ Sum(n) <= Cardinality(Filtered(site))
          /\ 10 \in DOMAIN report /\ broken # 10 /\ n < 10 => Sum(n) <= Sum(10)
    /\ \A n \in DOMAIN report : \A g \in DOMAIN report[n] :
          report[n][g].unique <= report[n][g].views
    /\ 9 \in DOMAIN report /\ Sum(9) = Sum(1) /\ Sum(1) > 0 =>
          LET shares == MapThenSumSet(LAMBDA c : report[9][c].share, DOMAIN report[9])
          IN  100 - Cardinality(DOMAIN report[9]) < shares /\ shares <= 100
=============================================================================
