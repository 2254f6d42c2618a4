----------------------------- MODULE MCPeripherals -----------------------------
(* Instance of Peripherals for TLC: one run checks the parts side by side.  A *)
(* behaviour is one of a single part, chosen at the start, so that the states  *)
(* of the parts add up instead of multiplying.                                 *)
EXTENDS Peripherals

VARIABLE part    \* the part that runs

oauthVars == <<session, state, link, tab, begunBy, linked>>
streamsVars == <<stream, pool, source>>
s3Vars == <<bucket, objects, caller, tries, failures, unlucky, deleted>>
cpuVars == <<prevTotal, prevCores, prevCgroup, stats, loop>>
contactVars == <<limiters, messages, stored>>
analyticsVars == <<rows, report, next, site, broken>>

PageView(s, country, who, from, path, slug, today) ==
    [site |-> s, country |-> country, session |-> who, referrer |-> from, slug |-> slug,
     today |-> today, bucket |-> "12:00", path |-> path, device |-> "Mobile",
     browser |-> "Firefox"]
MCViews ==
    {PageView("a", "ID", "v1", "ref", "/p", "post", TRUE),
     PageView("a", "SG", "none", "none", "/", "none", TRUE),
     PageView("b", "ID", "v1", "ref", "/p", "post", FALSE)}

\* One page is shown of two, and at most two referrers: a list that is cut,
\* one that is full and one that is neither.
MCLimit == [n \in {4, 5, 6, 8, 9} |-> IF n = 4 THEN 1 ELSE IF n = 6 THEN 2 ELSE 3]

-----------------------------------------------------------------------------
Parts == {"lastfm", "oauth", "streams", "s3", "cpu", "contact", "analytics"}

MCInit ==
    /\ part \in Parts
    /\ Init /\ OAuth!Init /\ Read!Init /\ CPU!Init /\ Contact!Init /\ Views!Init
    /\ S3!Init /\ (part = "s3" \/ ~bucket)

MCNext ==
    /\ \/ part = "lastfm" /\ Next
       \/ part = "oauth" /\ OAuth!Next
       \/ part = "streams" /\ Read!Next
       \/ part = "s3" /\ S3!Next
       \/ part = "cpu" /\ CPU!Next
       \/ part = "contact" /\ Contact!Next
       \/ part = "analytics" /\ Views!Next
    /\ UNCHANGED part
    /\ IF part = "lastfm" THEN TRUE ELSE UNCHANGED vars
    /\ IF part = "oauth" THEN TRUE ELSE UNCHANGED oauthVars
    /\ IF part = "streams" THEN TRUE ELSE UNCHANGED streamsVars
    /\ IF part = "s3" THEN TRUE ELSE UNCHANGED s3Vars
    /\ IF part = "cpu" THEN TRUE ELSE UNCHANGED cpuVars
    /\ IF part = "contact" THEN TRUE ELSE UNCHANGED contactVars
    /\ IF part = "analytics" THEN TRUE ELSE UNCHANGED analyticsVars

\* The fairness is that of LastFM, while it is the part that runs; of the other
\* parts only safety is asked.
MCFairness ==
    /\ WF_vars(part = "lastfm" /\ Tick)
    /\ \A c \in Calls : /\ WF_vars(part = "lastfm" /\ Serve(c))
                        /\ WF_vars(part = "lastfm" /\ (Answer(c) \/ Lose(c)))

MCSpec == MCInit /\ [][MCNext]_<<part, vars, oauthVars, streamsVars, s3Vars, cpuVars,
                                contactVars, analyticsVars>>
          /\ MCFairness
=============================================================================
