---------------------------- MODULE Peripherals -----------------------------
(***************************************************************************)
(* The parts at the edge of the server, side by side: they share no state  *)
(* with each other. LastFM is extended, the others are instances; here are *)
(* their constants and variables, what is assumed of the constants, and    *)
(* what each part promises.                                                *)
(***************************************************************************)
EXTENDS LastFM, Sequences

CONSTANTS
    Tabs, Users, States, Life, Stale,                           \* OAuthExchange
    Streams, Decoders,                                          \* Streams
    Savers, StoredKeys, Starter, MaxTries, MaxFailures,         \* ObjectStore
    Modulus, MaxCounter, NumCPU, CoreLines, Loads, SampleAge,   \* CPUMonitor
    Addresses, Burst, MaxEntries, IdleFor, MaxMessages,         \* ContactForm
    PageViews, MaxViews, Recent, Limit, Everywhere, None        \* Analytics

VARIABLES
    session, state, link, tab, begunBy, linked,                 \* OAuthExchange
    stream, pool, source,                                       \* Streams
    bucket, objects, caller, tries, failures, unlucky, deleted, \* ObjectStore
    prevTotal, prevCores, prevCgroup, stats, loop,              \* CPUMonitor
    limiters, messages, stored,                                 \* ContactForm
    rows, report, next, site, broken                            \* Analytics

OAuth == INSTANCE OAuthExchange
Read == INSTANCE Streams
S3 == INSTANCE ObjectStore WITH Keys <- StoredKeys
CPU == INSTANCE CPUMonitor WITH MaxAge <- SampleAge
Contact == INSTANCE ContactForm
Views == INSTANCE Analytics WITH Views <- PageViews

ASSUME PartsAssumption ==
    /\ OAuth!ExchangeConstants /\ S3!StoreConstants
    /\ CPU!CounterConstants /\ Contact!ContactConstants /\ Views!AnalyticsConstants

-----------------------------------------------------------------------------
\* OAuth exchanges link only to the user who began them (handler/auth.go).
LinksItsUser == OAuth!LinksItsUser

\* Streams that are being read do not share a decoder (storage/storage.go).
StreamsReadTheirOwn == Read!StreamsReadTheirOwn

\* Saves succeed unless S3 leaves a request unanswered (storage/s3.go).
SavesSucceed == S3!SavesSucceed

\* Usage is the share of busy time, and a percentage (telemetry/cpu.go).
UsageIsBusyTime == CPU!UsageIsBusyTime

\* Every address has a bucket of its own (grpc/server/contact.go).
AddressHasItsBucket == Contact!AddressHasItsBucket

\* The sections of a report add up (repository/analytics.go).
ReportAddsUp == Views!ReportAddsUp
=============================================================================
