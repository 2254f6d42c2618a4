---------------------------- MODULE OAuthExchange ----------------------------
(***************************************************************************)
(* The OAuth exchanges of one browser (handler/auth.go): a request begins  *)
(* an exchange and sets the cookies oauth_state_<provider> and             *)
(* oauth_link_user_<provider>; the provider (external) sends the browser   *)
(* back, and the callback compares the state and links the identity to the *)
(* user of the link cookie, or signs in.                                   *)
(*                                                                         *)
(* The tabs of the browser share its cookies.  A request carries them as   *)
(* they are when it leaves and an answer changes them when it arrives, so  *)
(* exchanges of several tabs interleave through the cookies.  Sessions are *)
(* the frontend's (external): they begin, end and expire at any time.      *)
(***************************************************************************)
EXTENDS Naturals, FiniteSets

CONSTANTS
    Tabs,      \* tabs of the browser
    Users,     \* users that may be signed in
    States,    \* random values of the state, each drawn once
    Life,      \* MaxAge of the cookies (300 s), in ticks
    None,      \* no user, no value
    Stale      \* a session token that does not verify

Providers == {"google", "github"}

VARIABLES
    session,   \* the session token the browser holds: of a user, None or Stale
    state,     \* state[p]: cookie oauth_state_p
    link,      \* link[p]: cookie oauth_link_user_p
    tab,       \* tab[t]: the exchange of tab t
    \* History, read by no action but to draw a new state:
    begunBy,   \* begunBy[s]: the session the exchange of state s began with
    linked     \* the users the callbacks linked to

vars == <<session, state, link, tab, begunBy, linked>>

Sessions == Users \cup {None, Stale}
Cookies(values) == [value : values \cup {None}, left : 0..Life]
NoCookie == [value |-> None, left |-> 0]
Cookie(v) == [value |-> v, left |-> Life]

\* "begun", "back" and "answered" are an answer, a request and an answer on
\* their way. link is what they carry for the link cookie, saved the state
\* cookie, and user who is signed in.
Exchanges == [pc : {"idle", "begun", "away", "back", "answered"},
              provider : Providers, state : States \cup {None}, code : BOOLEAN,
              link : Sessions, saved : States \cup {None}, user : Users \cup {None}]

Idle == [pc |-> "idle", provider |-> "google", state |-> None, code |-> FALSE,
         link |-> None, saved |-> None, user |-> None]

Unused == "unused"

\* What the proofs need of the constants: the users, the states and the values
\* that are neither are told apart.
ExchangeConstants ==
    /\ None \notin States \cup Users /\ Life \in Nat
    /\ Stale \notin Users \cup {None}
    /\ Unused \notin Users \cup {None, Stale}

TypeOK ==
    /\ session \in Sessions
    /\ state \in [Providers -> Cookies(States)]
    /\ link \in [Providers -> Cookies(Users)]
    /\ tab \in [Tabs -> Exchanges]
    /\ begunBy \in [States -> Sessions \cup {Unused}]
    /\ linked \subseteq [state : States, user : Users]

Init ==
    /\ session = None
    /\ state = [p \in Providers |-> NoCookie]
    /\ link = [p \in Providers |-> NoCookie]
    /\ tab = [t \in Tabs |-> Idle]
    /\ begunBy = [s \in States |-> Unused]
    /\ linked = {}

-----------------------------------------------------------------------------
(* The exchange begins *)

\* Mutant of LinkAnswer: without a token the link cookie is left alone.
LinkAnswerKeeping(token) == IF token = None THEN Stale ELSE token

\* What the answer does with the link cookie: set to the user of a token that
\* verifies, cleared without a token, and left as it is (Stale) otherwise.
LinkAnswer(token) == token

Begin(t, p) ==
    /\ tab[t].pc = "idle"
    /\ \E s \in {x \in States : begunBy[x] = Unused} :
          /\ tab' = [tab EXCEPT ![t] = [Idle EXCEPT !.pc = "begun", !.provider = p,
                                          !.state = s, !.link = LinkAnswer(session)]]
          /\ begunBy' = [begunBy EXCEPT ![s] = session]
    /\ UNCHANGED <<session, state, link, linked>>

GoogleLogin(t) == Begin(t, "google")
GitHubLogin(t) == Begin(t, "github")

\* The answer arrives with its cookies and the tab goes to the provider.
Redirected(t) ==
    LET x == tab[t] IN
    /\ x.pc = "begun"
    /\ state' = [state EXCEPT ![x.provider] = Cookie(x.state)]
    /\ link' = CASE x.link = Stale -> link
                 [] x.link = None -> [link EXCEPT ![x.provider] = NoCookie]
                 [] OTHER -> [link EXCEPT ![x.provider] = Cookie(x.link)]
    /\ tab' = [tab EXCEPT ![t].pc = "away", ![t].link = None]
    /\ UNCHANGED <<session, begunBy, linked>>

\* The user closes the tab at the provider.
Abandon(t) ==
    /\ tab[t].pc = "away"
    /\ tab' = [tab EXCEPT ![t] = Idle]
    /\ UNCHANGED <<session, state, link, begunBy, linked>>

-----------------------------------------------------------------------------
(* The callback *)

\* The request leaves with the cookies of its provider, which nobody looks at
\* when there is no code.
Send(t, code) ==
    LET p == tab[t].provider
        carried(cookie) == IF code THEN cookie.value ELSE None
    IN  tab' = [tab EXCEPT ![t].pc = "back", ![t].code = code, ![t].user = None,
                           ![t].saved = carried(state[p]), ![t].link = carried(link[p])]

\* The provider sends the tab back, with a code unless the user refused.
Return(t) ==
    /\ tab[t].pc = "away"
    /\ \E code \in BOOLEAN : Send(t, code)
    /\ UNCHANGED <<session, state, link, begunBy, linked>>

\* No code, no state cookie, or another one than the exchange began with.
Invalid(x) == ~x.code \/ x.saved = None \/ x.saved # x.state

Answer(t, user) ==
    tab' = [tab EXCEPT ![t] = [@ EXCEPT !.pc = "answered", !.code = FALSE,
                                        !.saved = None, !.link = None, !.user = user]]

\* The state is refused, the provider does not take the code or reports no
\* verified address, or the account cannot be linked or created.
CallbackRefused(t) ==
    /\ tab[t].pc = "back"
    /\ Answer(t, None)
    /\ UNCHANGED <<session, state, link, begunBy, linked>>

\* With a link cookie the identity is linked, whoever is signed in by now ...
CallbackLinks(t) ==
    /\ tab[t].pc = "back" /\ ~Invalid(tab[t])
    /\ tab[t].link # None
    /\ linked' = linked \cup {[state |-> tab[t].state, user |-> tab[t].link]}
    /\ Answer(t, None)
    /\ UNCHANGED <<session, state, link, begunBy>>

\* ... and without one the identity signs in, as the user it belongs to.
CallbackSignsIn(t, u) ==
    /\ tab[t].pc = "back" /\ ~Invalid(tab[t])
    /\ tab[t].link = None
    /\ Answer(t, u)
    /\ UNCHANGED <<session, state, link, begunBy, linked>>

\* The answer arrives: the link cookie goes, the state cookie stays.
Answered(t) ==
    /\ tab[t].pc = "answered"
    /\ link' = [link EXCEPT ![tab[t].provider] = NoCookie]
    /\ session' = IF tab[t].user = None THEN session ELSE tab[t].user
    /\ tab' = [tab EXCEPT ![t] = Idle]
    /\ UNCHANGED <<state, begunBy, linked>>

\* The answer is lost and the tab sends the callback again: the provider has
\* given its code out once and takes it no second time.
Reload(t) ==
    /\ tab[t].pc = "answered"
    /\ Send(t, FALSE)
    /\ UNCHANGED <<session, state, link, begunBy, linked>>

-----------------------------------------------------------------------------
(* Sessions and time *)

Session(v) ==
    /\ session # v
    /\ session' = v
    /\ UNCHANGED <<state, link, tab, begunBy, linked>>

Older(cookie) ==
    IF cookie.left <= 1 THEN NoCookie ELSE [cookie EXCEPT !.left = @ - 1]

Tick ==
    /\ state' = [p \in Providers |-> Older(state[p])]
    /\ link' = [p \in Providers |-> Older(link[p])]
    /\ UNCHANGED <<session, tab, begunBy, linked>>

-----------------------------------------------------------------------------
Next ==
    \/ \E t \in Tabs :
          \/ GoogleLogin(t) \/ GitHubLogin(t) \/ Redirected(t) \/ Abandon(t)
          \/ Return(t) \/ CallbackRefused(t) \/ CallbackLinks(t)
          \/ (\E u \in Users : CallbackSignsIn(t, u))
          \/ Answered(t) \/ Reload(t)
    \/ \E v \in Sessions : Session(v)
    \/ Tick

Spec == Init /\ [][Next]_vars

-----------------------------------------------------------------------------
(* Properties *)

\* An exchange links only to the user who began it: one begun without a session
\* never links, whatever cookies other tabs, expiry and sign-outs have left
\* behind. (Begun with a token that does not verify, it links to the user of an
\* earlier exchange that was not finished: GoogleLogin keeps that cookie.)
LinksItsUser ==
    \A d \in linked : begunBy[d.state] \in {d.user, Stale}
=============================================================================
