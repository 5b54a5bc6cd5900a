----------------------------- MODULE WebSession -----------------------------
(***************************************************************************)
(* The session of the web front end: one browser whose tabs share the      *)
(* localStorage (tokenManager, AuthContext) but not their memory, and the  *)
(* server that rotates refresh tokens.                                     *)
(*                                                                         *)
(* An action is what JavaScript runs between two awaits.  Access and       *)
(* refresh token are written together, so a pair is one key; the stored    *)
(* role is part of the stored user.  Passwords, and the popups of the      *)
(* social providers before they answer, are left out: a form knows its     *)
(* account.  No tab hears of another: nothing listens to storage events.   *)
(***************************************************************************)
EXTENDS Naturals

CONSTANTS
    Accounts,
    Tabs,
    Calls,      \* calls in flight in the browser, a bound on the instance
    MaxPairs,   \* token pairs the server issues, likewise
    None

Pairs == 1 .. MaxPairs
Kinds == {"hydrate", "poll", "act", "role", "login", "register", "social"}
(* Those are sent without a token, and their answer is a session.          *)
Entering == {"login", "register", "social"}

ASSUME WebAssumption ==
    /\ MaxPairs \in Nat
    /\ None \notin Accounts \cup Pairs \cup Tabs

VARIABLES
    issued,   \* the server: how many pairs it has issued
    owner,    \* whose each pair is
    live,     \* pairs whose refresh token is neither blacklisted nor expired
    spent,    \* pairs whose refresh token has been exchanged
    fresh,    \* pairs whose access token has not expired
    open,     \* accounts that exist
    store,    \* localStorage: the tokens
    saved,    \* localStorage: the user
    tab,      \* each tab's page, AuthContext.user, notifications, isRefreshing
    call,     \* the calls in flight; runs counts the server's executions
    crossed   \* history: a call of an ended session has acted on a later one

server == <<issued, owner, live, spent, fresh, open>>
storage == <<store, saved>>
vars == <<server, storage, tab, call, crossed>>

(* Pages: no page, outside the application, choosing a role, AuthGuard at   *)
(* work, inside.                                                           *)
Closed == [page |-> "off", user |-> None, feed |-> {}, refreshing |-> FALSE]
TabState ==
    [page : {"off", "out", "role", "checking", "app"}, user : Accounts \cup {None},
     feed : SUBSET Accounts, refreshing : BOOLEAN]

Settled == [phase |-> "idle", kind |-> "none", tab |-> None, as |-> None, pair |-> None,
            retried |-> FALSE, raced |-> FALSE, old |-> FALSE, runs |-> 0]
CallState ==
    [phase : {"idle", "sent", "answered", "denied", "refreshing", "renewed", "refused"},
     kind : {"none"} \cup Kinds, tab : Tabs \cup {None}, as : Accounts \cup {None},
     pair : Pairs \cup {None}, retried : BOOLEAN, raced : BOOLEAN, old : BOOLEAN, runs : Nat]

(* The one type invariant.                                                 *)
TypeOK ==
    /\ issued \in 0 .. MaxPairs
    /\ owner \in [Pairs -> Accounts \cup {None}]
    /\ live \subseteq Pairs /\ spent \subseteq Pairs /\ fresh \subseteq Pairs
    /\ open \subseteq Accounts
    /\ store \in Pairs \cup {None}
    /\ saved \in Accounts \cup {None}
    /\ tab \in [Tabs -> TabState]
    /\ call \in [Calls -> CallState]
    /\ crossed \in BOOLEAN

Init ==
    /\ issued = 0
    /\ owner = [p \in Pairs |-> None]
    /\ live = {} /\ spent = {} /\ fresh = {} /\ open = {}
    /\ store = None /\ saved = None
    /\ tab = [t \in Tabs |-> Closed]
    /\ call = [c \in Calls |-> Settled]
    /\ crossed = FALSE

-----------------------------------------------------------------------------
(* Tokens.                                                                 *)

Mut_Issue(a) ==
    /\ issued <= MaxPairs
    /\ issued' = issued + 1
    /\ owner' = [owner EXCEPT ![issued + 1] = a]
    /\ fresh' = fresh \cup {issued + 1}

Issue(a) ==
    /\ issued < MaxPairs
    /\ issued' = issued + 1
    /\ owner' = [owner EXCEPT ![issued + 1] = a]
    /\ fresh' = fresh \cup {issued + 1}

(* Expiry matters of the pairs somebody in the browser holds.              *)
Held == {store} \cup {call[c].pair : c \in Calls}

AccessExpires(p) ==
    /\ p \in fresh \cap Held
    /\ fresh' = fresh \ {p}
    /\ UNCHANGED <<issued, owner, live, spent, open, storage, tab, call, crossed>>

RefreshExpires(p) ==
    /\ p \in (live \cap Held) \ fresh
    /\ live' = live \ {p}
    /\ UNCHANGED <<issued, owner, spent, fresh, open, storage, tab, call, crossed>>

-----------------------------------------------------------------------------
(* Calls.                                                                  *)

Set(c, r) == call' = [call EXCEPT ![c] = r]
Settle(c) == Set(c, Settled)
Shown(c) == tab[call[c].tab]

(* The token is read when the call is made.                                *)
Sent(t, kind, a) ==
    [Settled EXCEPT !.phase = "sent", !.kind = kind, !.tab = t, !.as = a,
                    !.pair = IF kind \in Entering THEN None ELSE store]

(* The end of a session leaves its calls in flight.                        *)
Old(C) == [c \in Calls |-> IF C[c].phase = "idle" THEN C[c] ELSE [C[c] EXCEPT !.old = TRUE]]

-----------------------------------------------------------------------------
(* Tabs and pages.                                                         *)

(* A page is loaded: the user comes from the storage, and a browser with   *)
(* tokens asks for the profile.                                            *)
OpenTab(t, page) ==
    /\ tab[t].page = "off"
    /\ tab' = [tab EXCEPT ![t] = [Closed EXCEPT !.page = page, !.user = saved]]
    /\ IF store = None THEN UNCHANGED call
       ELSE \E c \in Calls : call[c] = Settled /\ Set(c, Sent(t, "hydrate", None))
    /\ UNCHANGED <<server, storage, crossed>>

(* Closing or reloading a tab drops its calls, and with them the answer of *)
(* a refresh.                                                              *)
CloseTab(t) ==
    /\ tab[t].page # "off"
    /\ tab' = [tab EXCEPT ![t] = Closed]
    /\ call' = [c \in Calls |-> IF call[c].tab = t THEN Settled ELSE call[c]]
    /\ crossed' = (crossed \/ tab[t].refreshing)
    /\ UNCHANGED <<server, storage>>

(* AuthGuard lets the users of any role in.                                *)
GuardAdmits(t) ==
    /\ tab[t].page = "checking" /\ tab[t].user # None
    /\ tab' = [tab EXCEPT ![t].page = "app"]
    /\ UNCHANGED <<server, storage, call, crossed>>

GuardRedirects(t) ==
    /\ tab[t].page \in {"checking", "app", "role"} /\ tab[t].user = None
    /\ tab' = [tab EXCEPT ![t].page = "out"]
    /\ UNCHANGED <<server, storage, call, crossed>>

(* A visitor who is signed in follows a link into the application.         *)
EnterApp(t) ==
    /\ tab[t].page = "out" /\ tab[t].user # None
    /\ tab' = [tab EXCEPT ![t].page = "checking"]
    /\ UNCHANGED <<server, storage, call, crossed>>

-----------------------------------------------------------------------------
(* What a page asks of the server.                                         *)

Ask(t, c, kind, a) ==
    /\ call[c] = Settled
    /\ Set(c, Sent(t, kind, a))
    /\ UNCHANGED <<server, storage, tab, crossed>>

(* One submission at a time: the forms disable their button.               *)
Submits(t, c, kind, a) ==
    /\ tab[t].page = "out" /\ tab[t].user = None
    /\ \A d \in Calls : ~(call[d].tab = t /\ call[d].kind = kind)
    /\ Ask(t, c, kind, a)

SubmitLogin(t, c, a) == Submits(t, c, "login", a)
SubmitRegistration(t, c, a) == Submits(t, c, "register", a)
LoginWithProvider(t, c, a) == Submits(t, c, "social", a)

ChooseRole(t, c) == tab[t].page = "role" /\ tab[t].user # None /\ Ask(t, c, "role", None)

(* The notifications are polled wherever the visitor is signed in.         *)
Poll(t, c) == tab[t].page # "off" /\ tab[t].user # None /\ Ask(t, c, "poll", None)

(* Any other call of a screen, a save or an upload included.                *)
Act(t, c) == tab[t].page = "app" /\ Ask(t, c, "act", None)

-----------------------------------------------------------------------------
(* The server.                                                             *)

Executed(c) == [call[c] EXCEPT !.phase = "answered", !.runs = @ + 1]

(* Signing in, registering, entering with a provider and choosing a role   *)
(* are answered with a new pair.                                           *)
ServerEnters(c) ==
    LET k == call[c].kind
        a == IF k = "role" THEN owner[call[c].pair] ELSE call[c].as
    IN  /\ call[c].phase = "sent" /\ k \in Entering \cup {"role"}
        /\ \/ k = "login" /\ a \in open
           \/ k = "register" /\ a \notin open
           \/ k = "social"
           \/ k = "role" /\ call[c].pair \in fresh
        /\ Issue(a)
        /\ live' = live \cup {issued + 1}
        /\ open' = open \cup {a}
        /\ Set(c, [Executed(c) EXCEPT !.as = a, !.pair = issued + 1])
        /\ UNCHANGED <<spent, storage, tab, crossed>>

ServerExecutes(c) ==
    /\ call[c].phase = "sent" /\ call[c].kind \notin Entering \cup {"role"}
    /\ call[c].pair \in fresh
    /\ Set(c, [Executed(c) EXCEPT !.as = owner[call[c].pair]])
    /\ UNCHANGED <<server, storage, tab, crossed>>

ServerDenies(c) ==
    /\ call[c].phase = "sent" /\ call[c].kind \notin Entering
    /\ call[c].pair \notin fresh
    /\ Set(c, [call[c] EXCEPT !.phase = "denied"])
    /\ UNCHANGED <<server, storage, tab, crossed>>

Mut_Failed(c) == IF call[c].retried THEN Settled
                 ELSE [call[c] EXCEPT !.phase = "sent", !.retried = TRUE]

(* A failed call is not sent again.                                        *)
Failed(c) == Settled

(* The server refuses for a reason of its own, the network fails, or the   *)
(* time is over: the server may have executed the call.                    *)
LoseCall(c) ==
    /\ call[c].phase \in {"sent", "answered"}
    /\ Set(c, Failed(c))
    /\ UNCHANGED <<server, storage, tab, crossed>>

-----------------------------------------------------------------------------
(* A 401, and the one refresh a tab makes at a time.                       *)

Mut_MayRefresh(c) == store # None

MayRefresh(c) == store # None /\ ~Shown(c).refreshing

(* refreshAccessToken answers null, and the call fails, when there is no   *)
(* refresh token or the tab is refreshing already, or the second time.     *)
GiveUp(c) ==
    /\ call[c].phase = "denied"
    /\ call[c].retried \/ ~MayRefresh(c)
    /\ Settle(c)
    /\ UNCHANGED <<server, storage, tab, crossed>>

(* history: two tabs refresh at once.                                      *)
Races(c) == {d \in Calls : call[d].phase \in {"refreshing", "renewed", "refused"}
                             /\ call[d].tab # call[c].tab}

StartRefresh(c) ==
    /\ call[c].phase = "denied" /\ ~call[c].retried /\ MayRefresh(c)
    /\ call' = [d \in Calls |->
          IF d = c THEN [call[c] EXCEPT !.phase = "refreshing", !.retried = TRUE,
                                        !.pair = store, !.raced = Races(c) # {}]
          ELSE IF d \in Races(c) THEN [call[d] EXCEPT !.raced = TRUE] ELSE call[d]]
    /\ tab' = [tab EXCEPT ![call[c].tab].refreshing = TRUE]
    /\ UNCHANGED <<server, storage, crossed>>

(* simplejwt with rotation.                                                *)
ServerRotates(c) ==
    /\ call[c].phase = "refreshing" /\ call[c].pair \in live
    /\ Issue(owner[call[c].pair])
    /\ live' = (live \ {call[c].pair}) \cup {issued + 1}
    /\ spent' = spent \cup {call[c].pair}
    /\ Set(c, [call[c] EXCEPT !.phase = "renewed", !.pair = issued + 1])
    /\ UNCHANGED <<open, storage, tab, crossed>>

ServerRefuses(c) ==
    /\ call[c].phase = "refreshing" /\ call[c].pair \notin live
    /\ Set(c, [call[c] EXCEPT !.phase = "refused"])
    /\ UNCHANGED <<server, storage, tab, crossed>>

(* fetch throws: the server may have rotated the token.                    *)
RefreshLost(c) ==
    /\ call[c].phase \in {"refreshing", "renewed"}
    /\ Set(c, [call[c] EXCEPT !.phase = "refused"])
    /\ UNCHANGED <<server, storage, tab, crossed>>

(* The new pair is stored and the call sent again with it.                 *)
RefreshSucceeds(c) ==
    /\ call[c].phase = "renewed"
    /\ store' = call[c].pair
    /\ tab' = [tab EXCEPT ![call[c].tab].refreshing = FALSE]
    /\ Set(c, [call[c] EXCEPT !.phase = "sent", !.raced = FALSE])
    /\ crossed' = (crossed \/ call[c].old)
    /\ UNCHANGED <<server, saved>>

Mut_SignedOut(t) == [tab EXCEPT ![t].user = None]

(* AuthContext without a user; NotificationContext empties its list.       *)
SignedOut(t) == [tab EXCEPT ![t].user = None, ![t].feed = {}]

(* clearTokens, then session-expired, which this tab's AuthContext hears.  *)
RefreshFails(c) ==
    LET t == call[c].tab
    IN  /\ call[c].phase = "refused"
        /\ store' = None /\ saved' = None
        /\ tab' = [SignedOut(t) EXCEPT ![t].refreshing = FALSE]
        /\ call' = Old([call EXCEPT ![c] = Settled])
        /\ crossed' = (crossed \/ call[c].old)
        /\ UNCHANGED server

-----------------------------------------------------------------------------
(* Answers.                                                                *)

Answered(c, K) == call[c].phase = "answered" /\ call[c].kind \in K

(* The tokens and the user are stored and shown; a new user of a provider  *)
(* chooses a role first.                                                   *)
EnterSession(c, K, page) ==
    LET t == call[c].tab
        a == call[c].as
    IN  /\ Answered(c, K)
        /\ store' = call[c].pair /\ saved' = a
        /\ tab' = [tab EXCEPT ![t].user = a, ![t].page = page]
        /\ call' = Old([call EXCEPT ![c] = Settled])
        /\ crossed' = (crossed \/ call[c].old \/ \E u \in Tabs : tab[u].user \notin {None, a})
        /\ UNCHANGED server

LoginDone(c) == EnterSession(c, {"login"}, "checking")
RegistrationDone(c) == EnterSession(c, {"register"}, "checking")
SocialDone(c) == \E page \in {"checking", "role"} : EnterSession(c, {"social"}, page)
RoleDone(c) == EnterSession(c, {"role"}, "checking")

(* hydrateProfile writes into the user shown, if any.                      *)
ProfileAnswered(c) ==
    /\ Answered(c, {"hydrate"})
    /\ saved' = IF Shown(c).user = None THEN saved ELSE Shown(c).user
    /\ Settle(c)
    /\ crossed' = (crossed \/ call[c].old)
    /\ UNCHANGED <<server, store, tab>>

PollDone(c) ==
    /\ Answered(c, {"poll"})
    /\ tab' = [tab EXCEPT ![call[c].tab].feed = {call[c].as}]
    /\ Settle(c)
    /\ crossed' = (crossed \/ call[c].old)
    /\ UNCHANGED <<server, storage>>

ActDone(c) ==
    /\ Answered(c, {"act"})
    /\ Settle(c)
    /\ UNCHANGED <<server, storage, tab, crossed>>

(* Signing out asks nothing of the server and tells no other tab.          *)
Logout(t) ==
    /\ tab[t].page = "app" /\ tab[t].user # None
    /\ store' = None /\ saved' = None
    /\ tab' = [SignedOut(t) EXCEPT ![t].page = "out"]
    /\ call' = Old(call)
    /\ UNCHANGED <<server, crossed>>

-----------------------------------------------------------------------------
Browses(t) ==
    \/ \E page \in {"out", "checking"} : OpenTab(t, page)
    \/ CloseTab(t) \/ GuardAdmits(t) \/ GuardRedirects(t) \/ EnterApp(t) \/ Logout(t)

Asks(t, c) ==
    \/ \E a \in Accounts : SubmitLogin(t, c, a) \/ SubmitRegistration(t, c, a) \/ LoginWithProvider(t, c, a)
    \/ ChooseRole(t, c) \/ Poll(t, c) \/ Act(t, c)

Serves(c) ==
    ServerEnters(c) \/ ServerExecutes(c) \/ ServerDenies(c) \/ ServerRotates(c) \/ ServerRefuses(c)

Settles(c) ==
    \/ LoseCall(c) \/ GiveUp(c) \/ StartRefresh(c) \/ RefreshLost(c)
    \/ RefreshSucceeds(c) \/ RefreshFails(c)
    \/ LoginDone(c) \/ RegistrationDone(c) \/ SocialDone(c) \/ RoleDone(c)
    \/ ProfileAnswered(c) \/ PollDone(c) \/ ActDone(c)

Next ==
    \/ \E t \in Tabs : Browses(t)
    \/ \E t \in Tabs, c \in Calls : Asks(t, c)
    \/ \E c \in Calls : Serves(c) \/ Settles(c)
    \/ \E p \in Pairs : AccessExpires(p) \/ RefreshExpires(p)

Spec == Init /\ [][Next]_vars

-----------------------------------------------------------------------------
(* Tokens, stored user, user shown and notifications are of one account,   *)
(* and no user is stored without tokens, as long as no call in flight      *)
(* outlives its session and no tab signs in while another shows somebody   *)
(* else.                                                                   *)
OneAccount ==
    ~crossed =>
        /\ store = None <=> saved = None
        /\ store # None => owner[store] = saved
        /\ \A t \in Tabs :
              /\ tab[t].feed \subseteq {tab[t].user}
              /\ tab[t].user # None /\ store # None => owner[store] = tab[t].user

(* A call is executed by the server at most once: only what was refused    *)
(* for its token is sent again.                                            *)
AtMostOnce == \A c \in Calls : call[c].runs <= 1

(* The server only sees a refresh token a second time when two tabs have   *)
(* refreshed at once, or one was closed while it did: within a tab a       *)
(* refresh is never doubled.                                               *)
SpentOnlyByRace ==
    [][\A c \in Calls :
         ServerRefuses(c) /\ ~crossed /\ ~call[c].raced => call[c].pair \notin spent]_vars

=============================================================================
