---------------------------- MODULE MobileSession ----------------------------
(***************************************************************************)
(* The session of the mobile application: one phone on which accounts      *)
(* follow one another, its tokens in the secure store, its cache in memory *)
(* and on disk, its calls to the API with their interceptors, and the      *)
(* server's rotation of refresh tokens.                                    *)
(*                                                                         *)
(* JavaScript runs one step at a time: an action is what happens between   *)
(* two awaits.  Access and refresh token are always written together, so a *)
(* pair is one key.  A clock is not kept: tokens expire at any time, and   *)
(* the phone knows an expired one (jwt.ts).  Kill is the system ending the *)
(* process, after which the application starts again from its stores.      *)
(***************************************************************************)
EXTENDS Naturals

CONSTANTS
    Accounts,
    Calls,      \* calls the screens may have in flight, reused when settled
    KindsOf,    \* what each call may be for, among Kinds
    MaxPairs,   \* token pairs the server issues, a bound on the instance
    None

Kinds == {"read", "profile", "edit", "avatar", "prefs", "areas", "device", "delete"}
Pairs == 1 .. MaxPairs

ASSUME MobileAssumption ==
    /\ KindsOf \in [Calls -> SUBSET Kinds]
    /\ MaxPairs \in Nat
    /\ None \notin Accounts
    /\ None \notin Pairs

VARIABLES
    issued,   \* the server: how many pairs it has issued
    owner,    \* whose each pair is
    live,     \* pairs whose refresh token is neither blacklisted nor expired
    fresh,    \* pairs whose access token has not expired
    open,     \* accounts that exist
    devices,  \* accounts with this phone as an active DeviceToken
    store,    \* the phone: the pair in the Keystore
    disk,     \* accounts with data in the persisted cache
    status,   \* authStore.status, idle being loading
    user,     \* authStore.user
    cache,    \* accounts with data in the query cache
    call,     \* the calls in flight; runs counts how often the server has executed each
    refresh,  \* the shared promise of client.ts
    login,    \* the login or registration form
    leaving,  \* a logout asked by the user: none, clearing, closing
    crossed,  \* history: something of an earlier session has acted on a later one
    left      \* history: accounts whose cache a logout cut by Kill has left behind

server == <<issued, owner, live, fresh, open, devices>>
memory == <<status, user, cache>>
exchanges == <<call, refresh, login, leaving>>
history == <<crossed, left>>
vars == <<server, store, disk, memory, exchanges, history>>

Settled == [phase |-> "idle", kind |-> "none", by |-> None, pair |-> None,
            retried |-> FALSE, old |-> FALSE, answer |-> "none", runs |-> 0]
Phases == {"idle", "build", "waitSend", "waitReplay", "sent", "answered", "clearing", "closing"}
CallState ==
    [phase : Phases, kind : {"none"} \cup Kinds, by : Accounts \cup {None},
     pair : Pairs \cup {None}, retried : BOOLEAN, old : BOOLEAN,
     answer : {"none", "ok", "401"}, runs : Nat]

NoRefresh == [phase |-> "none", pair |-> None, next |-> None,
              outcome |-> "none", old |-> FALSE]
RefreshState ==
    [phase : {"none", "reading", "sent", "answered"}, pair : Pairs \cup {None},
     next : Pairs \cup {None}, old : BOOLEAN,
     outcome : {"none", "renewed", "rejected", "unavailable"}]

NoLogin == [phase |-> "none", as |-> None, pair |-> None]
LoginState ==
    [phase : {"none", "answered", "stored"},
     as : Accounts \cup {None}, pair : Pairs \cup {None}]

(* The one type invariant.                                                 *)
TypeOK ==
    /\ issued \in 0 .. MaxPairs
    /\ owner \in [Pairs -> Accounts \cup {None}]
    /\ live \subseteq Pairs
    /\ fresh \subseteq Pairs
    /\ open \subseteq Accounts
    /\ devices \subseteq Accounts
    /\ store \in Pairs \cup {None}
    /\ disk \subseteq Accounts
    /\ status \in {"loading", "authenticated", "unauthenticated"}
    /\ user \in Accounts \cup {None}
    /\ cache \subseteq Accounts
    /\ call \in [Calls -> CallState]
    /\ refresh \in RefreshState
    /\ login \in LoginState
    /\ leaving \in {"none", "clearing", "closing"}
    /\ crossed \in BOOLEAN
    /\ left \subseteq Accounts

Init ==
    /\ issued = 0
    /\ owner = [p \in Pairs |-> None]
    /\ live = {} /\ fresh = {} /\ open = {} /\ devices = {}
    /\ store = None /\ disk = {}
    /\ status = "loading" /\ user = None /\ cache = {}
    /\ call = [c \in Calls |-> Settled]
    /\ refresh = NoRefresh /\ login = NoLogin /\ leaving = "none"
    /\ crossed = FALSE /\ left = {}

-----------------------------------------------------------------------------
(* The server's tokens.                                                    *)

Mut_Issue(a) ==
    /\ issued <= MaxPairs
    /\ issued' = issued + 1
    /\ owner' = [owner EXCEPT ![issued + 1] = a]
    /\ fresh' = fresh \cup {issued + 1}

Issue(a) ==
    /\ issued < MaxPairs
    /\ issued' = issued + 1
    /\ owner' = [owner EXCEPT ![issued + 1] = a]
    /\ fresh' = fresh \cup {issued + 1}

(* Expiry matters of the pairs somebody on the phone holds.                *)
Held == {store, refresh.pair} \cup {call[c].pair : c \in Calls}

AccessExpires(p) ==
    /\ p \in fresh \cap Held
    /\ fresh' = fresh \ {p}
    /\ UNCHANGED <<issued, owner, live, open, devices, store, disk, memory, exchanges, history>>

RefreshExpires(p) ==
    /\ p \in (live \cap Held) \ fresh
    /\ live' = live \ {p}
    /\ UNCHANGED <<issued, owner, fresh, open, devices, store, disk, memory, exchanges, history>>

-----------------------------------------------------------------------------
(* Starting the application.                                               *)

(* Which screens are mounted.                                              *)
Starting  == status = "loading"
SignedIn  == status = "authenticated"
SignedOut == status = "unauthenticated"

(* authStore.hydrate: a stored pair is a session.                          *)
Hydrate ==
    /\ Starting
    /\ status' = IF store = None THEN "unauthenticated" ELSE "authenticated"
    /\ UNCHANGED <<server, store, disk, user, cache, exchanges, history>>

(* A restored session whose profile is still in the cache shows it.        *)
ShowCachedProfile ==
    /\ SignedIn /\ user = None
    /\ \E a \in cache : user' = a
    /\ UNCHANGED <<server, store, disk, status, cache, exchanges, history>>

(* The persister writes the cache at most once a second.                   *)
Persist ==
    /\ disk' = cache
    /\ disk # cache
    /\ UNCHANGED <<server, store, memory, exchanges, history>>

(* A logout has removed the tokens and not yet purged the cache.           *)
Closing == leaving = "closing" \/ \E c \in Calls : call[c].phase = "closing"

(* The process ends.  Cut between the removal of the tokens and the purge, *)
(* a logout leaves the copy on disk to whoever comes next: the start that  *)
(* follows finds no tokens and does not purge.                             *)
Kill ==
    /\ left' = IF Closing THEN left \cup disk ELSE left
    /\ status' = "loading" /\ user' = None
    /\ cache' = disk
    /\ call' = [c \in Calls |-> Settled]
    /\ refresh' = NoRefresh /\ login' = NoLogin /\ leaving' = "none"
    /\ UNCHANGED <<server, store, disk, crossed>>

-----------------------------------------------------------------------------
(* A refresh that has read the tokens does not hear of their replacement.  *)
Overtaken == [refresh EXCEPT !.old = @ \/ refresh.phase \in {"sent", "answered"}]

(* Signing in or registering: the form, the server's answer, setSession,   *)
(* which awaits the write of the tokens before it changes the state.       *)

Enter(a) ==
    /\ SignedOut /\ login.phase = "none"
    /\ Issue(a)
    /\ live' = live \cup {issued + 1}
    /\ login' = [phase |-> "answered", as |-> a, pair |-> issued + 1]
    /\ UNCHANGED <<devices, store, disk, memory, call, refresh, leaving, history>>

SubmitLogin(a) == a \in open /\ Enter(a) /\ UNCHANGED open

SubmitRegistration(a) == a \notin open /\ Enter(a) /\ open' = open \cup {a}

LoginFails ==
    /\ login.phase = "answered"
    /\ login' = NoLogin
    /\ UNCHANGED <<server, store, disk, memory, call, refresh, leaving, history>>

StoreLogin ==
    /\ login.phase = "answered"
    /\ store' = login.pair
    /\ login' = [login EXCEPT !.phase = "stored"]
    /\ refresh' = Overtaken
    /\ UNCHANGED <<server, disk, memory, call, leaving, history>>

FinishLogin ==
    /\ login.phase = "stored"
    /\ user' = login.as
    /\ status' = "authenticated"
    /\ login' = NoLogin
    /\ UNCHANGED <<server, store, disk, cache, call, refresh, leaving, history>>

-----------------------------------------------------------------------------
(* The shared refresh.                                                     *)

Schedule == IF refresh.phase = "none" THEN [NoRefresh EXCEPT !.phase = "reading"] ELSE refresh

RefreshRead ==
    /\ refresh.phase = "reading"
    /\ refresh' = IF store = None
                    THEN [refresh EXCEPT !.phase = "answered", !.outcome = "rejected"]
                    ELSE [refresh EXCEPT !.phase = "sent", !.pair = store]
    /\ UNCHANGED <<server, store, disk, memory, call, login, leaving, history>>

(* simplejwt with rotation: the token sent is blacklisted by the one       *)
(* answered.                                                               *)
ServerRotates ==
    /\ refresh.phase = "sent" /\ refresh.pair \in live
    /\ Issue(owner[refresh.pair])
    /\ live' = (live \ {refresh.pair}) \cup {issued + 1}
    /\ refresh' = [refresh EXCEPT !.phase = "answered", !.outcome = "renewed",
                                 !.pair = None, !.next = issued + 1]
    /\ UNCHANGED <<open, devices, store, disk, memory, call, login, leaving, history>>

ServerRefuses ==
    /\ refresh.phase = "sent" /\ refresh.pair \notin live
    /\ refresh' = [refresh EXCEPT !.phase = "answered", !.outcome = "rejected", !.pair = None]
    /\ UNCHANGED <<server, store, disk, memory, call, login, leaving, history>>

Mut_Outage == "rejected"

(* How a missing answer or a 5xx is classified.                            *)
Outage == "unavailable"

(* The network fails, the server answers 5xx, or the answer comes after    *)
(* the timeout; the server may have rotated the token all the same.        *)
RefreshLost ==
    /\ \/ refresh.phase = "sent"
       \/ refresh.phase = "answered" /\ refresh.outcome = "renewed"
    /\ refresh' = [refresh EXCEPT !.phase = "answered", !.outcome = Outage,
                                 !.pair = None, !.next = None]
    /\ UNCHANGED <<server, store, disk, memory, call, login, leaving, history>>

(* Every call that awaits the promise goes on with its outcome: a request  *)
(* not yet sent goes, renewed or not; a refused one is sent again through  *)
(* the interceptors, signs out, or fails.                                  *)
ResumeAll ==
    LET out == refresh.outcome
        with(r) == [r EXCEPT !.pair = IF out = "renewed" THEN refresh.next ELSE @]
        resumed(r) ==
            CASE r.phase = "waitSend" -> [with(r) EXCEPT !.phase = "sent"]
              [] r.phase = "waitReplay" /\ out = "renewed" -> [with(r) EXCEPT !.phase = "build"]
              [] r.phase = "waitReplay" /\ out = "rejected" -> [r EXCEPT !.phase = "clearing"]
              [] r.phase = "waitReplay" /\ out = "unavailable" -> Settled
              [] OTHER -> r
    IN  [c \in Calls |-> resumed(call[c])]

(* The new pair is stored before anybody is told, and the promise is       *)
(* forgotten only then.                                                    *)
RefreshDone ==
    /\ refresh.phase = "answered"
    /\ store' = IF refresh.outcome = "renewed" THEN refresh.next ELSE store
    /\ call' = ResumeAll
    /\ refresh' = NoRefresh
    /\ crossed' = (crossed \/ (refresh.old /\ refresh.outcome # "unavailable"))
    /\ UNCHANGED <<server, disk, memory, login, leaving, left>>

-----------------------------------------------------------------------------
(* A call: interceptors, server, answer.                                   *)

Set(c, r) == call' = [call EXCEPT ![c] = r]
Settle(c) == Set(c, Settled)

(* A screen of the signed-in zone calls the API.                           *)
Ask(c, kind) ==
    /\ SignedIn /\ call[c] = Settled /\ kind \in KindsOf[c]
    /\ Set(c, [Settled EXCEPT !.phase = "build", !.kind = kind,
                              !.by = IF kind = "avatar" THEN user ELSE None])
    /\ UNCHANGED <<server, store, disk, memory, refresh, login, leaving, history>>

AskList(c)    == Ask(c, "read")
AskProfile(c) == Ask(c, "profile")
AskEdit(c)    == user # None /\ Ask(c, "edit")
AskAvatar(c)  == user # None /\ Ask(c, "avatar")
AskPrefs(c)   == Ask(c, "prefs")
AskAreas(c)   == user # None /\ Ask(c, "areas")
AskDevice(c)  == Ask(c, "device")
AskDelete(c)  == user # None /\ Ask(c, "delete")

(* The request interceptor reads the stored pair and waits for a refresh   *)
(* if it has expired.                                                      *)
Build(c) ==
    /\ call[c].phase = "build"
    /\ LET p == IF store = None THEN call[c].pair ELSE store
           late == store # None /\ store \notin fresh
       IN  /\ Set(c, [call[c] EXCEPT !.pair = p, !.phase = IF late THEN "waitSend" ELSE "sent"])
           /\ refresh' = IF late THEN Schedule ELSE refresh
    /\ UNCHANGED <<server, store, disk, memory, login, leaving, history>>

(* Closing an account revokes what it holds; the phone is registered under *)
(* the account of the token.                                               *)
ServerExecutes(c) ==
    /\ call[c].phase = "sent" /\ call[c].pair \in fresh
    /\ Set(c, [call[c] EXCEPT !.phase = "answered", !.answer = "ok", !.runs = @ + 1])
    /\ LET a == owner[call[c].pair]
           k == call[c].kind
           gone == IF k = "delete" THEN {a} ELSE {}
       IN  /\ open' = open \ gone
           /\ live' = {p \in live : owner[p] \notin gone}
           /\ fresh' = {p \in fresh : owner[p] \notin gone}
           /\ devices' = IF k = "device" THEN devices \cup {a} ELSE devices
    /\ UNCHANGED <<issued, owner, store, disk, memory, refresh, login, leaving, history>>

ServerDenies(c) ==
    /\ call[c].phase = "sent" /\ call[c].pair \notin fresh
    /\ Set(c, [call[c] EXCEPT !.phase = "answered", !.answer = "401", !.pair = None])
    /\ UNCHANGED <<server, store, disk, memory, refresh, login, leaving, history>>

Mut_Lost(c) == IF call[c].retried THEN Settled
               ELSE [call[c] EXCEPT !.phase = "build", !.retried = TRUE, !.answer = "none"]

(* Without an answer nothing is sent again.                                *)
Lost(c) == Settled

(* The request or its answer is lost; the server may have executed it.     *)
LoseCall(c) ==
    /\ call[c].phase \in {"sent", "answered"}
    /\ Set(c, Lost(c))
    /\ UNCHANGED <<server, store, disk, memory, refresh, login, leaving, history>>

(* A first 401 awaits a refresh; a second one is the screen's error.       *)
HandleDenied(c) ==
    /\ call[c].phase = "answered" /\ call[c].answer = "401"
    /\ IF call[c].retried
       THEN Settle(c) /\ UNCHANGED refresh
       ELSE /\ Set(c, [call[c] EXCEPT !.phase = "waitReplay", !.retried = TRUE, !.answer = "none"])
            /\ refresh' = Schedule
    /\ UNCHANGED <<server, store, disk, memory, login, leaving, history>>

(* What the answer does to the phone.  A query cleared meanwhile does      *)
(* nothing; a mutation writes its answer whatever became of the session.   *)
Answered(c, kind) ==
    /\ call[c].phase = "answered" /\ call[c].answer = "ok" /\ call[c].kind = kind
    /\ UNCHANGED <<server, store, disk, status, refresh, login, leaving, left>>

Whose(c) == owner[call[c].pair]
Late(c) == crossed' = (crossed \/ call[c].old)

Kept(c) == ~call[c].old

ListDone(c) ==
    /\ Answered(c, "read") /\ Settle(c)
    /\ cache' = IF Kept(c) THEN cache \cup {Whose(c)} ELSE cache
    /\ UNCHANGED <<user, crossed>>

ProfileDone(c) ==
    /\ Answered(c, "profile") /\ Settle(c)
    /\ cache' = IF Kept(c) THEN cache \cup {Whose(c)} ELSE cache
    /\ user' = IF Kept(c) THEN Whose(c) ELSE user
    /\ UNCHANGED crossed

EditDone(c) ==
    /\ Answered(c, "edit") /\ Settle(c)
    /\ user' = Whose(c)
    /\ Late(c)
    /\ UNCHANGED cache

(* The user it puts back is the one of the moment the picture was chosen.  *)
AvatarDone(c) ==
    /\ Answered(c, "avatar") /\ Settle(c)
    /\ user' = call[c].by
    /\ Late(c)
    /\ UNCHANGED cache

PrefsDone(c) ==
    /\ Answered(c, "prefs") /\ Settle(c)
    /\ cache' = cache \cup {Whose(c)}
    /\ Late(c)
    /\ UNCHANGED user

AreasDone(c) ==
    /\ Answered(c, "areas") /\ Settle(c)
    /\ cache' = cache \cup {Whose(c)}
    /\ Late(c)
    /\ UNCHANGED user

DeviceDone(c) == Answered(c, "device") /\ Settle(c) /\ UNCHANGED <<user, cache, crossed>>

DeleteDone(c) ==
    /\ Answered(c, "delete")
    /\ Set(c, [call[c] EXCEPT !.phase = "clearing"])
    /\ UNCHANGED <<user, cache, crossed>>

-----------------------------------------------------------------------------
(* Signing out: the user asks, an account is deleted, or the server has    *)
(* refused a refresh.  The tokens go first, then at one stroke the cache,  *)
(* its copy on disk and the state.                                         *)

TapLogout ==
    /\ SignedIn /\ leaving = "none"
    /\ leaving' = "clearing"
    /\ UNCHANGED <<server, store, disk, memory, call, refresh, login, history>>

RemoveTokens ==
    /\ store' = None
    /\ refresh' = Overtaken

ClearTokens ==
    /\ leaving = "clearing"
    /\ leaving' = "closing"
    /\ RemoveTokens
    /\ UNCHANGED <<server, disk, memory, call, login, history>>

ForcedClear(c) ==
    /\ call[c].phase = "clearing"
    /\ Set(c, [call[c] EXCEPT !.phase = "closing"])
    /\ RemoveTokens
    /\ crossed' = (crossed \/ call[c].old)
    /\ UNCHANGED <<server, disk, memory, login, leaving, left>>

Old(C) == [c \in Calls |-> IF C[c].phase = "idle" THEN C[c] ELSE [C[c] EXCEPT !.old = TRUE]]

Mut_Purge == cache' = {} /\ UNCHANGED disk

(* queryClient.clear() and clearPersistedQueries().                        *)
Purge == cache' = {} /\ disk' = {}

Close ==
    /\ Purge
    /\ user' = None
    /\ status' = "unauthenticated"
    /\ left' = {}

FinishLogout ==
    /\ leaving = "closing"
    /\ Close
    /\ leaving' = "none"
    /\ call' = Old(call)
    /\ UNCHANGED <<server, store, refresh, login, crossed>>

FinishForced(c) ==
    /\ call[c].phase = "closing"
    /\ Close
    /\ call' = Old([call EXCEPT ![c] = Settled])
    /\ crossed' = (crossed \/ call[c].old \/ leaving # "none")
    /\ UNCHANGED <<server, store, refresh, login, leaving>>

-----------------------------------------------------------------------------
Asks(c) ==
    \/ AskList(c) \/ AskProfile(c) \/ AskEdit(c) \/ AskAvatar(c) \/ AskPrefs(c)
    \/ AskAreas(c) \/ AskDevice(c) \/ AskDelete(c)

Done(c) ==
    \/ ListDone(c) \/ ProfileDone(c) \/ EditDone(c) \/ AvatarDone(c) \/ PrefsDone(c)
    \/ AreasDone(c) \/ DeviceDone(c) \/ DeleteDone(c)

Travels(c) ==
    Build(c) \/ ServerExecutes(c) \/ ServerDenies(c) \/ LoseCall(c) \/ HandleDenied(c)

Refreshing == RefreshRead \/ ServerRotates \/ ServerRefuses \/ RefreshLost \/ RefreshDone

SigningIn ==
    \/ \E a \in Accounts : SubmitLogin(a) \/ SubmitRegistration(a)
    \/ LoginFails \/ StoreLogin \/ FinishLogin

SigningOut ==
    \/ TapLogout \/ ClearTokens \/ FinishLogout
    \/ \E c \in Calls : ForcedClear(c) \/ FinishForced(c)

Next ==
    \/ Hydrate \/ ShowCachedProfile \/ Persist \/ Kill
    \/ SigningIn \/ SigningOut \/ Refreshing
    \/ \E c \in Calls : Asks(c) \/ Travels(c) \/ Done(c)
    \/ \E p \in Pairs : AccessExpires(p) \/ RefreshExpires(p)

Spec == Init /\ [][Next]_vars

-----------------------------------------------------------------------------
(* What the application owes to the people who share a phone.              *)

(* Whose data the phone shows or keeps, what a cut logout left set apart.  *)
Shown == (cache \cup disk \cup ({user} \ {None})) \ left

(* Tokens, profile, cache and the copy on disk are of one account, and     *)
(* nothing is left on a signed-out phone, as long as no refresh, profile   *)
(* change or logout begun in an earlier session acts on a later one.       *)
(* Queries in flight across a logout are no exception: they leave nothing. *)
(* One exception is named, and is against the comment of authStore.ts      *)
(* (57-60): a process ended between tokenService.clear() and the purge     *)
(* leaves that account's data, even on screen under the next account,      *)
(* until a logout completes.  All other data is still of one account.      *)
OneAccount ==
    ~crossed =>
        /\ \A a, b \in Shown : a = b
        /\ store # None => Shown \subseteq {owner[store]}
        /\ status = "unauthenticated" =>
              /\ user = None /\ Shown = {}
              /\ login.phase # "stored" => store = None

(* A call is executed by the server at most once, replays included: only   *)
(* what was refused is sent again.                                         *)
AtMostOnce == \A c \in Calls : call[c].runs <= 1

(* The interceptors destroy only tokens the server would refuse, unless    *)
(* something of an earlier session had a hand in it.  An outage, however   *)
(* long, does not sign anybody out.                                        *)
SignsOutOnlyTheRefused ==
    [][\A c \in Calls :
         ForcedClear(c) /\ ~crossed' /\ call[c].kind # "delete" => store \notin live]_vars

=============================================================================
