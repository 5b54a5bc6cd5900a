------------------------ MODULE MobileSessionProofs ------------------------
(***************************************************************************)
(* Theorems about MobileSession for any number of accounts, calls in       *)
(* flight and token pairs.                                                 *)
(***************************************************************************)
EXTENDS MobileSession, TLAPS

-----------------------------------------------------------------------------
(* The inductive invariant, part by part.                                  *)

(* The pairs issued so far have an owner, and nobody holds another one.    *)
Issued == 1 .. issued
Holds(p) == p \in Issued \cup {None}

PairsIssued ==
    /\ \A p \in Issued : owner[p] \in Accounts
    /\ live \subseteq Issued /\ fresh \subseteq Issued
    /\ Holds(store)
    /\ \A c \in Calls : Holds(call[c].pair)
    /\ Holds(refresh.pair) /\ Holds(refresh.next)
    /\ login.phase # "none" => login.pair \in Issued /\ owner[login.pair] = login.as

(* What a call has when it is in a phase.  Only a call that was refused, or *)
(* not sent yet, is still to be executed.                                  *)
CallFits(r) ==
    /\ r.phase = "idle" => r = Settled
    /\ r.phase \in {"build", "waitSend", "waitReplay", "sent"} => r.answer = "none" /\ r.runs = 0
    /\ r.answer = "401" => r.phase = "answered" /\ r.runs = 0
    /\ r.answer = "ok" => r.pair # None
    /\ r.runs <= 1

RefreshFits ==
    /\ refresh.phase = "none" => refresh = NoRefresh
    /\ refresh.phase = "reading" => refresh = [NoRefresh EXCEPT !.phase = "reading"]
    /\ refresh.phase = "sent" =>
          refresh.pair # None /\ refresh.next = None /\ refresh.outcome = "none"
    /\ refresh.phase = "answered" =>
          /\ refresh.pair = None /\ refresh.outcome # "none"
          /\ refresh.next # None <=> refresh.outcome = "renewed"

(* Where the application is says what may be under way.                    *)
StageFits ==
    /\ Starting => /\ call = [c \in Calls |-> Settled] /\ refresh = NoRefresh
                   /\ leaving = "none" /\ user = None
    /\ login.phase # "none" => SignedOut
    /\ SignedOut => \A c \in Calls : call[c].phase = "idle" \/ call[c].old

(* A refresh that has not been overtaken is of the pair in the store.      *)
RefreshOfStore ==
    ~refresh.old =>
        /\ refresh.phase = "sent" => refresh.pair = store
        /\ refresh.phase = "answered" /\ refresh.outcome = "renewed" => store # None

(* Everything on the phone, and everything asked for in this session, is   *)
(* of one account, but for what a logout cut short has left behind.        *)
AllOf(a) ==
    /\ store # None => owner[store] = a
    /\ user \in {a, None} \cup left
    /\ cache \subseteq {a} \cup left /\ disk \subseteq {a} \cup left
    /\ \A c \in Calls : ~call[c].old =>
          /\ call[c].pair # None => owner[call[c].pair] = a
          /\ call[c].by \in {a, None} \cup left
    /\ ~refresh.old =>
          /\ refresh.pair # None => owner[refresh.pair] = a
          /\ refresh.next # None => owner[refresh.next] = a
    /\ login.phase = "stored" => login.as = a

(* The tokens and what they are for come and go together.                  *)
StoreFits ==
    /\ SignedOut => /\ user = None /\ cache \subseteq left /\ disk \subseteq left
                    /\ login.phase = "stored" <=> store # None
    /\ Starting /\ store = None => cache \subseteq left /\ disk \subseteq left
    /\ SignedIn /\ store = None => Closing
    /\ leaving # "none" => SignedIn
    /\ leaving = "closing" => store = None
    /\ \A c \in Calls : call[c].phase = "closing" /\ ~call[c].old => store = None

(* Whoever is about to be signed out by a refusal has tokens that are no   *)
(* good, and no refresh can make them good.                                *)
SigningOutFits ==
    /\ refresh.phase = "answered" /\ refresh.outcome = "rejected" /\ ~refresh.old =>
          store \notin live
    /\ \A c \in Calls :
          call[c].phase = "clearing" /\ ~call[c].old /\ call[c].kind # "delete" =>
             /\ store \notin live
             /\ refresh.phase = "answered" /\ ~refresh.old => refresh.outcome # "renewed"

OneSession ==
    /\ \E a \in Accounts \cup {None} : AllOf(a)
    /\ StoreFits
    /\ SigningOutFits

Sound == TypeOK /\ PairsIssued /\ (\A c \in Calls : CallFits(call[c])) /\ RefreshFits
           /\ StageFits /\ RefreshOfStore
IInv == Sound /\ (~crossed => OneSession)

-----------------------------------------------------------------------------
(* What a step writes into a call leaves it a call.                        *)
LEMMA CallEdits ==
    ASSUME NEW r \in CallState
    PROVE  /\ \A p \in Phases : [r EXCEPT !.phase = p] \in CallState
           /\ \A p \in Phases, q \in Pairs \cup {None} :
                 [r EXCEPT !.pair = q, !.phase = p] \in CallState
           /\ [r EXCEPT !.phase = "answered", !.answer = "ok", !.runs = @ + 1] \in CallState
           /\ [r EXCEPT !.phase = "answered", !.answer = "401", !.pair = None] \in CallState
           /\ [r EXCEPT !.phase = "waitReplay", !.retried = TRUE, !.answer = "none"] \in CallState
           /\ [r EXCEPT !.old = TRUE] \in CallState
<1>1. ASSUME NEW p \in Phases PROVE [r EXCEPT !.phase = p] \in CallState
  BY DEF CallState
<1>2. ASSUME NEW p \in Phases, NEW q \in Pairs \cup {None}
      PROVE  [r EXCEPT !.pair = q, !.phase = p] \in CallState
  BY DEF CallState
<1>3. [r EXCEPT !.phase = "answered", !.answer = "ok", !.runs = @ + 1] \in CallState
  <2>1. ASSUME NEW n \in Nat
        PROVE  [r EXCEPT !.phase = "answered", !.answer = "ok", !.runs = n] \in CallState
    BY DEF CallState, Phases
  <2>2. r.runs + 1 \in Nat
    BY DEF CallState
  <2>3. QED
    BY <2>1, <2>2
<1>4. /\ [r EXCEPT !.phase = "answered", !.answer = "401", !.pair = None] \in CallState
      /\ [r EXCEPT !.phase = "waitReplay", !.retried = TRUE, !.answer = "none"] \in CallState
      /\ [r EXCEPT !.old = TRUE] \in CallState
  BY DEF CallState, Phases
<1>5. QED
  BY <1>1, <1>2, <1>3, <1>4

(* So is a call that is settled or that has just been asked for.           *)
LEMMA NewCalls ==
    /\ Settled \in CallState
    /\ \A k \in Kinds, a \in Accounts \cup {None} :
          [Settled EXCEPT !.phase = "build", !.kind = k, !.by = a] \in CallState
BY DEF CallState, Settled, Phases

(* A call written over leaves the others what they are.                    *)
LEMMA SetType ==
    ASSUME NEW f \in [Calls -> CallState], NEW c \in Calls, NEW r \in CallState
    PROVE  [f EXCEPT ![c] = r] \in [Calls -> CallState]
OBVIOUS

(* What a step writes into the shared refresh leaves it a refresh.         *)
LEMMA RefreshEdits ==
    ASSUME NEW r \in RefreshState
    PROVE  /\ \A o \in BOOLEAN : [r EXCEPT !.old = o] \in RefreshState
           /\ [r EXCEPT !.phase = "answered", !.outcome = "rejected"] \in RefreshState
           /\ [r EXCEPT !.phase = "answered", !.outcome = "rejected", !.pair = None] \in RefreshState
           /\ [r EXCEPT !.phase = "answered", !.outcome = "unavailable", !.pair = None,
                        !.next = None] \in RefreshState
           /\ \A p \in Pairs :
                 /\ [r EXCEPT !.phase = "sent", !.pair = p] \in RefreshState
                 /\ [r EXCEPT !.phase = "answered", !.outcome = "renewed", !.pair = None,
                              !.next = p] \in RefreshState
<1>1. ASSUME NEW o \in BOOLEAN PROVE [r EXCEPT !.old = o] \in RefreshState
  BY <1>1 DEF RefreshState
<1>2. /\ [r EXCEPT !.phase = "answered", !.outcome = "rejected"] \in RefreshState
      /\ [r EXCEPT !.phase = "answered", !.outcome = "rejected", !.pair = None] \in RefreshState
  BY DEF RefreshState
<1>3. [r EXCEPT !.phase = "answered", !.outcome = "unavailable", !.pair = None, !.next = None]
            \in RefreshState
  BY DEF RefreshState
<1>4. ASSUME NEW p \in Pairs PROVE [r EXCEPT !.phase = "sent", !.pair = p] \in RefreshState
  BY DEF RefreshState
<1>5. ASSUME NEW p \in Pairs
      PROVE  [r EXCEPT !.phase = "answered", !.outcome = "renewed", !.pair = None, !.next = p]
                 \in RefreshState
  BY DEF RefreshState
<1>6. QED
  BY <1>1, <1>2, <1>3, <1>4, <1>5

(* So is one that is scheduled.                                            *)
LEMMA NewRefreshes ==
    NoRefresh \in RefreshState /\ [NoRefresh EXCEPT !.phase = "reading"] \in RefreshState
BY DEF RefreshState, NoRefresh

(* A refresh overtaken by other tokens is one still.                       *)
LEMMA OvertakenType == ASSUME Sound PROVE Overtaken \in RefreshState
BY RefreshEdits DEF Sound, TypeOK, Overtaken

(* The end of a refresh leaves every call a call.                          *)
LEMMA ResumeType ==
    ASSUME Sound, refresh.phase = "answered"
    PROVE  ResumeAll \in [Calls -> CallState]
<1>1. \A c \in Calls : call[c] \in CallState
  BY DEF Sound, TypeOK
<1>2. refresh \in RefreshState
  BY DEF Sound, TypeOK
<1>3. refresh.outcome = "renewed" => refresh.next \in Pairs
  BY <1>2 DEF Sound, RefreshFits, RefreshState
<1>4. QED
  BY <1>1, <1>2, <1>3, CallEdits, NewCalls DEF ResumeAll, Phases

(* So does the end of a session.                                           *)
LEMMA OldType == ASSUME NEW C \in [Calls -> CallState] PROVE Old(C) \in [Calls -> CallState]
BY CallEdits DEF Old

(* The invariant holds when the application is installed.                  *)
LEMMA TypeInit == MobileAssumption => (Init => IInv)
<1>1. SUFFICES ASSUME MobileAssumption, Init PROVE IInv
  OBVIOUS
<1>2. TypeOK
  <2>1. NoLogin \in LoginState
    BY DEF NoLogin, LoginState
  <2>2. issued \in 0 .. MaxPairs /\ owner \in [Pairs -> Accounts \cup {None}]
    BY <1>1 DEF MobileAssumption, Init
  <2>3. call \in [Calls -> CallState] /\ refresh \in RefreshState
    BY <1>1, NewCalls, NewRefreshes DEF Init
  <2>4. QED
    BY <1>1, <2>1, <2>2, <2>3 DEF Init, TypeOK
<1>3. PairsIssued /\ RefreshFits /\ StageFits /\ RefreshOfStore /\ \A c \in Calls : CallFits(call[c])
  BY <1>1
     DEF Init, PairsIssued, Issued, Holds, RefreshFits, StageFits, RefreshOfStore,
         CallFits,
         Settled, NoRefresh, NoLogin, Starting, SignedIn, SignedOut
<1>4. OneSession
  BY <1>1 DEF Init, OneSession, AllOf, StoreFits, SigningOutFits, Settled, NoRefresh, NoLogin,
              Starting, SignedIn, SignedOut
<1>5. QED
  BY <1>2, <1>3, <1>4 DEF IInv, Sound

(* Every step keeps the types.                                             *)
LEMMA TypeStep ==
    ASSUME MobileAssumption, Sound, Next
    PROVE  TypeOK'
<1> USE DEF MobileAssumption, server, memory, exchanges, history
<1>0. TypeOK /\ PairsIssued
  BY DEF Sound
<1>1. CASE Hydrate \/ ShowCachedProfile \/ Persist \/ Kill
  <2>1. CASE Hydrate \/ ShowCachedProfile \/ Persist
    BY <1>0, <2>1 DEF TypeOK, Hydrate, ShowCachedProfile, Persist
  <2>2. CASE Kill
    <3>1. left' \subseteq Accounts
      BY <1>0, <2>2 DEF TypeOK, Kill
    <3>2. login' \in LoginState /\ refresh' \in RefreshState /\ call' \in [Calls -> CallState]
      BY <2>2, NewCalls, NewRefreshes DEF Kill, NoLogin, LoginState
    <3>3. QED
      BY <1>0, <2>2, <3>1, <3>2 DEF TypeOK, Kill
  <2>3. QED
    BY <1>1, <2>1, <2>2
<1>2. CASE SigningIn
  <2>1. ASSUME NEW a \in Accounts, Enter(a), open' \subseteq Accounts PROVE TypeOK'
    <3>1. issued + 1 \in Pairs /\ issued' \in 0 .. MaxPairs
      BY <1>0, <2>1 DEF TypeOK, Enter, Issue, Pairs
    <3>2. login' \in LoginState
      BY <3>1, <2>1 DEF Enter, LoginState
    <3>3. QED
      BY <1>0, <2>1, <3>1, <3>2 DEF TypeOK, Enter, Issue
  <2>2. CASE LoginFails
    BY <1>0, <2>2 DEF TypeOK, LoginFails, NoLogin, LoginState
  <2>3. CASE StoreLogin
    <3>1. login \in LoginState /\ login.pair \in Pairs \cup {None}
      BY <1>0 DEF TypeOK, LoginState
    <3>2. [login EXCEPT !.phase = "stored"] \in LoginState
      BY <3>1 DEF LoginState
    <3>3. QED
      BY <1>0, <2>3, <3>1, <3>2, OvertakenType DEF TypeOK, StoreLogin
  <2>4. CASE FinishLogin
    <3>1. login.as \in Accounts \cup {None} /\ NoLogin \in LoginState
      BY <1>0 DEF TypeOK, LoginState, NoLogin
    <3>2. QED
      BY <1>0, <2>4, <3>1 DEF TypeOK, FinishLogin
  <2>5. QED
    BY <1>0, <1>2, <2>1, <2>2, <2>3, <2>4
       DEF TypeOK, SigningIn, SubmitLogin, SubmitRegistration
<1>3. CASE SigningOut
  <2>1. \A c \in Calls : [call[c] EXCEPT !.phase = "closing"] \in CallState
    BY <1>0, CallEdits DEF TypeOK, Phases
  <2>2. CASE TapLogout \/ ClearTokens
    BY <1>0, <2>2, OvertakenType DEF TypeOK, TapLogout, ClearTokens, RemoveTokens
  <2>5. ASSUME NEW c \in Calls, ForcedClear(c) PROVE TypeOK'
    <3>1. crossed' \in BOOLEAN
      BY <2>5 DEF ForcedClear
    <3>2. QED
      BY <1>0, <2>1, <2>5, <3>1, OvertakenType DEF TypeOK, ForcedClear, RemoveTokens, Set
  <2>3. CASE FinishLogout \/ \E c \in Calls : FinishForced(c)
    <3>1. call' \in [Calls -> CallState]
      <4>1. \A c \in Calls : [call EXCEPT ![c] = Settled] \in [Calls -> CallState]
        BY <1>0, NewCalls DEF TypeOK
      <4>2. QED
        <5>1. call \in [Calls -> CallState]
          BY <1>0 DEF TypeOK
        <5>2. \A C \in [Calls -> CallState] : Old(C) \in [Calls -> CallState]
          BY OldType
        <5>3. QED
          BY <2>3, <4>1, <5>1, <5>2 DEF FinishLogout, FinishForced
    <3>2. crossed' \in BOOLEAN
      BY <1>0, <2>3 DEF TypeOK, FinishLogout, FinishForced
    <3>3. QED
      BY <1>0, <2>3, <3>1, <3>2 DEF TypeOK, FinishLogout, FinishForced, Close, Purge
  <2>4. QED
    BY <1>3, <2>2, <2>3, <2>5 DEF SigningOut
<1>4. CASE Refreshing
  <2>1. refresh \in RefreshState /\ store \in Pairs \cup {None}
    BY <1>0 DEF TypeOK
  <2>2. CASE RefreshRead \/ ServerRefuses \/ RefreshLost
    <3>1. refresh' \in RefreshState
      BY <2>1, <2>2, RefreshEdits DEF RefreshRead, ServerRefuses, RefreshLost, Outage
    <3>2. QED
      BY <1>0, <2>2, <3>1 DEF TypeOK, RefreshRead, ServerRefuses, RefreshLost
  <2>3. CASE ServerRotates
    <3>1. issued + 1 \in Pairs /\ issued' \in 0 .. MaxPairs
      BY <1>0, <2>3 DEF TypeOK, ServerRotates, Issue, Pairs
    <3>2. refresh' \in RefreshState
      BY <2>1, <2>3, <3>1, RefreshEdits DEF ServerRotates
    <3>3. refresh.pair \in Pairs /\ owner[refresh.pair] \in Accounts \cup {None}
      BY <1>0, <2>3 DEF TypeOK, ServerRotates
    <3>4. QED
      BY <1>0, <2>3, <3>1, <3>2, <3>3 DEF TypeOK, ServerRotates, Issue
  <2>4. CASE RefreshDone
    <3>1. refresh.outcome = "renewed" => refresh.next \in Pairs
      BY <2>1, <2>4 DEF RefreshDone, Sound, RefreshFits, RefreshState
    <3>2. QED
      BY <1>0, <2>4, <3>1, ResumeType, NewRefreshes DEF TypeOK, RefreshDone
  <2>5. QED
    BY <1>4, <2>2, <2>3, <2>4 DEF Refreshing
<1>5. ASSUME NEW c \in Calls, NEW k \in Kinds, Ask(c, k) PROVE TypeOK'
  BY <1>0, <1>5, NewCalls DEF TypeOK, Ask, Set
<1>6. ASSUME NEW c \in Calls, Travels(c) PROVE TypeOK'
  <2>1. call[c] \in CallState /\ call[c].pair \in Pairs \cup {None} /\ Schedule \in RefreshState
    BY <1>0, NewRefreshes DEF TypeOK, CallState, Schedule
  <2>2. CASE Build(c)
    BY <1>0, <2>1, <2>2, CallEdits DEF TypeOK, Build, Set, Phases
  <2>3. CASE ServerExecutes(c)
    <3>1. call' \in [Calls -> CallState]
      BY <1>0, <2>1, <2>3, CallEdits DEF TypeOK, ServerExecutes, Set
    <3>2. devices' \subseteq Accounts
      BY <1>0, <2>1, <2>3 DEF TypeOK, PairsIssued, ServerExecutes
    <3>3. open' \subseteq Accounts /\ live' \subseteq Pairs /\ fresh' \subseteq Pairs
      BY <1>0, <2>3 DEF TypeOK, ServerExecutes
    <3>4. QED
      BY <1>0, <2>3, <3>1, <3>2, <3>3 DEF TypeOK, ServerExecutes
  <2>4. CASE ServerDenies(c) \/ LoseCall(c)
    <3>0. call \in [Calls -> CallState]
      BY <1>0 DEF TypeOK
    <3>1. call' \in [Calls -> CallState]
      <4>1. CASE ServerDenies(c)
        <5>1. [call[c] EXCEPT !.phase = "answered", !.answer = "401", !.pair = None] \in CallState
          BY <2>1, CallEdits
        <5>2. QED
          BY <3>0, <4>1, <5>1, SetType DEF ServerDenies, Set
      <4>2. CASE LoseCall(c)
        BY <3>0, <4>2, NewCalls, SetType DEF LoseCall, Set, Lost
      <4>3. QED
        BY <2>4, <4>1, <4>2
    <3>2. QED
      BY <1>0, <2>4, <3>1 DEF TypeOK, ServerDenies, LoseCall
  <2>5. CASE HandleDenied(c)
    BY <1>0, <2>1, <2>5, CallEdits, NewCalls DEF TypeOK, HandleDenied, Set, Settle
  <2>6. QED
    BY <1>6, <2>2, <2>3, <2>4, <2>5 DEF Travels
<1>7. ASSUME NEW c \in Calls, Done(c) PROVE TypeOK'
  <2>1. /\ call[c] \in CallState
        /\ call[c].by \in Accounts \cup {None} /\ call[c].pair \in Pairs \cup {None}
    BY <1>0 DEF TypeOK, CallState
  <2>2. call[c].answer = "ok" => Whose(c) \in Accounts
    BY <1>0, <2>1 DEF Sound, CallFits, PairsIssued, Holds, Whose
  <2>3. call' \in [Calls -> CallState]
    <3>1. Set(c, Settled) \/ Set(c, [call[c] EXCEPT !.phase = "clearing"])
      BY <1>7
         DEF Done, ListDone, ProfileDone, EditDone, AvatarDone, PrefsDone, AreasDone,
             DeviceDone, DeleteDone, Settle
    <3>2. Settled \in CallState /\ [call[c] EXCEPT !.phase = "clearing"] \in CallState
      BY <2>1, CallEdits, NewCalls DEF Phases
    <3>3. call \in [Calls -> CallState]
      BY <1>0 DEF TypeOK
    <3>4. QED
      BY <3>1, <3>2, <3>3, SetType DEF Set
  <2>4. QED
    BY <1>0, <1>7, <2>1, <2>2, <2>3
       DEF TypeOK, Done, ListDone, ProfileDone, EditDone, AvatarDone, PrefsDone, AreasDone,
           DeviceDone, DeleteDone, Answered, Late
<1>8. ASSUME NEW p \in Pairs, AccessExpires(p) \/ RefreshExpires(p) PROVE TypeOK'
  BY <1>0, <1>8 DEF TypeOK, AccessExpires, RefreshExpires
<1>9. QED
  BY <1>1, <1>2, <1>3, <1>4, <1>5, <1>6, <1>7, <1>8
     DEF Next, Asks, AskList, AskProfile, AskEdit, AskAvatar, AskPrefs, AskAreas, AskDevice,
         AskDelete, Kinds

(* What the steps of the server's tokens have in common.                   *)
LEMMA IssueStep ==
    ASSUME MobileAssumption, Sound, NEW a \in Accounts, Issue(a)
    PROVE  /\ Issued' = Issued \cup {issued + 1} /\ issued + 1 \notin Issued
           /\ \A p \in Issued : owner'[p] = owner[p]
           /\ owner'[issued + 1] = a
BY DEF MobileAssumption, Sound, TypeOK, Issue, Issued, Pairs

(* What the end of a refresh does to a call that awaits it.                *)
Same(r, s) == s.kind = r.kind /\ s.by = r.by /\ s.old = r.old
Alike(r, s) == Same(r, s) /\ s.answer = r.answer /\ s.runs = r.runs
ResumeTo(r, s) ==
    /\ r.phase = "waitSend" => s.phase = "sent" /\ Alike(r, s)
    /\ r.phase = "waitReplay" /\ refresh.outcome = "renewed" => s.phase = "build" /\ Alike(r, s)
    /\ r.phase = "waitReplay" /\ refresh.outcome = "rejected" => s.phase = "clearing" /\ Alike(r, s)
    /\ r.phase = "waitReplay" /\ refresh.outcome = "unavailable" => s = Settled
    /\ r.phase \notin {"waitSend", "waitReplay"} => s = r
    /\ s.pair \in {r.pair, None} \/ (refresh.outcome = "renewed" /\ s.pair = refresh.next)

(* ResumeAll, call by call.                                                *)
LEMMA Resumed ==
    ASSUME Sound, refresh.phase = "answered", NEW c \in Calls
    PROVE  ResumeTo(call[c], ResumeAll[c])
<1>1. call[c] \in CallState /\ refresh.outcome \in {"renewed", "rejected", "unavailable"}
  BY DEF Sound, TypeOK, RefreshState, RefreshFits
<1>2. CASE call[c].phase = "waitSend"
  BY <1>1, <1>2 DEF CallState, ResumeAll, ResumeTo, Alike, Same
<1>3. CASE call[c].phase = "waitReplay"
  BY <1>1, <1>3 DEF CallState, ResumeAll, ResumeTo, Alike, Same, Settled
<1>4. CASE call[c].phase \notin {"waitSend", "waitReplay"}
  BY <1>1, <1>4 DEF ResumeAll, ResumeTo
<1>5. QED
  BY <1>2, <1>3, <1>4

(* What a step of its own does to a call.                                  *)
Goes(r, s) ==
    \/ /\ r = Settled /\ s.phase = "build" /\ SignedIn
       /\ s.pair = None /\ s.by \in {None, user} /\ ~s.old /\ s.answer = "none" /\ s.runs = 0
    \/ /\ r.phase = "build" /\ s.phase \in {"waitSend", "sent"} /\ Alike(r, s)
       /\ s.pair = IF store = None THEN r.pair ELSE store
    \/ /\ r.phase = "sent" /\ s.phase = "answered" /\ s.answer = "ok" /\ Same(r, s)
       /\ r.pair \in fresh /\ s.pair = r.pair /\ s.runs = r.runs + 1
    \/ /\ r.phase = "sent" /\ s.phase = "answered" /\ s.answer = "401" /\ Same(r, s)
       /\ s.pair = None /\ s.runs = r.runs
    \/ /\ r.phase = "answered" /\ r.answer = "401" /\ s.phase = "waitReplay" /\ Same(r, s)
       /\ s.answer = "none" /\ s.pair = r.pair /\ s.runs = r.runs
    \/ /\ r.phase = "answered" /\ r.answer = "ok" /\ r.kind = "delete" /\ s.phase = "clearing"
       /\ Alike(r, s) /\ s.pair = r.pair
    \/ r.phase \in {"sent", "answered"} /\ s = Settled

(* A screen asks: one call is built anew, nothing else changes.            *)
LEMMA AskEffect ==
    ASSUME Sound, NEW c \in Calls, Asks(c)
    PROVE  /\ Goes(call[c], call'[c])
           /\ \A d \in Calls : d # c => call'[d] = call[d]
           /\ UNCHANGED <<server, store, disk, memory, refresh, login, leaving, history>>
<1>1. PICK k \in Kinds : Ask(c, k)
  BY
     DEF Asks, AskList, AskProfile, AskEdit, AskAvatar, AskPrefs, AskAreas, AskDevice,
         AskDelete, Kinds
<1> DEFINE b == IF k = "avatar" THEN user ELSE None
<1>2. call' = [call EXCEPT ![c] = [Settled EXCEPT !.phase = "build", !.kind = k, !.by = b]]
  BY <1>1 DEF Ask, Set
<1>3. call'[c] = [phase |-> "build", kind |-> k, by |-> b, pair |-> None,
                  retried |-> FALSE, old |-> FALSE, answer |-> "none", runs |-> 0]
  BY <1>2 DEF Settled, Sound, TypeOK
<1>4. \A d \in Calls : d # c => call'[d] = call[d]
  BY <1>2 DEF Sound, TypeOK
<1>5. b \in {None, user} /\ call[c] = Settled /\ SignedIn
  BY <1>1 DEF Ask
<1>6. QED
  BY <1>1, <1>3, <1>4, <1>5 DEF Goes, Ask

(* A call under way moves on; it may schedule a refresh.                   *)
LEMMA TravelEffect ==
    ASSUME Sound, NEW c \in Calls, Travels(c)
    PROVE  /\ Goes(call[c], call'[c])
           /\ \A d \in Calls : d # c => call'[d] = call[d]
           /\ UNCHANGED <<issued, owner, store, disk, memory, login, leaving, history>>
           /\ live' \subseteq live /\ fresh' \subseteq fresh
           /\ refresh' \in {refresh, Schedule}
<1>1. call \in [Calls -> CallState] /\ call[c] \in CallState
  BY DEF Sound, TypeOK
<1>2. CASE Build(c)
  BY <1>1, <1>2 DEF Build, Set, Goes, Alike, Same, CallState, server, memory
<1>3. CASE ServerExecutes(c)
  BY <1>1, <1>3 DEF ServerExecutes, Set, Goes, Same, CallState, server, memory
<1>4. CASE ServerDenies(c)
  BY <1>1, <1>4 DEF ServerDenies, Set, Goes, Same, CallState, server, memory
<1>5. CASE LoseCall(c)
  BY <1>1, <1>5 DEF LoseCall, Lost, Set, Goes, server, memory
<1>6. CASE HandleDenied(c)
  <2>1. CASE call[c].retried
    BY <1>1, <1>6, <2>1 DEF HandleDenied, Set, Settle, Goes, server, memory
  <2>2. CASE ~call[c].retried
    <3> DEFINE s == [call[c] EXCEPT !.phase = "waitReplay", !.retried = TRUE, !.answer = "none"]
    <3>1. /\ s.phase = "waitReplay" /\ s.answer = "none" /\ s.pair = call[c].pair
          /\ s.runs = call[c].runs /\ Same(call[c], s)
      BY <1>1 DEF CallState, Same
    <3>2. call' = [call EXCEPT ![c] = s] /\ refresh' = Schedule
      BY <1>6, <2>2 DEF HandleDenied, Set
    <3> HIDE DEF s
    <3>3. call'[c] = s /\ \A d \in Calls : d # c => call'[d] = call[d]
      BY <1>1, <3>2
    <3>4. Goes(call[c], call'[c])
      BY <1>6, <3>1, <3>3 DEF HandleDenied, Goes
    <3>5. QED
      BY <1>6, <3>2, <3>3, <3>4 DEF HandleDenied, server, memory
  <2>3. QED
    BY <2>1, <2>2
<1>7. QED
  BY <1>2, <1>3, <1>4, <1>5, <1>6 DEF Travels

(* An answer is taken in: by a call of this session, or the state is mixed.  *)
LEMMA DoneEffect ==
    ASSUME Sound, NEW c \in Calls, Done(c)
    PROVE  /\ Goes(call[c], call'[c])
           /\ \A d \in Calls : d # c => call'[d] = call[d]
           /\ UNCHANGED <<server, store, disk, status, refresh, login, leaving, left>>
           /\ call[c].phase = "answered" /\ call[c].answer = "ok"
           /\ crossed' = crossed \/ crossed' = (crossed \/ call[c].old)
           /\ user' # user => user' \in {Whose(c), call[c].by} /\ (call[c].old => crossed')
           /\ cache' # cache => cache' = cache \cup {Whose(c)} /\ (call[c].old => crossed')
<1>1. call \in [Calls -> CallState] /\ call[c] \in CallState
  BY DEF Sound, TypeOK
<1>2. CASE DeleteDone(c)
  BY <1>1, <1>2 DEF DeleteDone, Answered, Set, Goes, Alike, Same, CallState
<1>3. CASE ListDone(c) \/ ProfileDone(c) \/ DeviceDone(c)
  BY <1>1, <1>3 DEF ListDone, ProfileDone, DeviceDone, Answered, Settle, Set, Goes, Kept
<1>4. CASE EditDone(c) \/ AvatarDone(c) \/ PrefsDone(c) \/ AreasDone(c)
  BY <1>1, <1>4
     DEF EditDone, AvatarDone, PrefsDone, AreasDone, Answered, Settle, Set, Goes, Late
<1>5. QED
  BY <1>2, <1>3, <1>4 DEF Done
(* Pairs are issued in order, and only what was issued is held.            *)
LEMMA PairsStep ==
    ASSUME MobileAssumption, Sound, Next
    PROVE  PairsIssued'
<1> USE DEF server, memory, exchanges, history
<1>0. TypeOK /\ PairsIssued
  BY DEF Sound
<1>1. CASE Hydrate \/ ShowCachedProfile \/ Persist \/ Kill
  BY <1>0, <1>1
     DEF PairsIssued, Holds, Issued, Hydrate, ShowCachedProfile, Persist, Kill, Settled,
         NoRefresh, NoLogin
<1>2. CASE SigningIn
  <2>1. ASSUME NEW a \in Accounts, Enter(a) PROVE PairsIssued'
    BY <1>0, <2>1, IssueStep DEF PairsIssued, Holds, Enter, Issue
  <2>2. CASE LoginFails \/ FinishLogin
    <3>1. login'.phase = "none"
      BY <2>2 DEF LoginFails, FinishLogin, NoLogin
    <3>2. QED
      BY <1>0, <2>2, <3>1 DEF PairsIssued, Holds, Issued, LoginFails, FinishLogin
  <2>3. CASE StoreLogin
    BY <1>0, <2>3
       DEF TypeOK, LoginState, RefreshState, PairsIssued, Holds, Issued, StoreLogin,
           Overtaken
  <2>4. QED
    BY <1>2, <2>1, <2>2, <2>3 DEF SigningIn, SubmitLogin, SubmitRegistration
<1>3. CASE SigningOut
  <2>1. CASE TapLogout \/ ClearTokens
    BY <1>0, <2>1
       DEF TypeOK, RefreshState, PairsIssued, Holds, Issued, TapLogout, ClearTokens,
           RemoveTokens, Overtaken
  <2>2. ASSUME NEW c \in Calls, ForcedClear(c) PROVE PairsIssued'
    BY <1>0, <2>2
       DEF TypeOK, CallState, RefreshState, PairsIssued, Holds, Issued, ForcedClear,
           RemoveTokens, Set, Overtaken
  <2>3. CASE FinishLogout \/ \E c \in Calls : FinishForced(c)
    BY <1>0, <2>3
       DEF TypeOK, CallState, PairsIssued, Holds, Issued, FinishLogout, FinishForced, Old,
           Settled
  <2>4. QED
    BY <1>3, <2>1, <2>2, <2>3 DEF SigningOut
<1>4. CASE Refreshing
  <2>0. CASE RefreshRead
    BY <1>0, <2>0 DEF TypeOK, RefreshState, PairsIssued, Holds, Issued, RefreshRead
  <2>1. CASE ServerRefuses \/ RefreshLost
    BY <1>0, <2>1
       DEF TypeOK, RefreshState, PairsIssued, Holds, Issued, ServerRefuses, RefreshLost
  <2>2. CASE ServerRotates
    <3>1. owner[refresh.pair] \in Accounts
      BY <1>0, <2>2 DEF TypeOK, PairsIssued, ServerRotates
    <3>2. refresh'.pair = None /\ refresh'.next = issued + 1
      BY <1>0, <2>2 DEF TypeOK, RefreshState, ServerRotates
    <3>3. /\ Issued' = Issued \cup {issued + 1} /\ issued + 1 \notin Issued
          /\ \A p \in Issued : owner'[p] = owner[p]
          /\ owner'[issued + 1] = owner[refresh.pair]
      BY <1>0, <2>2, <3>1, IssueStep DEF ServerRotates
    <3>4. /\ \A p \in Issued' : owner'[p] \in Accounts
          /\ live' \subseteq Issued' /\ fresh' \subseteq Issued'
      BY <1>0, <2>2, <3>1, <3>3 DEF PairsIssued, ServerRotates, Issue
    <3>5. Holds(refresh.pair)' /\ Holds(refresh.next)'
      BY <3>2, <3>3 DEF Holds
    <3>6. Holds(store)' /\ \A c \in Calls : Holds(call[c].pair)'
      BY <1>0, <2>2, <3>3 DEF PairsIssued, Holds, ServerRotates
    <3>7. login'.phase # "none" => login'.pair \in Issued' /\ owner'[login'.pair] = login'.as
      BY <1>0, <2>2, <3>3 DEF PairsIssued, ServerRotates
    <3>8. QED
      BY <3>4, <3>5, <3>6, <3>7 DEF PairsIssued
  <2>3. CASE RefreshDone
    <3>1. \A c \in Calls : call'[c].pair \in {call[c].pair, None, refresh.next}
      BY <2>3, Resumed DEF RefreshDone, ResumeTo
    <3>2. QED
      BY <1>0, <2>3, <3>1 DEF PairsIssued, Holds, Issued, RefreshDone, NoRefresh
  <2>4. QED
    BY <1>4, <2>0, <2>1, <2>2, <2>3 DEF Refreshing
<1>5. ASSUME NEW c \in Calls, Asks(c) \/ Travels(c) \/ Done(c) PROVE PairsIssued'
  <2>1. Goes(call[c], call'[c]) /\ \A d \in Calls : d # c => call'[d] = call[d]
    BY <1>5, AskEffect, TravelEffect, DoneEffect
  <2>2. \A d \in Calls : call'[d].pair \in {call[d].pair, store, None}
    BY <2>1 DEF Goes, Settled
  <2>3. /\ issued' = issued /\ owner' = owner /\ store' = store /\ login' = login
        /\ live' \subseteq live /\ fresh' \subseteq fresh
        /\ refresh' \in {refresh, Schedule}
    BY <1>5, AskEffect, TravelEffect, DoneEffect
  <2>4. QED
    BY <1>0, <2>2, <2>3 DEF PairsIssued, Holds, Issued, Schedule, NoRefresh
<1>6. ASSUME NEW p \in Pairs, AccessExpires(p) \/ RefreshExpires(p) PROVE PairsIssued'
  BY <1>0, <1>6 DEF PairsIssued, Holds, Issued, AccessExpires, RefreshExpires
<1>7. QED
  BY <1>1, <1>2, <1>3, <1>4, <1>5, <1>6 DEF Next

(* A settled call fits.                                                    *)
LEMMA SettledFits == CallFits(Settled)
BY DEF CallFits, Settled

(* A call that moves on fits: it is executed only where it never was.      *)
LEMMA GoesFits ==
    ASSUME MobileAssumption, Sound, NEW r \in CallState, NEW s, CallFits(r), Goes(r, s)
    PROVE  CallFits(s)
<1>1. None \notin fresh
  BY DEF MobileAssumption, Sound, TypeOK
<1>2. r.runs \in Nat
  BY DEF CallState
<1>3. QED
  BY <1>1, <1>2, SettledFits DEF CallFits, Goes, Alike, Same, Settled

(* Clearing, closing and growing old leave a call what it was.             *)
LEMMA CloseFits ==
    ASSUME NEW r \in CallState, CallFits(r)
    PROVE  /\ r.phase # "idle" => CallFits([r EXCEPT !.old = TRUE])
           /\ r.phase = "clearing" => CallFits([r EXCEPT !.phase = "closing"])
BY DEF CallState, CallFits

(* Every step leaves all calls as their phases say.                        *)
LEMMA CallsStep ==
    ASSUME MobileAssumption, Sound, Next
    PROVE  \A d \in Calls : CallFits(call'[d])
<1>0. /\ call \in [Calls -> CallState] /\ \A d \in Calls : call[d] \in CallState /\ CallFits(call[d])
  BY DEF Sound, TypeOK
<1>1. CASE call' = call
  BY <1>0, <1>1
<1>2. CASE Kill
  BY <1>2, SettledFits DEF Kill
<1>3. CASE FinishLogout
  BY <1>0, <1>3, CloseFits DEF FinishLogout, Old
<1>4. ASSUME NEW c \in Calls, FinishForced(c) PROVE \A d \in Calls : CallFits(call'[d])
  <2> DEFINE C == [call EXCEPT ![c] = Settled]
  <2>1. C \in [Calls -> CallState] /\ \A d \in Calls : CallFits(C[d])
    BY <1>0, SettledFits, NewCalls
  <2>2. call' = Old(C)
    BY <1>4 DEF FinishForced
  <2> HIDE DEF C
  <2>3. QED
    BY <2>1, <2>2, CloseFits DEF Old
<1>5. ASSUME NEW c \in Calls, ForcedClear(c) PROVE \A d \in Calls : CallFits(call'[d])
  BY <1>0, <1>5, CloseFits DEF ForcedClear, Set
<1>6. CASE RefreshDone
  <2>1. ASSUME NEW d \in Calls PROVE CallFits(call'[d])
    <3>1. ResumeTo(call[d], call'[d])
      BY <1>6, Resumed DEF RefreshDone
    <3>2. refresh.outcome \in {"renewed", "rejected", "unavailable"}
      BY <1>6 DEF RefreshDone, Sound, TypeOK, RefreshState, RefreshFits
    <3>3. CallFits(call[d]) /\ call[d] \in CallState
      BY <1>0
    <3>4. CASE call[d].phase \in {"waitSend", "waitReplay"}
      BY <3>1, <3>2, <3>3, <3>4, SettledFits DEF CallFits, ResumeTo, Alike, Same
    <3>5. CASE call[d].phase \notin {"waitSend", "waitReplay"}
      BY <3>1, <3>3, <3>5 DEF ResumeTo
    <3>6. QED
      BY <3>4, <3>5
  <2>2. QED
    BY <2>1
<1>7. ASSUME NEW c \in Calls, Asks(c) \/ Travels(c) \/ Done(c)
      PROVE  \A d \in Calls : CallFits(call'[d])
  <2>1. Goes(call[c], call'[c]) /\ \A d \in Calls : d # c => call'[d] = call[d]
    BY <1>7, AskEffect, TravelEffect, DoneEffect
  <2>2. CallFits(call'[c])
    BY <1>0, <2>1, GoesFits
  <2>3. QED
    BY <1>0, <2>1, <2>2
<1>8. CASE \/ Hydrate \/ ShowCachedProfile \/ Persist \/ SigningIn
           \/ TapLogout \/ ClearTokens
           \/ RefreshRead \/ ServerRotates \/ ServerRefuses \/ RefreshLost
           \/ \E p \in Pairs : AccessExpires(p) \/ RefreshExpires(p)
  <2>1. call' = call
    BY <1>8
       DEF Hydrate, ShowCachedProfile, Persist, SigningIn, SubmitLogin, SubmitRegistration,
           Enter,
           LoginFails, StoreLogin, FinishLogin, TapLogout, ClearTokens, RefreshRead, ServerRotates,
           ServerRefuses, RefreshLost, AccessExpires, RefreshExpires, exchanges
  <2>2. QED
    BY <1>1, <2>1
<1>9. QED
  BY <1>2, <1>3, <1>4, <1>5, <1>6, <1>7, <1>8 DEF Next, SigningOut, Refreshing

(* The same of the shared refresh, which stays one of the stored pair.     *)
LEMMA RefreshStep ==
    ASSUME MobileAssumption, Sound, Next
    PROVE  RefreshFits' /\ RefreshOfStore'
<1> USE DEF server, memory, exchanges, history
<1>0. refresh \in RefreshState /\ RefreshFits /\ RefreshOfStore
  BY DEF Sound, TypeOK
<1>1. CASE UNCHANGED <<refresh, store>>
  BY <1>0, <1>1 DEF RefreshFits, RefreshOfStore
<1>2. CASE Kill \/ RefreshDone
  <2>1. refresh' = NoRefresh
    BY <1>2 DEF Kill, RefreshDone
  <2>2. QED
    BY <2>1 DEF RefreshFits, RefreshOfStore, NoRefresh
<1>3. CASE refresh' = Overtaken
  <2>1. CASE refresh.phase \in {"none", "reading"}
    <3>1. refresh' = refresh /\ refresh.phase \notin {"sent", "answered"}
      BY <1>0, <1>3, <2>1 DEF Overtaken, RefreshState, RefreshFits, NoRefresh
    <3>2. QED
      BY <1>0, <3>1 DEF RefreshFits, RefreshOfStore
  <2>2. CASE refresh.phase \in {"sent", "answered"}
    <3>1. refresh'.old
      BY <1>0, <1>3, <2>2 DEF Overtaken, RefreshState
    <3>2. refresh'.phase = refresh.phase /\ refresh'.pair = refresh.pair /\ refresh'.next = refresh.next
          /\ refresh'.outcome = refresh.outcome
      BY <1>0, <1>3 DEF Overtaken, RefreshState
    <3>3. QED
      BY <1>0, <2>2, <3>1, <3>2 DEF RefreshFits, RefreshOfStore
  <2>3. QED
    BY <1>0, <2>1, <2>2 DEF RefreshState
<1>4. CASE refresh' = Schedule /\ store' = store
  BY <1>0, <1>4 DEF Schedule, RefreshFits, RefreshOfStore, NoRefresh
<1>5. CASE RefreshRead
  BY <1>0, <1>5 DEF RefreshRead, RefreshState, RefreshFits, RefreshOfStore, NoRefresh
<1>6. CASE ServerRotates
  <2>1. issued + 1 # None /\ refresh.pair # None
    BY <1>6 DEF MobileAssumption, ServerRotates, Sound, TypeOK, Issue, Pairs
  <2>2. QED
    BY <1>0, <1>6, <2>1 DEF ServerRotates, RefreshState, RefreshFits, RefreshOfStore
<1>7. CASE ServerRefuses \/ RefreshLost
  BY <1>0, <1>7
     DEF ServerRefuses, RefreshLost, Outage, RefreshState, RefreshFits, RefreshOfStore
<1>8. ASSUME NEW c \in Calls, Asks(c) \/ Travels(c) \/ Done(c)
      PROVE  RefreshFits' /\ RefreshOfStore'
  BY <1>1, <1>4, <1>8, AskEffect, TravelEffect, DoneEffect
<1>9. QED
  BY <1>1, <1>2, <1>3, <1>5, <1>6, <1>7, <1>8
     DEF Next, SigningIn, SigningOut, Refreshing, Hydrate, ShowCachedProfile, Persist, SubmitLogin,
         SubmitRegistration, Enter, LoginFails, StoreLogin, FinishLogin, TapLogout, ClearTokens,
         FinishLogout, ForcedClear, FinishForced, RemoveTokens, AccessExpires, RefreshExpires

(* What is under way fits where the application is.                        *)
LEMMA StageStep ==
    ASSUME MobileAssumption, Sound, Next
    PROVE  StageFits'
<1> USE DEF server, memory, exchanges, history, Starting, SignedIn, SignedOut
<1>0. /\ call \in [Calls -> CallState] /\ \A c \in Calls : call[c] \in CallState /\ CallFits(call[c])
      /\ status \in {"loading", "authenticated", "unauthenticated"}
      /\ StageFits
  BY DEF Sound, TypeOK
<1>1. CASE Hydrate \/ ShowCachedProfile \/ Persist
  BY <1>0, <1>1 DEF StageFits, Hydrate, ShowCachedProfile, Persist, Settled
<1>2. CASE Kill
  BY <1>2 DEF StageFits, Kill, NoLogin
<1>3. ASSUME NEW a \in Accounts, Enter(a) PROVE StageFits'
  BY <1>0, <1>3 DEF StageFits, Enter
<1>4. CASE LoginFails \/ StoreLogin
  BY <1>0, <1>4 DEF StageFits, LoginFails, StoreLogin, NoLogin
<1>5. CASE FinishLogin
  BY <1>0, <1>5 DEF StageFits, FinishLogin, NoLogin
<1>6. CASE TapLogout \/ ClearTokens
  BY <1>0, <1>6 DEF StageFits, TapLogout, ClearTokens
<1>7. ASSUME NEW c \in Calls, ForcedClear(c) PROVE StageFits'
  <2>1. ~Starting
    BY <1>0, <1>7 DEF StageFits, ForcedClear, Settled
  <2>2. \A d \in Calls : /\ call'[d].old = call[d].old
                         /\ call[d].phase = "idle" => call'[d].phase = "idle"
    BY <1>0, <1>7 DEF ForcedClear, Set, CallState
  <2>3. QED
    BY <1>0, <1>7, <2>1, <2>2 DEF StageFits, ForcedClear
<1>8. CASE FinishLogout \/ \E c \in Calls : FinishForced(c)
  <2>1. SignedOut'
    BY <1>8 DEF FinishLogout, FinishForced, Close
  <2>2. \A c \in Calls : call'[c].phase = "idle" \/ call'[c].old
    BY <1>0, <1>8 DEF FinishLogout, FinishForced, Old, CallState, Settled
  <2>3. QED
    BY <2>1, <2>2 DEF StageFits
<1>9. CASE RefreshRead \/ ServerRotates \/ ServerRefuses \/ RefreshLost
  BY <1>0, <1>9
     DEF StageFits, RefreshRead, ServerRotates, ServerRefuses, RefreshLost, NoRefresh
<1>10. CASE RefreshDone
  <2>1. ~Starting
    BY <1>0, <1>10 DEF StageFits, RefreshDone, NoRefresh
  <2>2. \A d \in Calls : \/ call'[d] = Settled
                         \/ /\ call'[d].old = call[d].old
                            /\ call[d].phase = "idle" => call'[d].phase = "idle"
    BY <1>0, <1>10, Resumed
       DEF RefreshDone, ResumeTo, Alike, Same, Sound, TypeOK, RefreshState, RefreshFits
  <2>3. QED
    BY <1>0, <1>10, <2>1, <2>2 DEF StageFits, RefreshDone, Settled
<1>11. ASSUME NEW c \in Calls, Asks(c) \/ Travels(c) \/ Done(c) PROVE StageFits'
  <2>1. Goes(call[c], call'[c]) /\ \A d \in Calls : d # c => call'[d] = call[d]
    BY <1>11, AskEffect, TravelEffect, DoneEffect
  <2>2. UNCHANGED <<status, login, leaving>>
    BY <1>11, AskEffect, TravelEffect, DoneEffect
  <2>3. ~Starting
    BY <1>0, <2>1 DEF StageFits, Goes, Settled
  <2>4. SignedOut => call'[c].phase = "idle" \/ call'[c].old
    BY <1>0, <2>1 DEF StageFits, Goes, Alike, Same, Settled
  <2>5. QED
    BY <1>0, <2>1, <2>2, <2>3, <2>4 DEF StageFits
<1>12. ASSUME NEW p \in Pairs, AccessExpires(p) \/ RefreshExpires(p) PROVE StageFits'
  BY <1>0, <1>12 DEF StageFits, AccessExpires, RefreshExpires
<1>13. QED
  BY <1>1, <1>2, <1>3, <1>4, <1>5, <1>6, <1>7, <1>8, <1>9, <1>10, <1>11, <1>12
     DEF Next, SigningIn, SigningOut, Refreshing, SubmitLogin, SubmitRegistration

(* The part of the invariant that mixing sessions does not touch.          *)
LEMMA SoundStep == ASSUME MobileAssumption, Sound, [Next]_vars PROVE Sound'
<1>1. CASE Next
  BY <1>1, TypeStep, PairsStep, CallsStep, RefreshStep, StageStep DEF Sound
<1>2. CASE UNCHANGED vars
  BY <1>2
     DEF vars, server, memory, exchanges, history, Sound, TypeOK, PairsIssued, Issued, Holds,
         RefreshFits,
         StageFits, RefreshOfStore, Starting, SignedOut
<1>3. QED
  BY <1>1, <1>2

-----------------------------------------------------------------------------
(* While no two sessions have mixed.                                       *)

(* History is not undone.                                                  *)
LEMMA CrossedStays == ASSUME Sound, Next, ~crossed' PROVE ~crossed
BY DoneEffect, AskEffect, TravelEffect
   DEF history, Next, SigningIn, SigningOut, Refreshing, Hydrate, ShowCachedProfile, Persist, Kill, SubmitLogin,
       SubmitRegistration, Enter, LoginFails, StoreLogin, FinishLogin, TapLogout, ClearTokens,
       FinishLogout, ForcedClear, FinishForced, RefreshRead, ServerRotates, ServerRefuses, RefreshLost,
       RefreshDone, AccessExpires, RefreshExpires

(* A call or a refresh that has not grown old belongs to a session.        *)
LEMMA CallOfSession ==
    ASSUME Sound, NEW c \in Calls, call[c].phase # "idle", ~call[c].old
    PROVE  SignedIn
BY DEF Sound, TypeOK, StageFits, Starting, SignedIn, SignedOut, Settled

(* Tokens and the rest come and go together.                               *)
LEMMA StoreStep ==
    ASSUME MobileAssumption, Sound, StoreFits, Next, ~crossed'
    PROVE  StoreFits'
<1> USE DEF server, memory, exchanges, history, Starting, SignedIn, SignedOut
<1>0. /\ call \in [Calls -> CallState] /\ \A c \in Calls : call[c] \in CallState
      /\ status \in {"loading", "authenticated", "unauthenticated"}
      /\ StageFits /\ StoreFits /\ PairsIssued /\ ~crossed
  BY CrossedStays DEF Sound, TypeOK
<1>1. CASE Hydrate \/ ShowCachedProfile \/ Persist
  BY <1>0, <1>1 DEF StoreFits, StageFits, Closing, Hydrate, ShowCachedProfile, Persist
<1>2. CASE Kill
  <2>1. left \subseteq left' /\ (Closing => disk \subseteq left')
    BY <1>2 DEF Kill
  <2>2. store = None => disk \subseteq left'
    BY <1>0, <2>1 DEF StoreFits
  <2>3. QED
    BY <1>2, <2>2 DEF StoreFits, Kill, Settled
<1>3. ASSUME NEW a \in Accounts, Enter(a) PROVE StoreFits'
  BY <1>0, <1>3 DEF StoreFits, Closing, Enter
<1>4. CASE LoginFails
  BY <1>0, <1>4 DEF StoreFits, Closing, LoginFails, NoLogin
<1>5. CASE StoreLogin
  <2>1. /\ login.pair # None /\ SignedOut
        /\ login' = [login EXCEPT !.phase = "stored"] /\ store' = login.pair
    BY <1>0, <1>5
       DEF MobileAssumption, Sound, TypeOK, PairsIssued, StageFits, StoreLogin, Issued,
           Pairs
  <2>2. login'.phase = "stored"
    BY <2>1 DEF Sound, TypeOK, LoginState
  <2>3. QED
    BY <1>0, <1>5, <2>1, <2>2 DEF StoreFits, StageFits, Closing, StoreLogin
<1>6. CASE FinishLogin
  BY <1>0, <1>6 DEF StoreFits, StageFits, Closing, FinishLogin
<1>7. CASE TapLogout \/ ClearTokens
  BY <1>0, <1>7 DEF StoreFits, Closing, TapLogout, ClearTokens, RemoveTokens
<1>8. ASSUME NEW c \in Calls, ForcedClear(c) PROVE StoreFits'
  <2>1. SignedIn
    BY <1>8, CallOfSession DEF ForcedClear
  <2>2. call'[c].phase = "closing" /\ store' = None /\ UNCHANGED <<leaving, status>>
    BY <1>0, <1>8 DEF ForcedClear, Set, RemoveTokens, CallState
  <2>3. QED
    BY <1>0, <2>1, <2>2 DEF StoreFits, Closing
<1>9. CASE FinishLogout
  <2>1. SignedIn /\ store = None /\ login.phase = "none"
    BY <1>0, <1>9 DEF FinishLogout, StoreFits, StageFits, Sound, TypeOK, LoginState
  <2>2. QED
    BY <1>0, <1>9, <2>1 DEF FinishLogout, Close, Purge, StoreFits
<1>10. ASSUME NEW c \in Calls, FinishForced(c) PROVE StoreFits'
  <2>1. SignedIn /\ ~call[c].old /\ leaving = "none" /\ store = None
    BY <1>0, <1>10, CallOfSession DEF FinishForced, StoreFits
  <2>2. login.phase = "none"
    BY <1>0, <2>1 DEF StageFits, Sound, TypeOK, LoginState
  <2>3. QED
    BY <1>0, <1>10, <2>1, <2>2 DEF FinishForced, Close, Purge, StoreFits
<1>11. CASE RefreshRead \/ ServerRotates \/ ServerRefuses \/ RefreshLost
  BY <1>0, <1>11 DEF StoreFits, Closing, RefreshRead, ServerRotates, ServerRefuses, RefreshLost
<1>12. CASE RefreshDone
  <2>1. \A d \in Calls : call'[d].phase = "closing" => call'[d] = call[d]
    BY <1>0, <1>12, Resumed
       DEF RefreshDone, ResumeTo, Sound, TypeOK, RefreshState, RefreshFits, Settled
  <2>2. \A d \in Calls : call[d].phase = "closing" => call'[d] = call[d]
    BY <1>12, Resumed DEF RefreshDone, ResumeTo
  <2>3. store' = store \/ (store # None /\ store' # None)
    BY <1>12 DEF RefreshDone, Sound, RefreshOfStore, RefreshFits
  <2>4. UNCHANGED <<status, user, cache, disk, leaving, login, left>>
    BY <1>12 DEF RefreshDone
  <2>5. QED
    BY <1>0, <2>1, <2>2, <2>3, <2>4 DEF StoreFits, Closing
<1>13. ASSUME NEW c \in Calls, Asks(c) \/ Travels(c) \/ Done(c) PROVE StoreFits'
  <2>1. Goes(call[c], call'[c]) /\ \A d \in Calls : d # c => call'[d] = call[d]
    BY <1>13, AskEffect, TravelEffect, DoneEffect
  <2>2. call'[c].phase # "closing" /\ call[c].phase # "closing"
    BY <2>1 DEF Goes, Settled
  <2>3. UNCHANGED <<status, login, leaving, store, disk, left>>
    BY <1>13, AskEffect, TravelEffect, DoneEffect
  <2>4. UNCHANGED <<user, cache>> \/ SignedIn
    BY <1>13, AskEffect, TravelEffect, DoneEffect, CallOfSession
  <2>5. QED
    BY <1>0, <2>1, <2>2, <2>3, <2>4 DEF StoreFits, Closing
<1>14. ASSUME NEW p \in Pairs, AccessExpires(p) \/ RefreshExpires(p) PROVE StoreFits'
  BY <1>0, <1>14 DEF StoreFits, Closing, AccessExpires, RefreshExpires
<1>15. QED
  BY <1>1, <1>2, <1>3, <1>4, <1>5, <1>6, <1>7, <1>8, <1>9, <1>10, <1>11, <1>12, <1>13, <1>14
     DEF Next, SigningIn, SigningOut, Refreshing, SubmitLogin, SubmitRegistration

(* What is of one account stays of one account, perhaps another.           *)
LEMMA AllOfStep ==
    ASSUME MobileAssumption, Sound, StoreFits, NEW a \in Accounts \cup {None}, AllOf(a), Next,
           ~crossed'
    PROVE  \E b \in Accounts \cup {None} : AllOf(b)'
<1> USE DEF server, memory, exchanges, history, Starting, SignedIn, SignedOut
<1>0. /\ call \in [Calls -> CallState] /\ \A c \in Calls : call[c] \in CallState
      /\ refresh \in RefreshState /\ login \in LoginState
      /\ StageFits /\ StoreFits /\ PairsIssued /\ RefreshFits /\ ~crossed
      /\ None \notin Accounts /\ None \notin Pairs
  BY CrossedStays DEF Sound, TypeOK, MobileAssumption
<1>1. CASE Hydrate \/ ShowCachedProfile \/ Persist
  BY <1>0, <1>1 DEF AllOf, Hydrate, ShowCachedProfile, Persist
<1>2. CASE Kill
  <2>1. left \subseteq left'
    BY <1>2 DEF Kill
  <2>2. AllOf(a)'
    BY <1>0, <1>2, <2>1 DEF AllOf, Kill, Settled, NoRefresh, NoLogin
  <2>3. QED
    BY <2>2
<1>3. ASSUME NEW e \in Accounts, Enter(e) PROVE AllOf(a)'
  <2>1. \A p \in Issued : owner'[p] = owner[p]
    BY <1>3, IssueStep DEF Enter
  <2>2. login'.phase # "stored" /\ UNCHANGED <<store, disk, user, cache, call, refresh, left>>
    BY <1>3 DEF Enter
  <2>3. QED
    BY <1>0, <2>1, <2>2 DEF AllOf, PairsIssued, Holds
<1>4. CASE LoginFails
  BY <1>0, <1>4 DEF AllOf, LoginFails, NoLogin
<1>5. CASE StoreLogin
  <2>1. login.as \in Accounts /\ owner[login.pair] = login.as
    BY <1>0, <1>5 DEF StoreLogin, PairsIssued, Issued
  <2>2. user = None /\ cache \subseteq left /\ disk \subseteq left
    BY <1>0, <1>5 DEF StoreLogin, StoreFits, StageFits
  <2>3. \A c \in Calls : ~call[c].old => call[c] = Settled
    BY <1>0, <1>5 DEF StoreLogin, StageFits, Sound, CallFits
  <2>4. ~refresh'.old => refresh'.pair = None /\ refresh'.next = None
    <3>1. CASE refresh.phase \in {"sent", "answered"}
      BY <1>0, <1>5, <3>1 DEF StoreLogin, Overtaken, RefreshState
    <3>2. CASE refresh.phase \in {"none", "reading"}
      BY <1>0, <1>5, <3>2 DEF StoreLogin, Overtaken, RefreshState, RefreshFits, NoRefresh
    <3>3. QED
      BY <1>0, <3>1, <3>2 DEF RefreshState
  <2>5. login'.as = login.as
    BY <1>0, <1>5 DEF StoreLogin, LoginState
  <2>6. PICK b \in Accounts : b = login.as
    BY <2>1
  <2>7. AllOf(b)'
    BY <1>5, <2>1, <2>2, <2>3, <2>4, <2>5, <2>6 DEF StoreLogin, AllOf, Settled
  <2>8. QED
    BY <2>7
<1>6. CASE FinishLogin
  BY <1>0, <1>6 DEF AllOf, FinishLogin, NoLogin
<1>7. CASE TapLogout \/ ClearTokens
  BY <1>0, <1>7 DEF AllOf, TapLogout, ClearTokens, RemoveTokens, Overtaken, RefreshState
<1>8. ASSUME NEW c \in Calls, ForcedClear(c) PROVE AllOf(a)'
  <2>1. \A d \in Calls : /\ call'[d].pair = call[d].pair /\ call'[d].by = call[d].by
                         /\ call'[d].old = call[d].old
    BY <1>0, <1>8 DEF ForcedClear, Set, CallState
  <2>2. /\ refresh'.pair = refresh.pair /\ refresh'.next = refresh.next
        /\ refresh.old => refresh'.old
    BY <1>0, <1>8 DEF ForcedClear, RemoveTokens, Overtaken, RefreshState
  <2>3. QED
    BY <1>8, <2>1, <2>2 DEF AllOf, ForcedClear, RemoveTokens
<1>9. CASE FinishLogout \/ \E c \in Calls : FinishForced(c)
  <2>1. \A d \in Calls : call'[d].old \/ call'[d] = Settled
    <3>1. ASSUME NEW C \in [Calls -> CallState], NEW d \in Calls, C[d].phase = "idle" => C[d] = Settled
          PROVE  Old(C)[d].old \/ Old(C)[d] = Settled
      BY <3>1 DEF Old, CallState
    <3>2. \A d \in Calls : call[d].phase = "idle" => call[d] = Settled
      BY DEF Sound, CallFits
    <3>3. CASE FinishLogout
      BY <1>0, <3>1, <3>2, <3>3 DEF FinishLogout
    <3>4. ASSUME NEW c \in Calls, FinishForced(c)
          PROVE  \A d \in Calls : call'[d].old \/ call'[d] = Settled
      <4> DEFINE C == [call EXCEPT ![c] = Settled]
      <4>1. C \in [Calls -> CallState] /\ \A d \in Calls : C[d].phase = "idle" => C[d] = Settled
        BY <1>0, <3>2, NewCalls
      <4>2. call' = Old(C)
        BY <3>4 DEF FinishForced
      <4> HIDE DEF C
      <4>3. QED
        BY <3>1, <4>1, <4>2
    <3>5. QED
      BY <1>9, <3>3, <3>4
  <2>2. UNCHANGED <<owner, store, refresh, login>> /\ user' = None /\ cache' = {} /\ disk' = {}
    BY <1>9 DEF FinishLogout, FinishForced, Close, Purge
  <2>3. QED
    BY <2>1, <2>2 DEF AllOf, Settled
<1>10. CASE RefreshRead
  BY <1>0, <1>10 DEF AllOf, RefreshRead, RefreshState, RefreshFits, NoRefresh
<1>11. CASE ServerRotates
  <2>1. refresh.pair \in Issued /\ owner[refresh.pair] \in Accounts
    BY <1>0, <1>11 DEF ServerRotates, PairsIssued
  <2>2. /\ \A p \in Issued : owner'[p] = owner[p]
        /\ owner'[issued + 1] = owner[refresh.pair]
    BY <1>11, <2>1, IssueStep DEF ServerRotates
  <2>3. refresh'.pair = None /\ refresh'.next = issued + 1 /\ refresh'.old = refresh.old
    BY <1>0, <1>11 DEF ServerRotates, RefreshState
  <2>4. UNCHANGED <<store, disk, user, cache, call, login, left>>
    BY <1>11 DEF ServerRotates
  <2>5. refresh.pair # None
    BY <1>0, <1>11 DEF ServerRotates, RefreshFits
  <2>6. QED
    BY <1>0, <2>1, <2>2, <2>3, <2>4, <2>5 DEF AllOf, PairsIssued, Holds
<1>12. CASE ServerRefuses \/ RefreshLost
  <2>1. refresh'.pair = None /\ refresh'.next \in {refresh.next, None} /\ (refresh'.old <=> refresh.old)
    BY <1>0, <1>12 DEF ServerRefuses, RefreshLost, Outage, RefreshState
  <2>2. UNCHANGED <<owner, store, disk, user, cache, call, login, left>>
    BY <1>12 DEF ServerRefuses, RefreshLost
  <2>3. QED
    BY <2>1, <2>2 DEF AllOf
<1>13. CASE RefreshDone
  <2>1. ~refresh.old \/ refresh.outcome = "unavailable"
    BY <1>13 DEF RefreshDone
  <2>2. refresh.outcome = "renewed" => refresh.next # None /\ owner[refresh.next] = a
    BY <1>0, <1>13, <2>1 DEF RefreshDone, RefreshFits, AllOf
  <2>3. ASSUME NEW d \in Calls, ~call'[d].old
        PROVE  /\ call'[d].pair # None => owner[call'[d].pair] = a
               /\ call'[d].by \in {a, None} \cup left
    <3>1. ResumeTo(call[d], call'[d])
      BY <1>13, Resumed DEF RefreshDone
    <3>2. refresh.outcome \in {"renewed", "rejected", "unavailable"}
      BY <1>0, <1>13 DEF RefreshDone, RefreshState, RefreshFits
    <3>3. call'[d] = Settled \/ (call'[d].by = call[d].by /\ call'[d].old = call[d].old)
      BY <3>1, <3>2 DEF ResumeTo, Alike, Same
    <3>4. QED
      BY <2>2, <2>3, <3>1, <3>3 DEF AllOf, ResumeTo, Settled
  <2>4. /\ store' = IF refresh.outcome = "renewed" THEN refresh.next ELSE store
        /\ UNCHANGED <<owner, disk, user, cache, login, left>>
        /\ refresh'.pair = None /\ refresh'.next = None
    BY <1>13 DEF RefreshDone, NoRefresh
  <2>5. QED
    BY <2>2, <2>3, <2>4 DEF AllOf
<1>14. ASSUME NEW c \in Calls, Asks(c) \/ Travels(c) PROVE AllOf(a)'
  <2>1. Goes(call[c], call'[c]) /\ \A d \in Calls : d # c => call'[d] = call[d]
    BY <1>14, AskEffect, TravelEffect
  <2>2. UNCHANGED <<owner, store, disk, user, cache, login, left>> /\ refresh' \in {refresh, Schedule}
    BY <1>14, AskEffect, TravelEffect
  <2>3. ~call'[c].old => /\ call'[c].pair # None => owner[call'[c].pair] = a
                         /\ call'[c].by \in {a, None} \cup left
    BY <2>1 DEF AllOf, Goes, Alike, Same, Settled
  <2>4. refresh' # refresh => refresh'.pair = None /\ refresh'.next = None
    BY <2>2 DEF Schedule, NoRefresh
  <2>5. QED
    BY <2>1, <2>2, <2>3, <2>4 DEF AllOf
<1>15. ASSUME NEW c \in Calls, Done(c) PROVE AllOf(a)'
  <2>1. /\ Goes(call[c], call'[c]) /\ \A d \in Calls : d # c => call'[d] = call[d]
        /\ UNCHANGED <<owner, store, disk, login, refresh, left>>
        /\ call[c].phase = "answered" /\ call[c].answer = "ok"
    BY <1>15, DoneEffect
  <2>2. ~call'[c].old => /\ call'[c].pair # None => owner[call'[c].pair] = a
                         /\ call'[c].by \in {a, None} \cup left
    BY <2>1 DEF AllOf, Goes, Alike, Same, Settled
  <2>3. ~call[c].old => Whose(c) = a /\ call[c].by \in {a, None} \cup left
    BY <2>1 DEF AllOf, Whose, Sound, CallFits
  <2>4. user' \in {a, None} \cup left
    BY <1>15, <2>3, DoneEffect DEF AllOf
  <2>5. cache' \subseteq {a} \cup left
    BY <1>15, <2>3, DoneEffect DEF AllOf
  <2>6. QED
    BY <2>1, <2>2, <2>4, <2>5 DEF AllOf
<1>16. ASSUME NEW p \in Pairs, AccessExpires(p) \/ RefreshExpires(p) PROVE AllOf(a)'
  BY <1>0, <1>16 DEF AllOf, AccessExpires, RefreshExpires
<1>17. QED
  BY <1>1, <1>2, <1>3, <1>4, <1>5, <1>6, <1>7, <1>8, <1>9, <1>10, <1>11, <1>12, <1>13, <1>14,
     <1>15, <1>16
     DEF Next, SigningIn, SigningOut, Refreshing, SubmitLogin, SubmitRegistration

(* A pair just issued is a pair.                                           *)
LEMMA NewPair == ASSUME MobileAssumption, Sound, NEW a, Issue(a) PROVE issued + 1 # None
<1>1. issued + 1 \in Pairs
  BY DEF MobileAssumption, Sound, TypeOK, Issue, Pairs
<1>2. QED
  BY <1>1 DEF MobileAssumption

(* A call on its way to sign out, of this session and not by a closure.    *)
Dismissed(c) == call[c].phase = "clearing" /\ ~call[c].old /\ call[c].kind # "delete"

(* Only bad tokens are on their way to be destroyed.                       *)
LEMMA SigningOutStep ==
    ASSUME MobileAssumption, Sound, StoreFits, SigningOutFits, Next, ~crossed'
    PROVE  SigningOutFits'
<1> USE DEF server, memory, exchanges, history, Starting, SignedIn, SignedOut
<1>0. /\ call \in [Calls -> CallState] /\ \A c \in Calls : call[c] \in CallState
      /\ refresh \in RefreshState
      /\ StageFits /\ PairsIssued /\ RefreshFits /\ RefreshOfStore /\ SigningOutFits
      /\ None \notin live
  BY DEF Sound, TypeOK, MobileAssumption
<1>1. ASSUME UNCHANGED <<refresh, store>>, live' \subseteq live,
             \A c \in Calls : Dismissed(c)' => Dismissed(c)
      PROVE  SigningOutFits'
  BY <1>0, <1>1 DEF SigningOutFits, Dismissed
<1>2. ASSUME refresh'.phase # "answered", \A c \in Calls : ~Dismissed(c)'
      PROVE  SigningOutFits'
  BY <1>2 DEF SigningOutFits, Dismissed
<1>3. CASE Hydrate \/ ShowCachedProfile \/ Persist
  BY <1>1, <1>3 DEF Hydrate, ShowCachedProfile, Persist, Dismissed
<1>4. CASE Kill
  BY <1>2, <1>4 DEF Kill, Dismissed, Settled, NoRefresh
<1>5. ASSUME NEW a \in Accounts, Enter(a) PROVE SigningOutFits'
  <2>1. \A c \in Calls : ~Dismissed(c)'
    BY <1>0, <1>5 DEF Enter, StageFits, Dismissed
  <2>2. /\ live' = live \cup {issued + 1} /\ store' = store /\ refresh' = refresh
        /\ issued + 1 \notin Issued /\ issued + 1 # None
    BY <1>5, IssueStep, NewPair DEF Enter
  <2>3. QED
    BY <1>0, <2>1, <2>2 DEF SigningOutFits, Dismissed, PairsIssued, Holds
<1>6. CASE LoginFails \/ FinishLogin
  BY <1>1, <1>6 DEF LoginFails, FinishLogin, Dismissed
<1>7. CASE StoreLogin
  <2>1. \A c \in Calls : ~Dismissed(c)'
    BY <1>0, <1>7 DEF StoreLogin, StageFits, Dismissed
  <2>2. refresh'.phase = "answered" => refresh'.old
    BY <1>0, <1>7 DEF StoreLogin, Overtaken, RefreshState
  <2>3. QED
    BY <2>1, <2>2 DEF SigningOutFits, Dismissed
<1>8. CASE TapLogout
  BY <1>1, <1>8 DEF TapLogout, Dismissed
<1>9. CASE ClearTokens \/ \E c \in Calls : ForcedClear(c)
  <2>1. refresh'.phase = "answered" => refresh'.old
    BY <1>0, <1>9 DEF ClearTokens, ForcedClear, RemoveTokens, Overtaken, RefreshState
  <2>2. store' = None /\ live' = live
    BY <1>9 DEF ClearTokens, ForcedClear, RemoveTokens
  <2>3. QED
    BY <1>0, <2>1, <2>2 DEF SigningOutFits
<1>10. CASE FinishLogout \/ \E c \in Calls : FinishForced(c)
  <2>1. \A d \in Calls : call'[d].old \/ call'[d].phase = "idle"
    BY <1>0, <1>10, StageStep DEF FinishLogout, FinishForced, Close, StageFits
  <2>2. UNCHANGED <<refresh, store, live>>
    BY <1>10 DEF FinishLogout, FinishForced
  <2>3. QED
    BY <1>1, <2>1, <2>2 DEF Dismissed
<1>11. CASE RefreshRead
  <2>1. /\ refresh'.outcome # "renewed" /\ (refresh'.phase = "answered" => store = None)
        /\ UNCHANGED <<store, live, call>>
    BY <1>0, <1>11 DEF RefreshRead, RefreshState, RefreshFits, NoRefresh
  <2>2. QED
    BY <1>0, <2>1 DEF SigningOutFits
<1>12. CASE ServerRotates
  <2>1. refresh'.outcome = "renewed" /\ (refresh'.old <=> refresh.old) /\ refresh'.phase = "answered"
    BY <1>0, <1>12 DEF ServerRotates, RefreshState
  <2>2. /\ live' \subseteq live \cup {issued + 1} /\ UNCHANGED <<store, call>>
        /\ issued + 1 \notin Issued /\ issued + 1 # None
    <3>1. owner[refresh.pair] \in Accounts
      BY <1>0, <1>12 DEF ServerRotates, PairsIssued
    <3>2. Issue(owner[refresh.pair])
      BY <1>12 DEF ServerRotates
    <3>3. issued + 1 \notin Issued /\ issued + 1 # None
      BY <3>1, <3>2, IssueStep, NewPair
    <3>4. QED
      BY <1>12, <3>3 DEF ServerRotates
  <2>3. ~refresh.old => refresh.pair = store /\ store \in live
    BY <1>0, <1>12 DEF ServerRotates, RefreshOfStore
  <2>4. store \notin live' \/ store \in live
    BY <1>0, <2>2 DEF PairsIssued, Holds
  <2>5. QED
    BY <1>0, <2>1, <2>2, <2>3, <2>4 DEF SigningOutFits
<1>13. CASE ServerRefuses
  <2>1. refresh'.outcome = "rejected" /\ (refresh'.old <=> refresh.old)
        /\ UNCHANGED <<live, store, call>>
    BY <1>0, <1>13 DEF ServerRefuses, RefreshState
  <2>2. ~refresh.old => store \notin live
    BY <1>0, <1>13 DEF ServerRefuses, RefreshOfStore
  <2>3. QED
    BY <1>0, <2>1, <2>2 DEF SigningOutFits
<1>14. CASE RefreshLost
  <2>1. refresh'.outcome = "unavailable" /\ UNCHANGED <<live, store, call>>
    BY <1>0, <1>14 DEF RefreshLost, Outage, RefreshState
  <2>2. QED
    BY <1>0, <2>1 DEF SigningOutFits
<1>15. CASE RefreshDone
  <2>1. refresh'.phase # "answered" /\ live' = live
    BY <1>15 DEF RefreshDone, NoRefresh
  <2>2. ~refresh.old \/ refresh.outcome = "unavailable"
    BY <1>15 DEF RefreshDone
  <2>3. ASSUME NEW d \in Calls, Dismissed(d)' PROVE store' \notin live
    <3>1. ResumeTo(call[d], call'[d])
      BY <1>15, Resumed DEF RefreshDone
    <3>2. Dismissed(d) \/ refresh.outcome = "rejected"
      <4>1. refresh.outcome \in {"renewed", "rejected", "unavailable"}
        BY <1>0, <1>15 DEF RefreshDone, RefreshState, RefreshFits
      <4>2. call'[d].phase = "clearing"
        BY <2>3 DEF Dismissed
      <4>3. CASE call[d].phase \in {"waitSend", "waitReplay"}
        BY <3>1, <4>1, <4>2, <4>3 DEF ResumeTo, Settled
      <4>4. CASE call[d].phase \notin {"waitSend", "waitReplay"}
        BY <2>3, <3>1, <4>4 DEF ResumeTo, Dismissed
      <4>5. QED
        BY <4>3, <4>4
    <3>3. CASE Dismissed(d)
      BY <1>0, <1>15, <2>2, <3>3 DEF RefreshDone, SigningOutFits, Dismissed
    <3>4. CASE refresh.outcome = "rejected"
      BY <1>0, <1>15, <2>2, <3>4 DEF RefreshDone, SigningOutFits
    <3>5. QED
      BY <3>2, <3>3, <3>4
  <2>4. QED
    BY <2>1, <2>3 DEF SigningOutFits, Dismissed
<1>16. ASSUME NEW c \in Calls, Asks(c) \/ Travels(c) \/ Done(c) PROVE SigningOutFits'
  <2>1. Goes(call[c], call'[c]) /\ \A d \in Calls : d # c => call'[d] = call[d]
    BY <1>16, AskEffect, TravelEffect, DoneEffect
  <2>2. \A d \in Calls : Dismissed(d)' => Dismissed(d)
    BY <2>1 DEF Goes, Alike, Same, Dismissed, Settled
  <2>3. store' = store /\ live' \subseteq live /\ refresh' \in {refresh, Schedule}
    BY <1>16, AskEffect, TravelEffect, DoneEffect
  <2>4. CASE refresh' = refresh
    BY <1>1, <2>2, <2>3, <2>4
  <2>5. CASE refresh' # refresh
    <3>1. refresh'.phase = "reading"
      BY <2>3, <2>5 DEF Schedule, NoRefresh
    <3>2. QED
      BY <1>0, <2>2, <2>3, <3>1 DEF SigningOutFits, Dismissed
  <2>6. QED
    BY <2>4, <2>5
<1>17. ASSUME NEW p \in Pairs, AccessExpires(p) \/ RefreshExpires(p) PROVE SigningOutFits'
  BY <1>1, <1>17 DEF AccessExpires, RefreshExpires, Dismissed
<1>18. QED
  BY <1>3, <1>4, <1>5, <1>6, <1>7, <1>8, <1>9, <1>10, <1>11, <1>12, <1>13, <1>14, <1>15, <1>16,
     <1>17
     DEF Next, SigningIn, SigningOut, Refreshing, SubmitLogin, SubmitRegistration

(* Every step keeps the invariant.                                         *)
LEMMA Invariance == MobileAssumption /\ IInv /\ [Next]_vars => IInv'
<1> SUFFICES ASSUME MobileAssumption, IInv, [Next]_vars PROVE IInv'
  OBVIOUS
<1>1. Sound'
  BY SoundStep DEF IInv
<1>2. ASSUME ~crossed' PROVE OneSession'
  <2>1. CASE Next
    <3>1. OneSession
      BY <1>2, <2>1, CrossedStays DEF IInv
    <3>2. StoreFits' /\ SigningOutFits'
      BY <1>2, <2>1, <3>1, StoreStep, SigningOutStep DEF IInv, OneSession
    <3>3. \E b \in Accounts \cup {None} : AllOf(b)'
      BY <1>2, <2>1, <3>1, AllOfStep DEF IInv, OneSession
    <3>4. QED
      BY <3>2, <3>3 DEF OneSession
  <2>2. CASE UNCHANGED vars
    BY <1>2, <2>2
       DEF vars, server, memory, exchanges, history, IInv, OneSession, AllOf, StoreFits,
           SigningOutFits,
           Closing, Starting, SignedIn, SignedOut
  <2>3. QED
    BY <2>1, <2>2
<1>3. QED
  BY <1>1, <1>2 DEF IInv

(* The invariant holds throughout.                                         *)
THEOREM Inductive == Spec => []IInv
<1>1. Init => IInv
  BY TypeInit, MobileAssumption
<1>2. IInv /\ [Next]_vars => IInv'
  BY Invariance, MobileAssumption
<1>3. QED
  BY <1>1, <1>2, PTL DEF Spec

-----------------------------------------------------------------------------
(* Every state of the telephone is well typed.                             *)
THEOREM PhoneTypes == Spec => []TypeOK
<1>1. IInv => TypeOK
  BY DEF IInv, Sound
<1>2. QED
  BY <1>1, Inductive, PTL

(* No call is run twice by the server, however often it is refused, replayed *)
(* after a refresh others share, or lost (client.ts).                      *)
THEOREM NoneRunsTwice == Spec => []AtMostOnce
<1>1. IInv => AtMostOnce
  BY DEF IInv, Sound, CallFits, AtMostOnce
<1>2. QED
  BY <1>1, Inductive, PTL

(* Tokens, profile, cache and its copy on disk are one account's, and a    *)
(* signed-out phone keeps nothing, unless something asked for in an earlier *)
(* session has acted on a later one; what a logout that a kill has cut     *)
(* between the tokens and the purge leaves behind is the exception (left), *)
(* and everything else is of one account even then.                        *)
THEOREM OneAtATime == Spec => []OneAccount
<1>1. ASSUME IInv PROVE OneAccount
  <2>1. SUFFICES ASSUME ~crossed PROVE OneAccount
    BY DEF OneAccount
  <2>2. PICK a \in Accounts \cup {None} : AllOf(a)
    BY <1>1, <2>1 DEF IInv, OneSession
  <2>3. StoreFits
    BY <1>1, <2>1 DEF IInv, OneSession
  <2>4. QED
    BY <2>2, <2>3 DEF AllOf, StoreFits, SignedOut, Shown, OneAccount
<1>2. QED
  BY <1>1, Inductive, PTL

(* An interceptor that signs the person out destroys tokens the server     *)
(* would refuse: an outage does not sign anybody out.                      *)
THEOREM OnlyTheRefused == Spec => SignsOutOnlyTheRefused
<1>1. IInv /\ [Next]_vars =>
        [\A c \in Calls :
           ForcedClear(c) /\ ~crossed' /\ call[c].kind # "delete" => store \notin live]_vars
  <2>1. ASSUME IInv, NEW c \in Calls, ForcedClear(c), ~crossed', call[c].kind # "delete"
        PROVE  store \notin live
    BY <2>1 DEF IInv, Sound, TypeOK, ForcedClear, OneSession, SigningOutFits
  <2>2. QED
    BY <2>1
<1>2. QED
  BY <1>1, Inductive, PTL DEF Spec, SignsOutOnlyTheRefused
=============================================================================
