--------------------------- MODULE WebSessionProofs ---------------------------
(***************************************************************************)
(* Theorems about WebSession for any number of accounts, tabs, calls in    *)
(* flight and token pairs.                                                 *)
(***************************************************************************)
EXTENDS WebSession, TLAPS

-----------------------------------------------------------------------------
(* The inductive invariant, part by part.                                  *)

(* The pairs issued so far have an owner, and nobody holds another one.    *)
Issued == 1 .. issued

PairsIssued ==
    /\ \A p \in Issued : owner[p] \in Accounts
    /\ live \subseteq Issued /\ fresh \subseteq Issued /\ spent \subseteq Issued
    /\ store \in Issued \cup {None}
    /\ \A c \in Calls : call[c].pair \in Issued \cup {None}

Refreshing(r) == r.phase \in {"refreshing", "renewed", "refused"}
(* Whoever brings a new pair to the browser.                               *)
Brings(r) ==
    r.phase = "renewed" \/ (r.phase = "answered" /\ r.kind \in Entering \cup {"role"})

(* What a call has when it is in a phase.  Only a call that was refused, or *)
(* not sent yet, is still to be executed.                                  *)
CallFits(r) ==
    /\ r.phase = "idle" => r = Settled
    /\ r.phase # "idle" => r.tab \in Tabs /\ r.kind \in Kinds
    /\ r.runs <= 1
    /\ r.runs = 0 \/ r.phase \in {"idle", "answered"}
    /\ r.phase \in {"denied", "refreshing", "renewed", "refused"} => r.kind \notin Entering
    /\ r.phase \in {"sent", "answered"} /\ r.kind \in Entering => r.as \in Accounts
    /\ r.phase = "answered" => r.as \in Accounts /\ (r.kind \notin Entering => r.pair # None)
    /\ r.phase \in {"refreshing", "renewed"} \/ Brings(r) => r.pair # None
    /\ r.phase = "answered" /\ r.pair # None => owner[r.pair] = r.as

(* A page is open in the tab of a call, and knows that it refreshes.       *)
TabFits(c) ==
    call[c].phase # "idle" => /\ tab[call[c].tab].page # "off"
                              /\ Refreshing(call[c]) => tab[call[c].tab].refreshing

(* Two refreshes at once are in two tabs, and both have raced.             *)
RaceFits(c, d) ==
    c # d /\ Refreshing(call[c]) /\ Refreshing(call[d]) =>
        call[c].tab # call[d].tab /\ call[c].raced

(* A pair on its way to the browser is nobody else's.                      *)
NewFits(c) ==
    Brings(call[c]) => /\ store # call[c].pair /\ call[c].pair \notin spent
                       /\ \A d \in Calls : d # c => call[d].pair # call[c].pair

Sound ==
    /\ TypeOK
    /\ PairsIssued
    /\ \A c \in Calls : CallFits(call[c])
    /\ \A c \in Calls : TabFits(c)
    /\ \A c, d \in Calls : RaceFits(c, d)
    /\ \A c \in Calls : NewFits(c)

(* Everything shown, stored and asked for in this session is of one        *)
(* account.                                                                *)
AllOf(a) ==
    /\ store # None => owner[store] = a
    /\ saved \in {a, None}
    /\ \A t \in Tabs : tab[t].user \in {a, None}
    /\ \A c \in Calls : ~call[c].old /\ call[c].pair # None /\ call[c].kind \notin Entering
                            => owner[call[c].pair] = a

(* A call of this session has what it was asked for with.                  *)
AskedFits(c) ==
    call[c].phase # "idle" /\ ~call[c].old =>
        /\ call[c].kind = "poll" => tab[call[c].tab].user # None
        /\ call[c].kind = "hydrate" => store # None
        /\ call[c].phase \in {"refreshing", "renewed"} => store # None

(* The server has exchanged the token in the store only if a refresh knows *)
(* of it, and the one of a refresh only if two have raced.                 *)
SpentFits ==
    /\ store \in spent => \E d \in Calls : call[d].phase \in {"renewed", "refused"}
    /\ \A c \in Calls : call[c].phase = "refreshing" /\ ~call[c].raced => call[c].pair \notin spent

OneSession ==
    /\ store = None <=> saved = None
    /\ \A t \in Tabs : tab[t].feed \subseteq {tab[t].user} \ {None}
    /\ \E a \in Accounts \cup {None} : AllOf(a)
    /\ \A c \in Calls : AskedFits(c)
    /\ SpentFits

IInv == Sound /\ (~crossed => OneSession)

-----------------------------------------------------------------------------
(* What each action does to the calls and to the tabs, field by field.     *)

Is(r, ph, k, t, a, q, x, o, n) ==
    /\ r \in CallState
    /\ r.phase = ph /\ r.kind = k /\ r.tab = t /\ r.as = a
    /\ r.pair = q /\ r.raced = x /\ r.old = o /\ r.runs = n

Shows(s, page, user, feed, refreshing) ==
    /\ s \in TabState
    /\ s.page = page /\ s.user = user /\ s.feed = feed /\ s.refreshing = refreshing

(* Another call is as it was, another tab is as it was.                    *)
Others(c) == \A d \in Calls : d # c => call'[d] = call[d]
OtherTabs(t) == \A u \in Tabs : u # t => tab'[u] = tab[u]

LEMMA SettledIs == Is(Settled, "idle", "none", None, None, None, FALSE, FALSE, 0)
BY DEF Settled, Is, CallState

LEMMA ClosedIs == Shows(Closed, "off", None, {}, FALSE)
BY DEF Closed, Shows, TabState

LEMMA CallIs ==
    ASSUME NEW r \in CallState
    PROVE  Is(r, r.phase, r.kind, r.tab, r.as, r.pair, r.raced, r.old, r.runs)
BY DEF Is

LEMMA TabIs ==
    ASSUME NEW s \in TabState
    PROVE  Shows(s, s.page, s.user, s.feed, s.refreshing)
BY DEF Shows

LEMMA SetIs ==
    ASSUME TypeOK, NEW c \in Calls, NEW r \in CallState, Set(c, r)
    PROVE  call' \in [Calls -> CallState] /\ call'[c] = r /\ Others(c)
BY DEF TypeOK, Set, Others

LEMMA SentIs ==
    ASSUME NEW t \in Tabs, NEW k \in Kinds, NEW a \in Accounts \cup {None},
           store \in Pairs \cup {None}
    PROVE  Is(Sent(t, k, a), "sent", k, t, a, IF k \in Entering THEN None ELSE store,
              FALSE, FALSE, 0)
<1>1. ASSUME NEW r \in CallState, NEW q \in Pairs \cup {None}
      PROVE  Is([r EXCEPT !.phase = "sent", !.kind = k, !.tab = t, !.as = a, !.pair = q],
                "sent", k, t, a, q, r.raced, r.old, r.runs)
  BY DEF Is, CallState
<1>2. PICK q \in Pairs \cup {None} : q = IF k \in Entering THEN None ELSE store
  OBVIOUS
<1>3. Settled \in CallState /\ Settled.raced = FALSE /\ Settled.old = FALSE /\ Settled.runs = 0
  BY SettledIs DEF Is
<1>4. Sent(t, k, a) = [Settled EXCEPT !.phase = "sent", !.kind = k, !.tab = t, !.as = a, !.pair = q]
  BY <1>2 DEF Sent
<1>5. Is(Sent(t, k, a), "sent", k, t, a, q, FALSE, FALSE, 0)
  BY <1>1, <1>3, <1>4
<1>6. QED
  BY <1>2, <1>5

LEMMA EditIs ==
    ASSUME NEW r \in CallState
    PROVE  /\ \A ph \in {"denied", "refused"} :
                 Is([r EXCEPT !.phase = ph],
                    ph, r.kind, r.tab, r.as, r.pair, r.raced, r.old, r.runs)
           /\ Is([r EXCEPT !.old = TRUE],
                 r.phase, r.kind, r.tab, r.as, r.pair, r.raced, TRUE, r.runs)
           /\ Is([r EXCEPT !.raced = TRUE],
                 r.phase, r.kind, r.tab, r.as, r.pair, TRUE, r.old, r.runs)
           /\ Is([r EXCEPT !.phase = "sent", !.raced = FALSE],
                 "sent", r.kind, r.tab, r.as, r.pair, FALSE, r.old, r.runs)
           /\ \A q \in Pairs :
                 Is([r EXCEPT !.phase = "renewed", !.pair = q],
                    "renewed", r.kind, r.tab, r.as, q, r.raced, r.old, r.runs)
           /\ \A q \in Pairs \cup {None}, x \in BOOLEAN :
                 Is([r EXCEPT !.phase = "refreshing", !.retried = TRUE, !.pair = q, !.raced = x],
                    "refreshing", r.kind, r.tab, r.as, q, x, r.old, r.runs)
<1>1. /\ \A ph \in {"denied", "refused"} :
            Is([r EXCEPT !.phase = ph],
               ph, r.kind, r.tab, r.as, r.pair, r.raced, r.old, r.runs)
      /\ Is([r EXCEPT !.old = TRUE],
            r.phase, r.kind, r.tab, r.as, r.pair, r.raced, TRUE, r.runs)
      /\ Is([r EXCEPT !.raced = TRUE],
            r.phase, r.kind, r.tab, r.as, r.pair, TRUE, r.old, r.runs)
      /\ Is([r EXCEPT !.phase = "sent", !.raced = FALSE],
            "sent", r.kind, r.tab, r.as, r.pair, FALSE, r.old, r.runs)
  BY DEF Is, CallState
<1>2. ASSUME NEW q \in Pairs
      PROVE  Is([r EXCEPT !.phase = "renewed", !.pair = q],
                "renewed", r.kind, r.tab, r.as, q, r.raced, r.old, r.runs)
  BY DEF Is, CallState
<1>3. ASSUME NEW q \in Pairs \cup {None}, NEW x \in BOOLEAN
      PROVE  Is([r EXCEPT !.phase = "refreshing", !.retried = TRUE, !.pair = q, !.raced = x],
                "refreshing", r.kind, r.tab, r.as, q, x, r.old, r.runs)
  BY DEF Is, CallState
<1>4. QED
  BY <1>1, <1>2, <1>3

LEMMA ExecutedIs ==
    ASSUME NEW c \in Calls, call[c] \in CallState
    PROVE  /\ \A a \in Accounts \cup {None} :
                 Is([Executed(c) EXCEPT !.as = a], "answered", call[c].kind, call[c].tab, a,
                    call[c].pair, call[c].raced, call[c].old, call[c].runs + 1)
           /\ \A a \in Accounts \cup {None}, q \in Pairs :
                 Is([Executed(c) EXCEPT !.as = a, !.pair = q], "answered", call[c].kind,
                    call[c].tab, a, q, call[c].raced, call[c].old, call[c].runs + 1)
<1>1. call[c].runs + 1 \in Nat
  BY DEF CallState
<1>2. PICK n \in Nat : n = call[c].runs + 1
  BY <1>1
<1>3. Is(Executed(c), "answered", call[c].kind, call[c].tab, call[c].as, call[c].pair,
         call[c].raced, call[c].old, n)
  BY <1>2 DEF Executed, Is, CallState
<1>4. ASSUME NEW a \in Accounts \cup {None}
      PROVE  Is([Executed(c) EXCEPT !.as = a], "answered", call[c].kind, call[c].tab, a,
                call[c].pair, call[c].raced, call[c].old, n)
  BY <1>3 DEF Is, CallState
<1>5. ASSUME NEW a \in Accounts \cup {None}, NEW q \in Pairs
      PROVE  Is([Executed(c) EXCEPT !.as = a, !.pair = q], "answered", call[c].kind,
                call[c].tab, a, q, call[c].raced, call[c].old, n)
  BY <1>3 DEF Is, CallState
<1>6. QED
  BY <1>2, <1>4, <1>5

(* The end of a session marks the calls in flight.                         *)
LEMMA OldIs ==
    ASSUME NEW C \in [Calls -> CallState], NEW d \in Calls
    PROVE  \/ C[d].phase = "idle" /\ Old(C)[d] = C[d]
           \/ /\ C[d].phase # "idle"
              /\ Is(Old(C)[d], C[d].phase, C[d].kind, C[d].tab, C[d].as, C[d].pair,
                    C[d].raced, TRUE, C[d].runs)
BY EditIs DEF Old

LEMMA TabEditIs ==
    ASSUME NEW s \in TabState
    PROVE  /\ \A p \in {"off", "out", "role", "checking", "app"} :
                 Shows([s EXCEPT !.page = p], p, s.user, s.feed, s.refreshing)
           /\ \A x \in BOOLEAN : Shows([s EXCEPT !.refreshing = x], s.page, s.user, s.feed, x)
           /\ \A a \in Accounts : Shows([s EXCEPT !.feed = {a}], s.page, s.user, {a}, s.refreshing)
           /\ Shows([s EXCEPT !.user = None, !.feed = {}], s.page, None, {}, s.refreshing)
           /\ Shows([s EXCEPT !.user = None, !.feed = {}, !.page = "out"],
                    "out", None, {}, s.refreshing)
           /\ Shows([s EXCEPT !.user = None, !.feed = {}, !.refreshing = FALSE],
                    s.page, None, {}, FALSE)
           /\ \A a \in Accounts, p \in {"role", "checking"} :
                 Shows([s EXCEPT !.user = a, !.page = p], p, a, s.feed, s.refreshing)
BY DEF Shows, TabState

-----------------------------------------------------------------------------
(* What keeps the part of the invariant that always holds.                 *)

(* Pages stay open and keep their refreshes.                               *)
TabsFit ==
    /\ tab' \in [Tabs -> TabState]
    /\ \A u \in Tabs : tab[u].page # "off" =>
          tab'[u].page # "off" /\ tab'[u].refreshing = tab[u].refreshing

(* A call goes on as it was, but for its session, or is gone.              *)
Left(r, s) ==
    \/ s = Settled
    \/ /\ r.phase # "idle"
       /\ \E o \in BOOLEAN : Is(s, r.phase, r.kind, r.tab, r.as, r.pair, r.raced, o, r.runs)

(* A pair that has an owner keeps it.                                      *)
OwnersStay ==
    /\ issued' \in 0 .. MaxPairs /\ owner' \in [Pairs -> Accounts \cup {None}]
    /\ issued <= issued'
    /\ \A p \in Issued : owner'[p] = owner[p]
    /\ \A p \in Issued' : owner'[p] \in Accounts

LEMMA FitsStays ==
    ASSUME Sound, OwnersStay, NEW d \in Calls, call'[d] = call[d]
    PROVE  CallFits(call[d])'
<1>1. CallFits(call[d]) /\ call[d].pair \in Issued \cup {None}
  BY DEF Sound, PairsIssued
<1>2. None \notin Issued /\ Issued \subseteq Pairs
  BY WebAssumption DEF Sound, TypeOK, Issued, Pairs
<1>3. \A p \in Issued : owner'[p] = owner[p]
  BY DEF OwnersStay
<1>4. QED
  BY <1>1, <1>2, <1>3 DEF CallFits, Brings

LEMMA IssueStays ==
    ASSUME Sound, NEW a \in Accounts, Issue(a)
    PROVE  /\ OwnersStay /\ issued' = issued + 1 /\ issued + 1 \in Pairs
           /\ owner'[issued + 1] = a /\ fresh' = fresh \cup {issued + 1}
           /\ issued + 1 \notin Issued /\ Issued' = Issued \cup {issued + 1}
BY WebAssumption DEF Sound, TypeOK, PairsIssued, OwnersStay, Issue, Issued, Pairs

LEMMA SameServer ==
    ASSUME Sound, UNCHANGED <<issued, owner>>
    PROVE  OwnersStay /\ Issued' = Issued
BY WebAssumption DEF Sound, TypeOK, PairsIssued, OwnersStay, Issued

(* Only the pages change.                                                  *)
LEMMA TabsKeep ==
    ASSUME Sound, TabsFit, UNCHANGED <<server, storage, call, crossed>>
    PROVE  Sound'
<1>1. TypeOK'
  BY DEF Sound, TypeOK, TabsFit, server, storage
<1>2. PairsIssued' /\ \A c \in Calls : CallFits(call[c])' /\ NewFits(c)'
  BY DEF Sound, PairsIssued, Issued, CallFits, NewFits, Brings, server, storage
<1>3. \A c \in Calls : TabFits(c)'
  BY DEF Sound, TypeOK, CallFits, TabFits, TabsFit, Refreshing
<1>4. \A c, d \in Calls : RaceFits(c, d)'
  BY DEF Sound, RaceFits, Refreshing
<1>5. QED
  BY <1>1, <1>2, <1>3, <1>4 DEF Sound

(* A page sends a call.                                                    *)
LEMMA SendKeeps ==
    ASSUME Sound, NEW t \in Tabs, NEW c \in Calls, NEW k \in Kinds,
           NEW a \in Accounts \cup {None}, k \in Entering => a \in Accounts,
           call[c] = Settled, Set(c, Sent(t, k, a)),
           TabsFit, tab'[t].page # "off", UNCHANGED <<server, storage, crossed>>
    PROVE  /\ Sound'
           /\ Others(c)
           /\ Is(call'[c], "sent", k, t, a, IF k \in Entering THEN None ELSE store,
                 FALSE, FALSE, 0)
<1> DEFINE q == IF k \in Entering THEN None ELSE store
<1>0. TypeOK /\ store \in Issued \cup {None} /\ store \in Pairs \cup {None}
  BY DEF Sound, TypeOK, PairsIssued
<1>1. Is(Sent(t, k, a), "sent", k, t, a, q, FALSE, FALSE, 0)
  BY <1>0, SentIs
<1>2. Sent(t, k, a) \in CallState
  BY <1>1 DEF Is
<1>3. call' \in [Calls -> CallState] /\ call'[c] = Sent(t, k, a) /\ Others(c)
  BY <1>0, <1>2, SetIs
<1>4. Is(call'[c], "sent", k, t, a, q, FALSE, FALSE, 0) /\ q \in Issued \cup {None}
  BY <1>0, <1>1, <1>3
<1> HIDE DEF q
<1>5. UNCHANGED <<issued, owner, live, spent, fresh, open, store, saved>>
  BY DEF server, storage
<1>6. TypeOK'
  BY <1>0, <1>3, <1>5 DEF TypeOK, TabsFit
<1>7. PairsIssued'
  BY <1>3, <1>4, <1>5 DEF Sound, PairsIssued, Issued, Others, Is
<1>8. CallFits(call[c])'
  BY <1>4, <1>5 DEF CallFits, Is, Brings
<1>9. \A d \in Calls : CallFits(call[d])'
  BY <1>3, <1>5, <1>8, FitsStays, SameServer DEF Others
<1>10. \A d \in Calls : TabFits(d)'
  BY <1>3, <1>4 DEF Sound, TypeOK, CallFits, TabFits, TabsFit, Refreshing, Others, Is
<1>11. \A d, e \in Calls : RaceFits(d, e)'
  BY <1>3, <1>4 DEF Sound, RaceFits, Refreshing, Others, Is
<1>12. \A d \in Calls : NewFits(d)'
  <2>1. q # None => q = store
    BY DEF q
  <2>2. ~Brings(call'[c])
    BY <1>4 DEF Brings, Is
  <2>3. \A d \in Calls : Brings(call[d]) => call[d].pair # None
    BY DEF Sound, CallFits
  <2>4. QED
    BY <1>3, <1>4, <1>5, <2>1, <2>2, <2>3 DEF Sound, NewFits, Brings, Others, Is
<1>13. QED
  BY <1>3, <1>4, <1>6, <1>7, <1>9, <1>10, <1>11, <1>12 DEF Sound, q

(* One call goes on.  It has the pair it had, a new one or none.           *)
LEMMA EditKeeps ==
    ASSUME Sound, OwnersStay, TypeOK', NEW c \in Calls,
           call' \in [Calls -> CallState], Others(c), TabsFit, store' = store,
           fresh' \subseteq Issued', live' \subseteq Issued',
           spent' \subseteq spent \cup {call[c].pair},
           spent' = spent \/ call[c].phase = "refreshing",
           CallFits(call[c])',
           \/ call'[c].pair \in {call[c].pair, None} /\ (Brings(call'[c]) => Brings(call[c]))
           \/ call'[c].pair \in Issued' \ Issued,
           call'[c].phase # "idle" => call[c].phase # "idle" /\ call'[c].tab = call[c].tab,
           Refreshing(call'[c]) => Refreshing(call[c]) /\ call'[c].raced = call[c].raced
    PROVE  Sound'
<1>1. Issued \subseteq Issued' /\ None \notin Issued'
  BY WebAssumption DEF OwnersStay, Issued, Pairs, Sound, TypeOK
<1>2. /\ call[c].pair \in Issued \cup {None}
      /\ call[c].phase = "refreshing" => call[c].pair \in Issued
  BY DEF Sound, PairsIssued, CallFits
<1>3. PairsIssued'
  BY <1>1, <1>2 DEF Sound, PairsIssued, OwnersStay, Others
<1>4. \A d \in Calls : CallFits(call[d])'
  <2>1. ASSUME NEW d \in Calls, d # c PROVE CallFits(call[d])'
    BY <2>1, FitsStays DEF Others
  <2>2. QED
    BY <2>1
<1>5. \A d \in Calls : TabFits(d)'
  BY DEF Sound, TypeOK, CallFits, TabFits, TabsFit, Refreshing, Others
<1>6. \A d, e \in Calls : RaceFits(d, e)'
  BY DEF Sound, RaceFits, Refreshing, Others
<1>7. \A d \in Calls : NewFits(d)'
  <2>1. \A d \in Calls : Brings(call[d]) => call[d].pair \in Issued
    BY DEF Sound, CallFits, PairsIssued
  <2>2. \A d \in Calls : d # c => NewFits(d)'
    BY <1>1, <1>2, <2>1 DEF Sound, NewFits, Others, PairsIssued, Brings
  <2>3. NewFits(c)'
    <3>1. CASE call'[c].pair \in Issued' \ Issued
      BY <1>1, <1>2, <3>1 DEF Sound, NewFits, Others, PairsIssued
    <3>2. CASE /\ call'[c].pair \in {call[c].pair, None}
               /\ Brings(call'[c]) => Brings(call[c])
      <4>1. Brings(call'[c]) => call'[c].pair # None
        BY DEF CallFits, Brings
      <4>2. Brings(call[c]) => call[c].phase # "refreshing"
        BY DEF Brings
      <4>3. QED
        BY <3>2, <4>1, <4>2 DEF Sound, NewFits, Others, Brings
    <3>3. QED
      BY <3>1, <3>2
  <2>4. QED
    BY <2>2, <2>3
<1>8. QED
  BY <1>3, <1>4, <1>5, <1>6, <1>7 DEF Sound

(* Calls are left behind or dropped, and another pair may be stored.       *)
LEMMA LeaveKeeps ==
    ASSUME Sound, TypeOK', UNCHANGED server,
           \A d \in Calls : Left(call[d], call'[d]),
           \/ store' \in {store, None}
           \/ \E c \in Calls : Brings(call[c]) /\ store' = call[c].pair /\ call'[c] = Settled,
           \A d \in Calls : call'[d] # Settled =>
               LET t == call[d].tab IN
               tab[t].page # "off" =>
                  /\ tab'[t].page # "off"
                  /\ Refreshing(call[d]) /\ tab[t].refreshing => tab'[t].refreshing
    PROVE  Sound'
<1>0. UNCHANGED <<issued, owner, live, spent, fresh, open>> /\ Issued' = Issued
  BY DEF server, Issued
<1>1. \A d \in Calls : Brings(call[d]) => call[d].pair \in Issued
  BY DEF Sound, CallFits, PairsIssued
<1>2. ASSUME NEW d \in Calls
      PROVE  /\ call'[d].pair \in {call[d].pair, None}
             /\ call'[d].phase \in {call[d].phase, "idle"}
             /\ call'[d].kind = call[d].kind \/ call'[d].phase = "idle"
             /\ call'[d].phase # "idle" => /\ call'[d].tab = call[d].tab
                                           /\ call'[d].raced = call[d].raced
                                           /\ call'[d].pair = call[d].pair
                                           /\ call'[d] # Settled
  BY SettledIs DEF Left, Is
<1>3. PairsIssued'
  BY <1>0, <1>1, <1>2 DEF Sound, PairsIssued
<1>4. ASSUME NEW d \in Calls PROVE CallFits(call[d])'
  <2>1. CASE call'[d] = Settled
    BY <2>1, SettledIs DEF CallFits, Is, Brings
  <2>2. ASSUME NEW o \in BOOLEAN,
               Is(call'[d], call[d].phase, call[d].kind, call[d].tab, call[d].as,
                  call[d].pair, call[d].raced, o, call[d].runs),
               call[d].phase # "idle"
        PROVE  CallFits(call[d])'
    BY <1>0, <2>2 DEF Sound, CallFits, Is, Brings
  <2>3. QED
    BY <2>1, <2>2 DEF Left
<1>5. \A d \in Calls : TabFits(d)'
  BY <1>2 DEF Sound, TabFits, Refreshing
<1>6. \A d, e \in Calls : RaceFits(d, e)'
  BY <1>2 DEF Sound, RaceFits, Refreshing
<1>7. \A d \in Calls : NewFits(d)'
  <2>1. \A d \in Calls : Brings(call'[d]) => Brings(call[d]) /\ call'[d].pair = call[d].pair
    BY <1>2 DEF Brings
  <2>2. ~Brings(Settled) /\ None \notin Issued
    BY SettledIs, WebAssumption DEF Brings, Is, Issued, Pairs, Sound, TypeOK
  <2>3. QED
    BY <1>0, <1>1, <1>2, <2>1, <2>2 DEF Sound, NewFits
<1>8. QED
  BY <1>3, <1>4, <1>5, <1>6, <1>7 DEF Sound

-----------------------------------------------------------------------------
(* What each step does.                                                    *)

LEMMA TabSet ==
    ASSUME TypeOK, NEW t \in Tabs, NEW s \in TabState, tab' = [tab EXCEPT ![t] = s]
    PROVE  tab' \in [Tabs -> TabState] /\ tab'[t] = s /\ OtherTabs(t)
BY DEF TypeOK, OtherTabs

(* A tab only moves to another page.                                       *)
LEMMA PageKeeps ==
    ASSUME Sound, NEW t \in Tabs, NEW p \in {"out", "role", "checking", "app"},
           tab' = [tab EXCEPT ![t].page = p]
    PROVE  /\ TabsFit /\ OtherTabs(t)
           /\ Shows(tab'[t], p, tab[t].user, tab[t].feed, tab[t].refreshing)
<1>1. tab[t] \in TabState /\ TypeOK
  BY DEF Sound, TypeOK
<1>2. Shows([tab[t] EXCEPT !.page = p], p, tab[t].user, tab[t].feed, tab[t].refreshing)
  BY <1>1, TabEditIs
<1>3. tab' = [tab EXCEPT ![t] = [tab[t] EXCEPT !.page = p]]
  OBVIOUS
<1>4. tab' \in [Tabs -> TabState] /\ tab'[t] = [tab[t] EXCEPT !.page = p] /\ OtherTabs(t)
  BY <1>1, <1>2, <1>3, TabSet DEF Shows
<1>5. QED
  BY <1>2, <1>4 DEF TabsFit, OtherTabs, Shows

LEMMA OpenKeeps ==
    ASSUME Sound, NEW t \in Tabs, NEW p \in {"out", "checking"}, OpenTab(t, p)
    PROVE  /\ Sound' /\ OtherTabs(t) /\ Shows(tab'[t], p, saved, {}, FALSE)
           /\ \/ store = None /\ UNCHANGED call
              \/ store # None /\ \E c \in Calls :
                    /\ Others(c) /\ call[c] = Settled
                    /\ Is(call'[c], "sent", "hydrate", t, None, store, FALSE, FALSE, 0)
<1>0. TypeOK /\ saved \in Accounts \cup {None}
  BY DEF Sound, TypeOK
<1>1. Shows([Closed EXCEPT !.page = p, !.user = saved], p, saved, {}, FALSE)
  <2>1. ASSUME NEW s \in TabState
        PROVE  Shows([s EXCEPT !.page = p, !.user = saved], p, saved, s.feed, s.refreshing)
    BY <1>0 DEF Shows, TabState
  <2>2. QED
    BY <2>1, ClosedIs DEF Shows
<1>2. /\ tab' \in [Tabs -> TabState] /\ OtherTabs(t)
      /\ tab'[t] = [Closed EXCEPT !.page = p, !.user = saved]
  BY <1>0, <1>1, TabSet DEF OpenTab, Shows
<1>3. Shows(tab'[t], p, saved, {}, FALSE)
  BY <1>1, <1>2
<1>4. TabsFit
  BY <1>2, <1>3 DEF TabsFit, OtherTabs, Shows, OpenTab
<1>5. CASE store = None
  BY <1>2, <1>3, <1>4, <1>5, TabsKeep DEF OpenTab
<1>6. CASE store # None
  <2>1. PICK c \in Calls : call[c] = Settled /\ Set(c, Sent(t, "hydrate", None))
    BY <1>6 DEF OpenTab
  <2>2. tab'[t].page # "off" /\ "hydrate" \in Kinds \ Entering
    BY <1>3 DEF Shows, Kinds, Entering
  <2>3. QED
    BY <1>2, <1>3, <1>4, <1>6, <2>1, <2>2, SendKeeps DEF OpenTab
<1>7. QED
  BY <1>5, <1>6

LEMMA AskKeeps ==
    ASSUME Sound, NEW t \in Tabs, NEW c \in Calls, NEW k \in Kinds,
           NEW a \in Accounts \cup {None}, k \in Entering => a \in Accounts,
           tab[t].page # "off", Ask(t, c, k, a)
    PROVE  /\ Sound' /\ Others(c) /\ UNCHANGED <<server, storage, tab, crossed>>
           /\ Is(call'[c], "sent", k, t, a, IF k \in Entering THEN None ELSE store,
                 FALSE, FALSE, 0)
<1>1. TabsFit
  BY DEF Ask, TabsFit, Sound, TypeOK
<1>2. QED
  BY <1>1, SendKeeps DEF Ask

(* The server, or the network, answers.                                    *)
LEMMA EntersKeeps ==
    ASSUME Sound, NEW c \in Calls, ServerEnters(c)
    PROVE  /\ Sound' /\ Others(c) /\ OwnersStay
           /\ call[c].phase = "sent" /\ UNCHANGED <<storage, tab, spent, crossed>>
           /\ \E a \in Accounts :
                 /\ Is(call'[c], "answered", call[c].kind, call[c].tab, a, issued + 1,
                       call[c].raced, call[c].old, call[c].runs + 1)
                 /\ owner'[issued + 1] = a /\ issued + 1 \in Issued'
                 /\ call[c].kind = "role" => call[c].pair # None /\ a = owner[call[c].pair]
<1> DEFINE a == IF call[c].kind = "role" THEN owner[call[c].pair] ELSE call[c].as
<1>0. /\ TypeOK /\ PairsIssued /\ CallFits(call[c]) /\ call[c] \in CallState
      /\ call[c].phase = "sent" /\ call[c].kind \in Entering \cup {"role"}
      /\ call[c].kind = "role" => call[c].pair \in fresh
      /\ Issue(a) /\ live' = live \cup {issued + 1} /\ open' = open \cup {a}
      /\ Set(c, [Executed(c) EXCEPT !.as = a, !.pair = issued + 1])
      /\ UNCHANGED <<spent, storage, tab, crossed>>
  BY DEF Sound, TypeOK, ServerEnters, Entering
<1>1. a \in Accounts /\ (call[c].kind = "role" => call[c].pair # None)
  BY <1>0, WebAssumption DEF CallFits, PairsIssued, Issued, Pairs, TypeOK, Entering
<1> HIDE DEF a
<1>2. /\ OwnersStay /\ issued' = issued + 1 /\ issued + 1 \in Pairs
      /\ owner'[issued + 1] = a /\ fresh' = fresh \cup {issued + 1}
      /\ issued + 1 \notin Issued /\ Issued' = Issued \cup {issued + 1}
  BY <1>0, <1>1, IssueStays
<1>3. Is([Executed(c) EXCEPT !.as = a, !.pair = issued + 1], "answered", call[c].kind,
         call[c].tab, a, issued + 1, call[c].raced, call[c].old, call[c].runs + 1)
  BY <1>0, <1>1, <1>2, ExecutedIs
<1>4. /\ call' \in [Calls -> CallState] /\ Others(c)
      /\ Is(call'[c], "answered", call[c].kind, call[c].tab, a, issued + 1, call[c].raced,
            call[c].old, call[c].runs + 1)
  <2>1. [Executed(c) EXCEPT !.as = a, !.pair = issued + 1] \in CallState
    BY <1>3 DEF Is
  <2>2. QED
    BY <1>0, <1>3, <2>1, SetIs
<1>5. TypeOK' /\ TabsFit
  BY <1>0, <1>1, <1>2, <1>4 DEF TypeOK, TabsFit, OwnersStay, storage
<1>6. CallFits(call[c])'
  BY <1>0, <1>1, <1>2, <1>4, WebAssumption DEF CallFits, Is, Brings, Entering, Pairs
<1>7. live' \subseteq Issued' /\ fresh' \subseteq Issued' /\ store' = store
  BY <1>0, <1>2 DEF PairsIssued, storage
<1>8. Sound'
  BY <1>0, <1>2, <1>4, <1>5, <1>6, <1>7, EditKeeps DEF Is, Refreshing
<1>9. QED
  BY <1>0, <1>1, <1>2, <1>4, <1>8 DEF a

LEMMA ExecutesKeeps ==
    ASSUME Sound, NEW c \in Calls, ServerExecutes(c)
    PROVE  /\ Sound' /\ Others(c) /\ UNCHANGED <<server, storage, tab, crossed>>
           /\ call[c].phase = "sent" /\ call[c].kind \notin Entering \cup {"role"}
           /\ call[c].pair # None
           /\ Is(call'[c], "answered", call[c].kind, call[c].tab, owner[call[c].pair],
                 call[c].pair, call[c].raced, call[c].old, call[c].runs + 1)
<1>0. /\ TypeOK /\ PairsIssued /\ CallFits(call[c]) /\ call[c] \in CallState
      /\ call[c].phase = "sent" /\ call[c].kind \notin Entering \cup {"role"}
      /\ call[c].pair \in fresh
      /\ Set(c, [Executed(c) EXCEPT !.as = owner[call[c].pair]])
      /\ UNCHANGED <<server, storage, tab, crossed>>
  BY DEF Sound, TypeOK, ServerExecutes
<1>1. owner[call[c].pair] \in Accounts /\ call[c].pair # None
  BY <1>0, WebAssumption DEF PairsIssued, Issued, Pairs, TypeOK
<1>2. Is([Executed(c) EXCEPT !.as = owner[call[c].pair]], "answered", call[c].kind,
         call[c].tab, owner[call[c].pair], call[c].pair, call[c].raced, call[c].old,
         call[c].runs + 1)
  BY <1>0, <1>1, ExecutedIs
<1>3. /\ call' \in [Calls -> CallState] /\ Others(c)
      /\ Is(call'[c], "answered", call[c].kind, call[c].tab, owner[call[c].pair],
            call[c].pair, call[c].raced, call[c].old, call[c].runs + 1)
  <2>1. [Executed(c) EXCEPT !.as = owner[call[c].pair]] \in CallState
    BY <1>2 DEF Is
  <2>2. QED
    BY <1>0, <1>2, <2>1, SetIs
<1>4. TypeOK' /\ TabsFit /\ OwnersStay /\ Issued' = Issued /\ live' \subseteq Issued'
         /\ fresh' \subseteq Issued' /\ spent' = spent /\ store' = store /\ owner' = owner
  BY <1>0, <1>3, SameServer DEF TypeOK, TabsFit, server, storage, PairsIssued
<1>5. CallFits(call[c])'
  BY <1>0, <1>1, <1>3, <1>4 DEF CallFits, Is, Brings, Entering
<1>6. Sound'
  BY <1>0, <1>3, <1>4, <1>5, EditKeeps DEF Is, Refreshing, Brings
<1>7. QED
  BY <1>0, <1>1, <1>3, <1>6

(* A refusal changes the phase of a call only.                             *)
LEMMA RefusedKeeps ==
    ASSUME Sound, NEW c \in Calls, ServerDenies(c) \/ ServerRefuses(c) \/ RefreshLost(c)
    PROVE  /\ Sound' /\ Others(c) /\ UNCHANGED <<server, storage, tab, crossed>>
           /\ \E ph \in {"denied", "refused"} :
                 /\ Is(call'[c], ph, call[c].kind, call[c].tab, call[c].as,
                       call[c].pair, call[c].raced, call[c].old, call[c].runs)
                 /\ ph = "denied" => call[c].phase = "sent"
                 /\ ph = "refused" => call[c].phase \in {"refreshing", "renewed"}
<1>0. /\ TypeOK /\ PairsIssued /\ CallFits(call[c]) /\ call[c] \in CallState
      /\ UNCHANGED <<server, storage, tab, crossed>>
  BY DEF Sound, TypeOK, ServerDenies, ServerRefuses, RefreshLost
<1>1. PICK ph \in {"denied", "refused"} :
          /\ Set(c, [call[c] EXCEPT !.phase = ph])
          /\ ph = "denied" => call[c].phase = "sent" /\ call[c].kind \notin Entering
          /\ ph = "refused" => call[c].phase \in {"refreshing", "renewed"}
  BY DEF ServerDenies, ServerRefuses, RefreshLost
<1>2. Is([call[c] EXCEPT !.phase = ph], ph, call[c].kind, call[c].tab, call[c].as,
         call[c].pair, call[c].raced, call[c].old, call[c].runs)
  BY <1>0, EditIs
<1>3. /\ call' \in [Calls -> CallState] /\ Others(c)
      /\ Is(call'[c], ph, call[c].kind, call[c].tab, call[c].as, call[c].pair,
            call[c].raced, call[c].old, call[c].runs)
  <2>1. [call[c] EXCEPT !.phase = ph] \in CallState
    BY <1>2 DEF Is
  <2>2. QED
    BY <1>0, <1>1, <1>2, <2>1, SetIs
<1>4. TypeOK' /\ TabsFit /\ OwnersStay /\ Issued' = Issued /\ live' \subseteq Issued'
         /\ fresh' \subseteq Issued' /\ spent' = spent /\ store' = store
  BY <1>0, <1>3, SameServer DEF TypeOK, TabsFit, server, storage, PairsIssued
<1>5. CallFits(call[c])'
  BY <1>0, <1>1, <1>3 DEF CallFits, Is, Brings
<1>6. Sound'
  BY <1>0, <1>1, <1>3, <1>4, <1>5, EditKeeps DEF Is, Refreshing, Brings
<1>7. QED
  BY <1>0, <1>1, <1>3, <1>6

LEMMA RotatesKeeps ==
    ASSUME Sound, NEW c \in Calls, ServerRotates(c)
    PROVE  /\ Sound' /\ Others(c) /\ OwnersStay /\ UNCHANGED <<storage, tab, crossed>>
           /\ spent' = spent \cup {call[c].pair} /\ call[c].phase = "refreshing"
           /\ call[c].pair \in Issued
           /\ owner'[issued + 1] = owner[call[c].pair] /\ issued + 1 \in Issued'
           /\ Is(call'[c], "renewed", call[c].kind, call[c].tab, call[c].as, issued + 1,
                 call[c].raced, call[c].old, call[c].runs)
<1>0. /\ TypeOK /\ PairsIssued /\ CallFits(call[c]) /\ call[c] \in CallState
      /\ call[c].phase = "refreshing" /\ call[c].pair \in Issued
      /\ Issue(owner[call[c].pair])
      /\ live' = (live \ {call[c].pair}) \cup {issued + 1}
      /\ spent' = spent \cup {call[c].pair}
      /\ Set(c, [call[c] EXCEPT !.phase = "renewed", !.pair = issued + 1])
      /\ UNCHANGED <<open, storage, tab, crossed>>
  BY DEF Sound, TypeOK, ServerRotates, PairsIssued
<1>1. owner[call[c].pair] \in Accounts
  BY <1>0 DEF PairsIssued
<1>2. /\ OwnersStay /\ issued' = issued + 1 /\ issued + 1 \in Pairs
      /\ owner'[issued + 1] = owner[call[c].pair] /\ fresh' = fresh \cup {issued + 1}
      /\ issued + 1 \notin Issued /\ Issued' = Issued \cup {issued + 1}
  BY <1>0, <1>1, IssueStays
<1>3. Is([call[c] EXCEPT !.phase = "renewed", !.pair = issued + 1], "renewed", call[c].kind,
         call[c].tab, call[c].as, issued + 1, call[c].raced, call[c].old, call[c].runs)
  BY <1>0, <1>2, EditIs
<1>4. /\ call' \in [Calls -> CallState] /\ Others(c)
      /\ Is(call'[c], "renewed", call[c].kind, call[c].tab, call[c].as, issued + 1,
            call[c].raced, call[c].old, call[c].runs)
  <2>1. [call[c] EXCEPT !.phase = "renewed", !.pair = issued + 1] \in CallState
    BY <1>3 DEF Is
  <2>2. QED
    BY <1>0, <1>3, <2>1, SetIs
<1>5. TypeOK' /\ TabsFit
  <2>1. call[c].pair \in Pairs
    BY <1>0, WebAssumption DEF TypeOK, Issued, Pairs
  <2>2. live' \subseteq Pairs /\ spent' \subseteq Pairs /\ fresh' \subseteq Pairs
    BY <1>0, <1>2, <2>1 DEF TypeOK
  <2>3. QED
    BY <1>0, <1>2, <1>4, <2>2 DEF TypeOK, TabsFit, OwnersStay, storage
<1>6. CallFits(call[c])'
  BY <1>0, <1>2, <1>4, WebAssumption DEF CallFits, Is, Brings, Pairs
<1>7. live' \subseteq Issued' /\ fresh' \subseteq Issued' /\ store' = store
  BY <1>0, <1>2 DEF PairsIssued, storage
<1>8. Sound'
  BY <1>0, <1>2, <1>4, <1>5, <1>6, <1>7, EditKeeps DEF Is, Refreshing
<1>9. QED
  BY <1>0, <1>2, <1>4, <1>8

(* A call ends and changes at most what its tab shows and who is stored.   *)
LEMMA EndKeeps ==
    ASSUME Sound, NEW c \in Calls, Settle(c), TabsFit, saved' \in Accounts \cup {None},
           crossed' \in BOOLEAN, UNCHANGED <<server, store>>
    PROVE  Sound' /\ Others(c) /\ call'[c] = Settled
<1>0. TypeOK /\ PairsIssued /\ Settled \in CallState
  BY SettledIs DEF Sound, Is
<1>1. call' \in [Calls -> CallState] /\ Others(c) /\ call'[c] = Settled
  BY <1>0, SetIs DEF Settle
<1>2. TypeOK' /\ OwnersStay /\ Issued' = Issued /\ live' \subseteq Issued'
         /\ fresh' \subseteq Issued' /\ spent' = spent /\ store' = store
  BY <1>0, <1>1, SameServer DEF TypeOK, TabsFit, server, PairsIssued
<1>3. CallFits(call[c])'
  BY <1>1, SettledIs DEF CallFits, Is, Brings
<1>4. Sound'
  BY <1>1, <1>2, <1>3, EditKeeps, SettledIs DEF Is, Refreshing, Brings
<1>5. QED
  BY <1>1, <1>4

LEMMA LostKeeps ==
    ASSUME Sound, NEW c \in Calls, LoseCall(c) \/ GiveUp(c) \/ ActDone(c)
    PROVE  /\ Sound' /\ Others(c) /\ call'[c] = Settled
           /\ UNCHANGED <<server, storage, tab, crossed>>
           /\ ~Refreshing(call[c])
<1>1. Settle(c) /\ UNCHANGED <<server, storage, tab, crossed>> /\ ~Refreshing(call[c])
  BY DEF LoseCall, GiveUp, ActDone, Answered, Settle, Failed, Refreshing
<1>2. TabsFit /\ saved' \in Accounts \cup {None} /\ crossed' \in BOOLEAN /\ store' = store
  BY <1>1 DEF Sound, TypeOK, TabsFit, storage
<1>3. QED
  BY <1>1, <1>2, EndKeeps

LEMMA ProfileKeeps ==
    ASSUME Sound, NEW c \in Calls, ProfileAnswered(c)
    PROVE  /\ Sound' /\ Others(c) /\ call'[c] = Settled /\ UNCHANGED <<server, store, tab>>
           /\ call[c].phase = "answered" /\ call[c].kind = "hydrate" /\ call[c].tab \in Tabs
           /\ saved' = IF tab[call[c].tab].user = None THEN saved ELSE tab[call[c].tab].user
           /\ crossed' = (crossed \/ call[c].old)
<1>1. /\ Settle(c) /\ UNCHANGED <<server, store, tab>>
      /\ call[c].phase = "answered" /\ call[c].kind = "hydrate"
      /\ saved' = IF tab[call[c].tab].user = None THEN saved ELSE tab[call[c].tab].user
      /\ crossed' = (crossed \/ call[c].old)
  BY DEF ProfileAnswered, Answered, Shown
<1>2. call[c].tab \in Tabs
  BY <1>1 DEF Sound, CallFits
<1>3. saved' \in Accounts \cup {None}
  BY <1>1, <1>2 DEF Sound, TypeOK, TabState
<1>4. crossed' \in BOOLEAN
  BY <1>1 DEF Sound, TypeOK, CallState
<1>5. TabsFit
  BY <1>1 DEF Sound, TypeOK, TabsFit
<1>6. QED
  BY <1>1, <1>2, <1>3, <1>4, <1>5, EndKeeps

LEMMA PollKeeps ==
    ASSUME Sound, NEW c \in Calls, PollDone(c)
    PROVE  LET t == call[c].tab IN
           /\ Sound' /\ Others(c) /\ call'[c] = Settled /\ UNCHANGED <<server, storage>>
           /\ call[c].phase = "answered" /\ call[c].kind = "poll"
           /\ call[c].as \in Accounts /\ call[c].pair # None /\ owner[call[c].pair] = call[c].as
           /\ t \in Tabs /\ OtherTabs(t)
           /\ Shows(tab'[t], tab[t].page, tab[t].user, {call[c].as}, tab[t].refreshing)
           /\ crossed' = (crossed \/ call[c].old)
<1> DEFINE t == call[c].tab
           a == call[c].as
<1>1. /\ Settle(c) /\ UNCHANGED <<server, storage>>
      /\ call[c].phase = "answered" /\ call[c].kind = "poll"
      /\ tab' = [tab EXCEPT ![t].feed = {a}]
      /\ crossed' = (crossed \/ call[c].old)
  BY DEF PollDone, Answered
<1>2. t \in Tabs /\ a \in Accounts /\ call[c].pair # None /\ owner[call[c].pair] = a
  BY <1>1 DEF Sound, CallFits, Entering
<1> HIDE DEF t, a
<1>3. tab[t] \in TabState /\ TypeOK
  BY <1>2 DEF Sound, TypeOK
<1>4. Shows([tab[t] EXCEPT !.feed = {a}], tab[t].page, tab[t].user, {a}, tab[t].refreshing)
  BY <1>2, <1>3, TabEditIs
<1>5. /\ tab' \in [Tabs -> TabState] /\ OtherTabs(t)
      /\ Shows(tab'[t], tab[t].page, tab[t].user, {a}, tab[t].refreshing)
  <2>1. tab' = [tab EXCEPT ![t] = [tab[t] EXCEPT !.feed = {a}]]
    BY <1>1
  <2>2. QED
    BY <1>2, <1>3, <1>4, <2>1, TabSet DEF Shows
<1>6. TabsFit
  BY <1>5 DEF TabsFit, OtherTabs, Shows
<1>7. saved' \in Accounts \cup {None} /\ crossed' \in BOOLEAN /\ store' = store
  BY <1>1 DEF Sound, TypeOK, CallState, storage
<1>8. QED
  BY <1>1, <1>2, <1>5, <1>6, <1>7, EndKeeps DEF t, a

(* A refresh starts.                                                       *)
LEMMA StartKeeps ==
    ASSUME Sound, NEW c \in Calls, StartRefresh(c)
    PROVE  LET t == call[c].tab IN
           /\ Sound' /\ UNCHANGED <<server, storage, crossed>>
           /\ t \in Tabs /\ OtherTabs(t) /\ ~tab[t].refreshing
           /\ Shows(tab'[t], tab[t].page, tab[t].user, tab[t].feed, TRUE)
           /\ call[c].phase = "denied" /\ store # None
           /\ Is(call'[c], "refreshing", call[c].kind, t, call[c].as, store, Races(c) # {},
                 call[c].old, call[c].runs)
           /\ \A d \in Calls : d # c =>
                 \E x \in BOOLEAN :
                    /\ Is(call'[d], call[d].phase, call[d].kind, call[d].tab, call[d].as,
                          call[d].pair, x, call[d].old, call[d].runs)
                    /\ (x = FALSE => call[d].raced = FALSE) /\ (d \in Races(c) => x = TRUE)
<1> DEFINE t == call[c].tab
<1>0. /\ TypeOK /\ PairsIssued /\ CallFits(call[c]) /\ call[c] \in CallState
      /\ \A d \in Calls : call[d] \in CallState
      /\ call[c].phase = "denied" /\ store # None /\ ~tab[t].refreshing
      /\ UNCHANGED <<server, storage, crossed>>
      /\ tab' = [tab EXCEPT ![t].refreshing = TRUE]
  BY DEF Sound, TypeOK, StartRefresh, MayRefresh, Shown
<1>1. t \in Tabs /\ store \in Pairs \cup {None}
  BY <1>0 DEF CallFits, TypeOK
<1>2. \A d \in Calls :
          call'[d] = IF d = c THEN [call[c] EXCEPT !.phase = "refreshing", !.retried = TRUE,
                                                   !.pair = store, !.raced = Races(c) # {}]
                     ELSE IF d \in Races(c) THEN [call[d] EXCEPT !.raced = TRUE] ELSE call[d]
  BY DEF StartRefresh
<1>3. Is(call'[c], "refreshing", call[c].kind, t, call[c].as, store, Races(c) # {},
         call[c].old, call[c].runs)
  <2>1. (Races(c) # {}) \in BOOLEAN
    OBVIOUS
  <2>2. QED
    BY <1>0, <1>1, <1>2, <2>1, EditIs, ZenonT(40)
<1>4. ASSUME NEW d \in Calls, d # c
      PROVE  \E x \in BOOLEAN :
                /\ Is(call'[d], call[d].phase, call[d].kind, call[d].tab, call[d].as,
                      call[d].pair, x, call[d].old, call[d].runs)
                /\ (x = FALSE => call[d].raced = FALSE) /\ (d \in Races(c) => x = TRUE)
  <2>1. CASE d \in Races(c)
    BY <1>0, <1>2, <1>4, <2>1, EditIs
  <2>2. CASE d \notin Races(c)
    <3>1. call'[d] = call[d] /\ call[d].raced \in BOOLEAN
      BY <1>0, <1>2, <1>4, <2>2 DEF CallState
    <3>2. QED
      BY <1>0, <2>2, <3>1, CallIs
  <2>3. QED
    BY <2>1, <2>2
<1> HIDE DEF t
<1>5. /\ tab' \in [Tabs -> TabState] /\ OtherTabs(t)
      /\ Shows(tab'[t], tab[t].page, tab[t].user, tab[t].feed, TRUE)
  <2>1. tab[t] \in TabState
    BY <1>0, <1>1 DEF TypeOK
  <2>2. Shows([tab[t] EXCEPT !.refreshing = TRUE], tab[t].page, tab[t].user, tab[t].feed, TRUE)
    BY <2>1, TabEditIs
  <2>3. tab' = [tab EXCEPT ![t] = [tab[t] EXCEPT !.refreshing = TRUE]]
    BY <1>0
  <2>4. QED
    BY <1>0, <1>1, <2>2, <2>3, TabSet DEF Shows
<1>6. call' \in [Calls -> CallState]
  <2>1. \A d \in Calls : call'[d] \in CallState
    BY <1>3, <1>4 DEF Is
  <2>2. QED
    BY <2>1 DEF StartRefresh
<1>7. TypeOK'
  BY <1>0, <1>5, <1>6 DEF TypeOK, server, storage
<1>8. UNCHANGED <<issued, owner, live, spent, fresh, store>> /\ OwnersStay /\ Issued' = Issued
  BY <1>0, SameServer DEF server, storage
<1>9. PairsIssued'
  BY <1>0, <1>3, <1>4, <1>8 DEF PairsIssued, Is
<1>10. \A d \in Calls : CallFits(call[d])'
  <2>1. CallFits(call[c])'
    BY <1>0, <1>1, <1>3, <1>8 DEF CallFits, Is, Brings
  <2>2. ASSUME NEW d \in Calls, d # c PROVE CallFits(call[d])'
    <3>1. PICK x \in BOOLEAN :
              /\ Is(call'[d], call[d].phase, call[d].kind, call[d].tab, call[d].as,
                    call[d].pair, x, call[d].old, call[d].runs)
              /\ (x = FALSE => call[d].raced = FALSE) /\ (d \in Races(c) => x = TRUE)
      BY <1>4, <2>2
    <3>2. CASE call[d].phase = "idle"
      <4>1. d \notin Races(c)
        BY <3>2 DEF Races
      <4>2. call'[d] = call[d]
        BY <1>2, <2>2, <4>1
      <4>3. QED
        BY <1>8, <4>2, FitsStays
    <3>3. CASE call[d].phase # "idle"
      BY <1>8, <3>1, <3>3 DEF Sound, CallFits, Is, Brings
    <3>4. QED
      BY <3>2, <3>3
  <2>3. QED
    BY <2>1, <2>2
<1>11. \A d \in Calls : TabFits(d)'
  <2>1. TabFits(c)'
    BY <1>0, <1>3, <1>5 DEF Sound, TabFits, Is, Shows, t
  <2>2. ASSUME NEW d \in Calls, d # c PROVE TabFits(d)'
    <3>1. call'[d].phase = call[d].phase /\ call'[d].tab = call[d].tab
      BY <1>4, <2>2 DEF Is
    <3>2. call[d].phase # "idle" => call[d].tab \in Tabs
      BY DEF Sound, CallFits
    <3>3. \A u \in Tabs : /\ tab'[u].page = tab[u].page
                          /\ tab[u].refreshing => tab'[u].refreshing
      BY <1>5 DEF Shows, OtherTabs
    <3>4. QED
      BY <3>1, <3>2, <3>3 DEF Sound, TabFits, Refreshing
  <2>3. QED
    BY <2>1, <2>2
<1>12. \A d, e \in Calls : RaceFits(d, e)'
  <2>0. \A d \in Calls : Refreshing(call[d]) => tab[call[d].tab].refreshing
    BY DEF Sound, TabFits, Refreshing
  <2>1. ASSUME NEW d \in Calls, d # c, Refreshing(call[d])
        PROVE  d \in Races(c) /\ call[d].tab # t
    BY <1>0, <2>0, <2>1 DEF Races, Refreshing, t
  <2>2. ASSUME NEW d \in Calls, d # c
        PROVE  /\ call'[d].phase = call[d].phase /\ call'[d].tab = call[d].tab
               /\ call[d].raced \/ d \in Races(c) => call'[d].raced
    BY <1>0, <1>4, <2>2 DEF Is, CallState
  <2>3. call'[c].tab = t /\ (Races(c) # {} => call'[c].raced)
    BY <1>3 DEF Is
  <2>4. QED
    BY <2>1, <2>2, <2>3 DEF Sound, RaceFits, Refreshing
<1>13. \A d \in Calls : NewFits(d)'
  <2>1. ~Brings(call'[c]) /\ call'[c].pair = store
    BY <1>3 DEF Brings, Is
  <2>2. \A d \in Calls : d # c => call'[d].pair = call[d].pair
                                      /\ (Brings(call'[d]) <=> Brings(call[d]))
    BY <1>4 DEF Brings, Is
  <2>3. QED
    BY <1>8, <2>1, <2>2 DEF Sound, NewFits
<1>14. QED
  BY <1>0, <1>1, <1>3, <1>4, <1>5, <1>7, <1>9, <1>10, <1>11, <1>12, <1>13 DEF Sound, t

(* A refresh brings its pair, and the call is sent again.                  *)
LEMMA SucceedsKeeps ==
    ASSUME Sound, NEW c \in Calls, RefreshSucceeds(c)
    PROVE  LET t == call[c].tab IN
           /\ Sound' /\ UNCHANGED <<server, saved>> /\ Others(c)
           /\ t \in Tabs /\ OtherTabs(t)
           /\ Shows(tab'[t], tab[t].page, tab[t].user, tab[t].feed, FALSE)
           /\ call[c].phase = "renewed" /\ call[c].pair \in Issued /\ call[c].pair \notin spent
           /\ store' = call[c].pair /\ crossed' = (crossed \/ call[c].old)
           /\ Is(call'[c], "sent", call[c].kind, t, call[c].as, call[c].pair, FALSE,
                 call[c].old, call[c].runs)
<1> DEFINE t == call[c].tab
<1>0. /\ TypeOK /\ PairsIssued /\ CallFits(call[c]) /\ NewFits(c) /\ call[c] \in CallState
      /\ call[c].phase = "renewed" /\ store' = call[c].pair /\ UNCHANGED <<server, saved>>
      /\ tab' = [tab EXCEPT ![t].refreshing = FALSE]
      /\ Set(c, [call[c] EXCEPT !.phase = "sent", !.raced = FALSE])
      /\ crossed' = (crossed \/ call[c].old)
  BY DEF Sound, TypeOK, RefreshSucceeds
<1>1. t \in Tabs /\ call[c].pair \in Issued /\ call[c].pair \notin spent
         /\ call[c].kind \notin Entering
  BY <1>0 DEF CallFits, PairsIssued, NewFits, Brings
<1>2. Is([call[c] EXCEPT !.phase = "sent", !.raced = FALSE], "sent", call[c].kind, t,
         call[c].as, call[c].pair, FALSE, call[c].old, call[c].runs)
  BY <1>0, EditIs
<1>3. /\ call' \in [Calls -> CallState] /\ Others(c)
      /\ Is(call'[c], "sent", call[c].kind, t, call[c].as, call[c].pair, FALSE,
            call[c].old, call[c].runs)
  <2>1. [call[c] EXCEPT !.phase = "sent", !.raced = FALSE] \in CallState
    BY <1>2 DEF Is
  <2>2. QED
    BY <1>0, <1>2, <2>1, SetIs
<1> HIDE DEF t
<1>4. /\ tab' \in [Tabs -> TabState] /\ OtherTabs(t)
      /\ Shows(tab'[t], tab[t].page, tab[t].user, tab[t].feed, FALSE)
  <2>1. tab[t] \in TabState
    BY <1>0, <1>1 DEF TypeOK
  <2>2. Shows([tab[t] EXCEPT !.refreshing = FALSE], tab[t].page, tab[t].user, tab[t].feed, FALSE)
    BY <2>1, TabEditIs
  <2>3. tab' = [tab EXCEPT ![t] = [tab[t] EXCEPT !.refreshing = FALSE]]
    BY <1>0
  <2>4. QED
    BY <1>0, <1>1, <2>2, <2>3, TabSet DEF Shows
<1>5. UNCHANGED <<issued, owner, live, spent, fresh, open>> /\ OwnersStay /\ Issued' = Issued
  BY <1>0, SameServer DEF server
<1>6. TypeOK'
  BY <1>0, <1>3, <1>4, <1>5 DEF TypeOK, CallState
<1>7. PairsIssued'
  BY <1>0, <1>1, <1>3, <1>5 DEF PairsIssued, Is, Others
<1>8. \A d \in Calls : CallFits(call[d])'
  <2>1. CallFits(call[c])'
    BY <1>0, <1>1, <1>3, <1>5 DEF CallFits, Is, Brings
  <2>2. QED
    BY <1>3, <1>5, <2>1, FitsStays DEF Others
<1>9. \A d \in Calls : TabFits(d)'
  <2>1. TabFits(c)'
    BY <1>0, <1>3, <1>4 DEF Sound, TabFits, Is, Shows, Refreshing, t
  <2>2. ASSUME NEW d \in Calls, d # c PROVE TabFits(d)'
    <3>1. call'[d] = call[d]
      BY <1>3, <2>2 DEF Others
    <3>2. Refreshing(call[d]) => call[d].tab # t
      BY <1>0, <2>2 DEF Sound, RaceFits, Refreshing, t
    <3>3. QED
      BY <1>4, <3>1, <3>2 DEF Sound, CallFits, TabFits, Shows, OtherTabs
  <2>3. QED
    BY <2>1, <2>2
<1>10. \A d, e \in Calls : RaceFits(d, e)'
  BY <1>3 DEF Sound, RaceFits, Refreshing, Is, Others
<1>11. \A d \in Calls : NewFits(d)'
  <2>1. ~Brings(call'[c]) /\ call'[c].pair = call[c].pair
    BY <1>3 DEF Brings, Is
  <2>2. QED
    BY <1>0, <1>3, <1>5, <2>1 DEF Sound, NewFits, Others, Brings
<1>12. QED
  BY <1>0, <1>1, <1>3, <1>4, <1>6, <1>7, <1>8, <1>9, <1>10, <1>11 DEF Sound, t

(* A session ends: its calls stay in flight.                               *)
AllLeft ==
    /\ call' \in [Calls -> CallState]
    /\ \A d \in Calls : Left(call[d], call'[d]) /\ (call'[d] = Settled \/ call'[d].old)

LEMMA OldLeft ==
    ASSUME Sound, NEW C \in [Calls -> CallState],
           \A d \in Calls : C[d] \in {call[d], Settled}, call' = Old(C)
    PROVE  AllLeft /\ \A d \in Calls : C[d] = Settled => call'[d] = Settled
<1>1. ASSUME NEW d \in Calls, C[d] = Settled PROVE call'[d] = Settled
  BY <1>1, SettledIs DEF Old, Is
<1>2. ASSUME NEW d \in Calls, C[d] = call[d]
      PROVE  Left(call[d], call'[d]) /\ (call'[d] = Settled \/ call'[d].old)
  <2>1. call[d].phase = "idle" => call[d] = Settled
    BY DEF Sound, CallFits
  <2>2. CASE call[d].phase = "idle"
    BY <1>1, <1>2, <2>1, <2>2 DEF Left
  <2>3. CASE call[d].phase # "idle"
    <3>1. Is(call'[d], call[d].phase, call[d].kind, call[d].tab, call[d].as, call[d].pair,
             call[d].raced, TRUE, call[d].runs)
      BY <1>2, <2>3, OldIs
    <3>2. QED
      BY <2>3, <3>1 DEF Left, Is
  <2>4. QED
    BY <2>2, <2>3
<1>3. \A d \in Calls : Left(call[d], call'[d]) /\ (call'[d] = Settled \/ call'[d].old)
  BY <1>1, <1>2 DEF Left
<1>4. \A d \in Calls : call'[d] \in CallState
  BY <1>3, SettledIs DEF Left, Is
<1>5. call' \in [Calls -> CallState]
  BY <1>4 DEF Old
<1>6. QED
  BY <1>1, <1>3, <1>5 DEF AllLeft

LEMMA EndOf ==
    ASSUME Sound, NEW c \in Calls, call' = Old([call EXCEPT ![c] = Settled])
    PROVE  AllLeft /\ call'[c] = Settled
<1>1. call \in [Calls -> CallState] /\ Settled \in CallState
  BY SettledIs DEF Sound, TypeOK, Is
<1>2. PICK C \in [Calls -> CallState] : C = [call EXCEPT ![c] = Settled]
  BY <1>1
<1>3. C[c] = Settled /\ \A d \in Calls : C[d] \in {call[d], Settled}
  BY <1>1, <1>2
<1>4. QED
  BY <1>2, <1>3, OldLeft

(* The pages stay open.                                                    *)
LEMMA SessionEnds ==
    ASSUME Sound, AllLeft, TabsFit, UNCHANGED server, saved' \in Accounts \cup {None},
           crossed' \in BOOLEAN,
           \/ store' = None
           \/ \E c \in Calls : Brings(call[c]) /\ store' = call[c].pair /\ call'[c] = Settled
    PROVE  Sound'
<1>1. store' \in Pairs \cup {None}
  BY DEF Sound, TypeOK, CallState
<1>2. TypeOK'
  BY <1>1 DEF Sound, TypeOK, TabsFit, AllLeft, server
<1>3. \A d \in Calls : LET t == call[d].tab IN
           tab[t].page # "off" /\ call[d].phase # "idle" =>
              /\ tab'[t].page # "off"
              /\ Refreshing(call[d]) /\ tab[t].refreshing => tab'[t].refreshing
  BY DEF Sound, CallFits, TabsFit
<1>4. \A d \in Calls : call[d].phase = "idle" => call'[d] = Settled
  BY DEF AllLeft, Left
<1>5. QED
  BY <1>2, <1>3, <1>4, LeaveKeeps DEF AllLeft

LEMMA EnterKeeps ==
    ASSUME Sound, NEW c \in Calls, NEW K, K \subseteq Entering \cup {"role"},
           NEW p \in {"role", "checking"}, EnterSession(c, K, p)
    PROVE  LET t == call[c].tab
               a == call[c].as
           IN
           /\ Sound' /\ UNCHANGED server /\ AllLeft
           /\ t \in Tabs /\ a \in Accounts /\ call[c].pair \in Issued /\ owner[call[c].pair] = a
           /\ call[c].pair \notin spent /\ store' = call[c].pair /\ saved' = a
           /\ OtherTabs(t) /\ Shows(tab'[t], p, a, tab[t].feed, tab[t].refreshing)
           /\ crossed' = (crossed \/ call[c].old \/ \E u \in Tabs : tab[u].user \notin {None, a})
<1> DEFINE t == call[c].tab
           a == call[c].as
<1>0. /\ TypeOK /\ PairsIssued /\ CallFits(call[c]) /\ NewFits(c) /\ call[c] \in CallState
      /\ call[c].phase = "answered" /\ call[c].kind \in Entering \cup {"role"}
      /\ store' = call[c].pair /\ saved' = a /\ UNCHANGED server
      /\ tab' = [tab EXCEPT ![t].user = a, ![t].page = p]
      /\ call' = Old([call EXCEPT ![c] = Settled])
      /\ crossed' = (crossed \/ call[c].old \/ \E u \in Tabs : tab[u].user \notin {None, a})
  BY DEF Sound, TypeOK, EnterSession, Answered
<1>1. /\ t \in Tabs /\ a \in Accounts /\ call[c].pair \in Issued /\ owner[call[c].pair] = a
      /\ Brings(call[c]) /\ call[c].pair \notin spent
  BY <1>0 DEF CallFits, PairsIssued, NewFits, Brings
<1> HIDE DEF t, a
<1>2. AllLeft /\ call'[c] = Settled
  BY <1>0, EndOf
<1>3. /\ tab' \in [Tabs -> TabState] /\ OtherTabs(t)
      /\ Shows(tab'[t], p, a, tab[t].feed, tab[t].refreshing)
  <2>1. tab[t] \in TabState
    BY <1>0, <1>1 DEF TypeOK
  <2>2. Shows([tab[t] EXCEPT !.user = a, !.page = p], p, a, tab[t].feed, tab[t].refreshing)
    BY <1>1, <2>1, TabEditIs
  <2>3. tab' = [tab EXCEPT ![t] = [tab[t] EXCEPT !.user = a, !.page = p]]
    BY <1>0, <1>1 DEF TypeOK
  <2>4. QED
    BY <1>0, <1>1, <2>2, <2>3, TabSet DEF Shows
<1>4. TabsFit
  BY <1>3 DEF TabsFit, OtherTabs, Shows
<1>5. crossed' \in BOOLEAN
  BY <1>0 DEF TypeOK, CallState
<1>6. Sound'
  BY <1>0, <1>1, <1>2, <1>4, <1>5, SessionEnds
<1>7. QED
  BY <1>0, <1>1, <1>2, <1>3, <1>6 DEF t, a

LEMMA FailsKeeps ==
    ASSUME Sound, NEW c \in Calls, RefreshFails(c)
    PROVE  LET t == call[c].tab IN
           /\ Sound' /\ UNCHANGED server /\ AllLeft
           /\ t \in Tabs /\ store' = None /\ saved' = None
           /\ OtherTabs(t) /\ Shows(tab'[t], tab[t].page, None, {}, FALSE)
           /\ crossed' = (crossed \/ call[c].old)
<1> DEFINE t == call[c].tab
<1>0. /\ TypeOK /\ CallFits(call[c]) /\ call[c] \in CallState
      /\ call[c].phase = "refused" /\ store' = None /\ saved' = None /\ UNCHANGED server
      /\ tab' = [SignedOut(t) EXCEPT ![t].refreshing = FALSE]
      /\ call' = Old([call EXCEPT ![c] = Settled])
      /\ crossed' = (crossed \/ call[c].old)
  BY DEF Sound, TypeOK, RefreshFails
<1>1. t \in Tabs
  BY <1>0 DEF CallFits
<1> HIDE DEF t
<1>2. AllLeft /\ call'[c] = Settled
  BY <1>0, EndOf
<1>3. /\ tab' \in [Tabs -> TabState] /\ OtherTabs(t)
      /\ Shows(tab'[t], tab[t].page, None, {}, FALSE)
  <2>1. tab[t] \in TabState
    BY <1>0, <1>1 DEF TypeOK
  <2>2. Shows([tab[t] EXCEPT !.user = None, !.feed = {}, !.refreshing = FALSE],
              tab[t].page, None, {}, FALSE)
    BY <2>1, TabEditIs
  <2>3. tab' = [tab EXCEPT ![t] = [tab[t] EXCEPT !.user = None, !.feed = {}, !.refreshing = FALSE]]
    BY <1>0, <1>1 DEF TypeOK, SignedOut
  <2>4. QED
    BY <1>0, <1>1, <2>2, <2>3, TabSet DEF Shows
<1>4. TypeOK'
  BY <1>0, <1>2, <1>3 DEF TypeOK, AllLeft, CallState, server
<1>5. \A d \in Calls : call'[d] # Settled =>
          LET u == call[d].tab IN
          tab[u].page # "off" =>
             /\ tab'[u].page # "off"
             /\ Refreshing(call[d]) /\ tab[u].refreshing => tab'[u].refreshing
  <2>1. ASSUME NEW d \in Calls, call'[d] # Settled
        PROVE  d # c /\ call[d].tab \in Tabs /\ (Refreshing(call[d]) => call[d].tab # t)
    <3>1. d # c /\ call[d].phase # "idle"
      BY <1>2, <2>1 DEF AllLeft, Left
    <3>2. QED
      BY <1>0, <3>1 DEF Sound, CallFits, RaceFits, Refreshing, t
  <2>2. \A u \in Tabs : /\ tab'[u].page = tab[u].page
                        /\ u # t => tab'[u].refreshing = tab[u].refreshing
    BY <1>3 DEF OtherTabs, Shows
  <2>3. QED
    BY <2>1, <2>2
<1>6. Sound'
  BY <1>0, <1>2, <1>4, <1>5, LeaveKeeps DEF AllLeft
<1>7. QED
  BY <1>0, <1>1, <1>2, <1>3, <1>6 DEF t

LEMMA LogoutKeeps ==
    ASSUME Sound, NEW t \in Tabs, Logout(t)
    PROVE  /\ Sound' /\ UNCHANGED <<server, crossed>> /\ AllLeft
           /\ store' = None /\ saved' = None
           /\ OtherTabs(t) /\ Shows(tab'[t], "out", None, {}, tab[t].refreshing)
<1>0. /\ TypeOK /\ tab[t] \in TabState /\ tab[t].page = "app"
      /\ store' = None /\ saved' = None /\ UNCHANGED <<server, crossed>>
      /\ tab' = [SignedOut(t) EXCEPT ![t].page = "out"] /\ call' = Old(call)
  BY DEF Sound, TypeOK, Logout
<1>1. AllLeft
  BY <1>0, OldLeft DEF TypeOK
<1>2. /\ tab' \in [Tabs -> TabState] /\ OtherTabs(t)
      /\ Shows(tab'[t], "out", None, {}, tab[t].refreshing)
  <2>1. Shows([tab[t] EXCEPT !.user = None, !.feed = {}, !.page = "out"],
              "out", None, {}, tab[t].refreshing)
    BY <1>0, TabEditIs
  <2>2. tab' = [tab EXCEPT ![t] = [tab[t] EXCEPT !.user = None, !.feed = {}, !.page = "out"]]
    BY <1>0 DEF TypeOK, SignedOut
  <2>3. QED
    BY <1>0, <2>1, <2>2, TabSet DEF Shows
<1>3. TabsFit
  BY <1>0, <1>2 DEF TabsFit, OtherTabs, Shows
<1>4. Sound'
  BY <1>0, <1>1, <1>3, SessionEnds DEF TypeOK
<1>5. QED
  BY <1>0, <1>1, <1>2, <1>4

LEMMA CloseKeeps ==
    ASSUME Sound, NEW t \in Tabs, CloseTab(t)
    PROVE  /\ Sound' /\ UNCHANGED <<server, storage>>
           /\ OtherTabs(t) /\ Shows(tab'[t], "off", None, {}, FALSE)
           /\ \A d \in Calls : call'[d] = IF call[d].tab = t THEN Settled ELSE call[d]
           /\ crossed' = (crossed \/ tab[t].refreshing)
<1>0. /\ TypeOK /\ UNCHANGED <<server, storage>> /\ tab' = [tab EXCEPT ![t] = Closed]
      /\ call' = [d \in Calls |-> IF call[d].tab = t THEN Settled ELSE call[d]]
      /\ crossed' = (crossed \/ tab[t].refreshing)
  BY DEF Sound, CloseTab
<1>1. Settled \in CallState /\ Closed \in TabState /\ crossed' \in BOOLEAN
  BY <1>0, SettledIs, ClosedIs DEF Is, Shows, TypeOK, TabState
<1>2. tab' \in [Tabs -> TabState] /\ OtherTabs(t) /\ Shows(tab'[t], "off", None, {}, FALSE)
  BY <1>0, <1>1, TabSet, ClosedIs
<1>3. call' \in [Calls -> CallState]
  BY <1>0, <1>1 DEF TypeOK
<1>4. TypeOK'
  BY <1>0, <1>1, <1>2, <1>3 DEF TypeOK, server, storage
<1>5. ASSUME NEW d \in Calls PROVE Left(call[d], call'[d])
  <2>1. CASE call[d].tab = t \/ call[d].phase = "idle"
    BY <1>0, <2>1 DEF Left, Sound, CallFits
  <2>2. CASE call[d].tab # t /\ call[d].phase # "idle"
    <3>1. call'[d] = call[d] /\ call[d] \in CallState /\ call[d].old \in BOOLEAN
      BY <1>0, <2>2 DEF TypeOK, CallState
    <3>2. QED
      BY <2>2, <3>1, CallIs DEF Left
  <2>3. QED
    BY <2>1, <2>2
<1>6. \A d \in Calls : call'[d] # Settled =>
          LET u == call[d].tab IN
          tab[u].page # "off" =>
             /\ tab'[u].page # "off"
             /\ Refreshing(call[d]) /\ tab[u].refreshing => tab'[u].refreshing
  <2>1. \A d \in Calls : call'[d] # Settled => call[d].tab \in Tabs /\ call[d].tab # t
    BY <1>0 DEF Sound, CallFits
  <2>2. QED
    BY <1>2, <2>1 DEF OtherTabs
<1>7. store' = store /\ UNCHANGED server
  BY <1>0 DEF storage
<1>8. Sound'
  BY <1>4, <1>5, <1>6, <1>7, LeaveKeeps
<1>9. QED
  BY <1>0, <1>2, <1>8

(* Tokens expire.                                                          *)
LEMMA ExpiryKeeps ==
    ASSUME Sound, NEW p \in Pairs, AccessExpires(p) \/ RefreshExpires(p)
    PROVE  Sound' /\ UNCHANGED <<issued, owner, spent, storage, tab, call, crossed>>
<1>1. /\ UNCHANGED <<issued, owner, spent, open, storage, tab, call, crossed>>
      /\ fresh' \subseteq fresh /\ live' \subseteq live
  BY DEF AccessExpires, RefreshExpires
<1>2. UNCHANGED <<issued, owner, spent, open, store, saved, tab, call, crossed>>
  BY <1>1 DEF storage
<1>3. TypeOK' /\ PairsIssued'
  BY <1>1, <1>2 DEF Sound, TypeOK, PairsIssued, Issued
<1>4. \A c \in Calls : CallFits(call[c])' /\ TabFits(c)' /\ NewFits(c)'
  BY <1>2 DEF Sound, CallFits, TabFits, NewFits, Brings, Refreshing
<1>5. \A c, d \in Calls : RaceFits(c, d)'
  BY <1>2 DEF Sound, RaceFits, Refreshing
<1>6. QED
  BY <1>1, <1>3, <1>4, <1>5 DEF Sound

-----------------------------------------------------------------------------
(* What keeps the part that holds until a call crosses sessions.           *)

(* What the tabs show is of one account.                                   *)
ShowsOnly(a) ==
    \A t \in Tabs : tab[t].user \in {a, None} /\ tab[t].feed \subseteq {tab[t].user} \ {None}

StoreFits(a) ==
    /\ store = None <=> saved = None
    /\ store # None => owner[store] = a
    /\ saved \in {a, None}

CallsOf(a) ==
    \A c \in Calls : ~call[c].old /\ call[c].pair # None /\ call[c].kind \notin Entering
                        => owner[call[c].pair] = a

LEMMA SessionForm ==
    ASSUME OneSession
    PROVE  \E a \in Accounts \cup {None} : ShowsOnly(a) /\ StoreFits(a) /\ CallsOf(a)
BY DEF OneSession, AllOf, ShowsOnly, StoreFits, CallsOf

LEMMA SessionKept ==
    ASSUME NEW a \in Accounts \cup {None}, ShowsOnly(a)', StoreFits(a)', CallsOf(a)',
           \A c \in Calls : AskedFits(c)', SpentFits'
    PROVE  OneSession'
BY DEF OneSession, AllOf, ShowsOnly, StoreFits, CallsOf

(* One call goes on, or ends.                                              *)
LEMMA CallMoves ==
    ASSUME Sound, OneSession, OwnersStay, NEW c \in Calls, Others(c),
           NEW a \in Accounts \cup {None}, StoreFits(a), CallsOf(a), ShowsOnly(a)',
           store' = store, saved' \in {a, None}, saved' = None <=> saved = None,
           \A u \in Tabs : tab'[u].user = tab[u].user,
           \/ call'[c] = Settled
           \/ /\ call[c].phase # "idle" /\ call'[c].tab = call[c].tab
              /\ call'[c].kind = call[c].kind /\ call'[c].old = call[c].old
              /\ call'[c].phase = "renewed" => call[c].phase \in {"refreshing", "renewed"}
              /\ call'[c].kind \notin Entering /\ call'[c].pair # None =>
                    call[c].pair # None /\ owner'[call'[c].pair] = owner[call[c].pair],
           call'[c].phase # "refreshing",
           call[c].phase \in {"renewed", "refused"} => call'[c].phase = "refused",
           \/ spent' = spent
           \/ /\ call[c].phase = "refreshing" /\ call'[c].phase = "renewed"
              /\ spent' = spent \cup {call[c].pair}
    PROVE  OneSession'
<1>0. Is(Settled, "idle", "none", None, None, None, FALSE, FALSE, 0)
  BY SettledIs
<1>1. \A p \in Issued : owner'[p] = owner[p]
  BY DEF OwnersStay
<1>2. store \in Issued \cup {None} /\ \A d \in Calls : call[d].pair \in Issued \cup {None}
  BY DEF Sound, PairsIssued
<1>3. StoreFits(a)'
  BY <1>1, <1>2 DEF StoreFits
<1>4. CallsOf(a)'
  <2>1. ASSUME NEW d \in Calls, d # c, ~call'[d].old, call'[d].pair # None,
               call'[d].kind \notin Entering
        PROVE  owner'[call'[d].pair] = a
    BY <1>1, <1>2, <2>1 DEF CallsOf, Others
  <2>2. ASSUME ~call'[c].old, call'[c].pair # None, call'[c].kind \notin Entering
        PROVE  owner'[call'[c].pair] = a
    BY <1>0, <2>2 DEF CallsOf, Is
  <2>3. QED
    BY <2>1, <2>2 DEF CallsOf
<1>5. ASSUME NEW d \in Calls PROVE AskedFits(d)'
  <2>1. call[d].phase # "idle" => call[d].tab \in Tabs
    BY DEF Sound, CallFits
  <2>2. CASE d = c
    BY <1>0, <2>1, <2>2 DEF OneSession, AskedFits, Is
  <2>3. CASE d # c
    BY <2>1, <2>3 DEF OneSession, AskedFits, Others
  <2>4. QED
    BY <2>2, <2>3
<1>6. SpentFits'
  <2>1. store' \in spent' => \E d \in Calls : call'[d].phase \in {"renewed", "refused"}
    BY DEF OneSession, SpentFits, Others
  <2>2. ASSUME NEW d \in Calls, call'[d].phase = "refreshing", ~call'[d].raced
        PROVE  call'[d].pair \notin spent'
    <3>1. d # c /\ call'[d] = call[d]
      BY <2>2 DEF Others
    <3>2. call[c].phase # "refreshing"
      BY <2>2, <3>1 DEF Sound, RaceFits, Refreshing
    <3>3. QED
      BY <2>2, <3>1, <3>2 DEF OneSession, SpentFits
  <2>3. QED
    BY <2>1, <2>2 DEF SpentFits
<1>7. QED
  BY <1>3, <1>4, <1>5, <1>6, SessionKept

(* The pages change, and a page may send a call.                           *)
LEMMA CallStarts ==
    ASSUME Sound, OneSession, UNCHANGED <<issued, owner, spent, store, saved>>,
           NEW a \in Accounts \cup {None}, StoreFits(a), CallsOf(a), ShowsOnly(a)',
           \A d \in Calls : call[d].phase # "idle" /\ tab[call[d].tab].user # None
                               => tab'[call[d].tab].user # None,
           \/ UNCHANGED call
           \/ \E c \in Calls, k \in Kinds, t \in Tabs, b \in Accounts \cup {None} :
                 /\ call[c] = Settled /\ Others(c)
                 /\ Is(call'[c], "sent", k, t, b, IF k \in Entering THEN None ELSE store,
                       FALSE, FALSE, 0)
                 /\ k = "poll" => tab'[t].user # None
                 /\ k = "hydrate" => store # None
    PROVE  OneSession'
<1>1. StoreFits(a)'
  BY DEF StoreFits
<1>2. CASE UNCHANGED call
  <2>1. CallsOf(a)' /\ SpentFits'
    BY <1>2 DEF CallsOf, OneSession, SpentFits
  <2>2. \A d \in Calls : AskedFits(d)'
    BY <1>2 DEF OneSession, AskedFits
  <2>3. QED
    BY <1>1, <2>1, <2>2, SessionKept
<1>3. ASSUME NEW c \in Calls, NEW k \in Kinds, NEW t \in Tabs, NEW b \in Accounts \cup {None},
             call[c] = Settled, Others(c),
             Is(call'[c], "sent", k, t, b, IF k \in Entering THEN None ELSE store,
                FALSE, FALSE, 0),
             k = "poll" => tab'[t].user # None,
             k = "hydrate" => store # None
      PROVE  OneSession'
  <2>0. call[c].phase = "idle"
    BY <1>3, SettledIs DEF Is
  <2>1. CallsOf(a)'
    BY <1>3 DEF CallsOf, StoreFits, Others, Is
  <2>2. ASSUME NEW d \in Calls PROVE AskedFits(d)'
    <3>1. CASE d = c
      BY <1>3, <3>1 DEF AskedFits, Is
    <3>2. CASE d # c
      BY <1>3, <3>2 DEF OneSession, AskedFits, Others
    <3>3. QED
      BY <3>1, <3>2
  <2>3. SpentFits'
    BY <1>3, <2>0 DEF OneSession, SpentFits, Others, Is
  <2>4. QED
    BY <1>1, <2>1, <2>2, <2>3, SessionKept
<1>4. QED
  BY <1>2, <1>3

(* A session ends, and another may begin.                                  *)
LEMMA SessionMoves ==
    ASSUME Sound, OneSession, AllLeft, UNCHANGED server,
           NEW a \in Accounts \cup {None}, StoreFits(a)', ShowsOnly(a)', store' \notin spent
    PROVE  OneSession'
<1>0. Is(Settled, "idle", "none", None, None, None, FALSE, FALSE, 0)
  BY SettledIs
<1>1. \A d \in Calls : (call'[d].phase = "idle" /\ call'[d].pair = None) \/ call'[d].old
  BY <1>0 DEF AllLeft, Is
<1>2. CallsOf(a)' /\ \A d \in Calls : AskedFits(d)'
  BY <1>1 DEF CallsOf, AskedFits
<1>3. SpentFits'
  <2>1. \A d \in Calls : call'[d].phase = "refreshing" =>
            call[d].phase = "refreshing" /\ call'[d].raced = call[d].raced
               /\ call'[d].pair = call[d].pair
    BY <1>0 DEF AllLeft, Left, Is
  <2>2. spent' = spent
    BY DEF server
  <2>3. QED
    BY <2>1, <2>2 DEF OneSession, SpentFits
<1>4. QED
  BY <1>2, <1>3, SessionKept

-----------------------------------------------------------------------------
(* The invariant, action by action.                                        *)

LEMMA InitHolds == Init => IInv
<1> SUFFICES ASSUME Init PROVE IInv
  OBVIOUS
<1>0. Is(Settled, "idle", "none", None, None, None, FALSE, FALSE, 0)
         /\ Shows(Closed, "off", None, {}, FALSE) /\ Settled \in CallState /\ Closed \in TabState
  BY SettledIs, ClosedIs DEF Is, Shows
<1>1. TypeOK
  <2>1. issued \in 0 .. MaxPairs
    BY WebAssumption DEF Init
  <2>2. owner \in [Pairs -> Accounts \cup {None}]
    BY DEF Init
  <2>3. tab \in [Tabs -> TabState] /\ call \in [Calls -> CallState]
    BY <1>0 DEF Init
  <2>4. QED
    BY <2>1, <2>2, <2>3 DEF Init, TypeOK
<1>2. \A c \in Calls : call[c] = Settled
  BY DEF Init
<1>3. \A t \in Tabs : tab[t] = Closed
  BY DEF Init
<1>4. PairsIssued
  BY <1>0, <1>2 DEF Init, PairsIssued, Issued, Is
<1>5. ASSUME NEW c \in Calls
      PROVE  CallFits(call[c]) /\ TabFits(c) /\ NewFits(c) /\ \A d \in Calls : RaceFits(c, d)
  BY <1>0, <1>2 DEF CallFits, TabFits, NewFits, RaceFits, Brings, Refreshing, Is
<1>6. Sound
  BY <1>1, <1>4, <1>5 DEF Sound
<1>7. AllOf(None)
  BY <1>0, <1>2, <1>3 DEF Init, AllOf, Is, Shows
<1>8. OneSession
  BY <1>0, <1>2, <1>3, <1>7 DEF Init, OneSession, AskedFits, SpentFits, Is, Shows
<1>9. QED
  BY <1>6, <1>8 DEF IInv

LEMMA BrowsesHolds ==
    ASSUME IInv, NEW t \in Tabs, Browses(t)
    PROVE  IInv'
<1>0. Sound /\ TypeOK
  BY DEF IInv, Sound
<1>1. ASSUME NEW p \in {"out", "checking"}, OpenTab(t, p) PROVE IInv'
  <2>1. /\ Sound' /\ OtherTabs(t) /\ Shows(tab'[t], p, saved, {}, FALSE)
        /\ \/ store = None /\ UNCHANGED call
           \/ store # None /\ \E c \in Calls :
                 /\ Others(c) /\ call[c] = Settled
                 /\ Is(call'[c], "sent", "hydrate", t, None, store, FALSE, FALSE, 0)
    BY <1>0, <1>1, OpenKeeps
  <2>2. UNCHANGED <<issued, owner, spent, store, saved, crossed>> /\ tab[t].page = "off"
    BY <1>1 DEF OpenTab, server, storage
  <2>3. ASSUME ~crossed' PROVE OneSession'
    <3>1. OneSession
      BY <2>2, <2>3 DEF IInv
    <3>2. PICK a \in Accounts \cup {None} : ShowsOnly(a) /\ StoreFits(a) /\ CallsOf(a)
      BY <3>1, SessionForm
    <3>3. ShowsOnly(a)'
      BY <2>1, <3>2 DEF ShowsOnly, StoreFits, OtherTabs, Shows
    <3>4. \A d \in Calls : call[d].phase # "idle" => call[d].tab \in Tabs /\ call[d].tab # t
      BY <1>0, <2>2 DEF Sound, CallFits, TabFits
    <3>5. \A d \in Calls : call[d].phase # "idle" /\ tab[call[d].tab].user # None
                              => tab'[call[d].tab].user # None
      BY <2>1, <3>4 DEF OtherTabs
    <3>6. "hydrate" \in Kinds /\ "hydrate" \notin Entering
      BY DEF Kinds, Entering
    <3>7. \/ UNCHANGED call
          \/ \E c \in Calls, k \in Kinds, u \in Tabs, b \in Accounts \cup {None} :
                /\ call[c] = Settled /\ Others(c)
                /\ Is(call'[c], "sent", k, u, b, IF k \in Entering THEN None ELSE store,
                      FALSE, FALSE, 0)
                /\ k = "poll" => tab'[u].user # None
                /\ k = "hydrate" => store # None
      BY <2>1, <3>6
    <3>8. QED
      BY <1>0, <2>2, <3>1, <3>2, <3>3, <3>5, <3>7, CallStarts
  <2>4. QED
    BY <2>1, <2>3 DEF IInv
<1>2. CASE CloseTab(t)
  <2>1. /\ Sound' /\ UNCHANGED <<server, storage>>
        /\ OtherTabs(t) /\ Shows(tab'[t], "off", None, {}, FALSE)
        /\ \A d \in Calls : call'[d] = IF call[d].tab = t THEN Settled ELSE call[d]
        /\ crossed' = (crossed \/ tab[t].refreshing)
    BY <1>0, <1>2, CloseKeeps
  <2>2. UNCHANGED <<issued, owner, spent, store, saved>>
    BY <2>1 DEF server, storage
  <2>3. ASSUME ~crossed' PROVE OneSession'
    <3>1. OneSession /\ ~tab[t].refreshing
      BY <2>1, <2>3 DEF IInv
    <3>2. PICK a \in Accounts \cup {None} : ShowsOnly(a) /\ StoreFits(a) /\ CallsOf(a)
      BY <3>1, SessionForm
    <3>3. Is(Settled, "idle", "none", None, None, None, FALSE, FALSE, 0)
      BY SettledIs
    <3>4. ShowsOnly(a)' /\ StoreFits(a)' /\ CallsOf(a)'
      BY <2>1, <2>2, <3>2, <3>3 DEF ShowsOnly, StoreFits, CallsOf, OtherTabs, Shows, Is
    <3>5. \A c \in Calls : call[c].phase # "idle" => call[c].tab \in Tabs
      BY <1>0 DEF Sound, CallFits
    <3>6. \A c \in Calls : AskedFits(c)'
      BY <2>1, <2>2, <3>1, <3>3, <3>5 DEF OneSession, AskedFits, OtherTabs, Is
    <3>7. \A c \in Calls : call[c].phase \in {"renewed", "refused"} => call[c].tab # t
      BY <1>0, <3>1 DEF Sound, TabFits, Refreshing
    <3>8. SpentFits'
      BY <2>1, <2>2, <3>1, <3>3, <3>7 DEF OneSession, SpentFits, Is
    <3>9. QED
      BY <3>4, <3>6, <3>8, SessionKept
  <2>4. QED
    BY <2>1, <2>3 DEF IInv
<1>3. CASE GuardAdmits(t) \/ GuardRedirects(t) \/ EnterApp(t)
  <2>1. PICK p \in {"out", "role", "checking", "app"} :
            tab' = [tab EXCEPT ![t].page = p] /\ UNCHANGED <<server, storage, call, crossed>>
    BY <1>3 DEF GuardAdmits, GuardRedirects, EnterApp
  <2>2. /\ TabsFit /\ OtherTabs(t)
        /\ Shows(tab'[t], p, tab[t].user, tab[t].feed, tab[t].refreshing)
    BY <1>0, <2>1, PageKeeps
  <2>3. Sound'
    BY <1>0, <2>1, <2>2, TabsKeep
  <2>4. UNCHANGED <<issued, owner, spent, store, saved, call, crossed>>
    BY <2>1 DEF server, storage
  <2>5. ASSUME ~crossed' PROVE OneSession'
    <3>1. OneSession
      BY <2>4, <2>5 DEF IInv
    <3>2. PICK a \in Accounts \cup {None} : ShowsOnly(a) /\ StoreFits(a) /\ CallsOf(a)
      BY <3>1, SessionForm
    <3>3. \A u \in Tabs : tab'[u].user = tab[u].user /\ tab'[u].feed = tab[u].feed
      BY <2>2 DEF OtherTabs, Shows
    <3>4. ShowsOnly(a)'
      BY <3>2, <3>3 DEF ShowsOnly
    <3>5. \A d \in Calls : call[d].phase # "idle" => call[d].tab \in Tabs
      BY <1>0 DEF Sound, CallFits
    <3>6. QED
      BY <1>0, <2>4, <3>1, <3>2, <3>3, <3>4, <3>5, CallStarts
  <2>6. QED
    BY <2>3, <2>5 DEF IInv
<1>4. CASE Logout(t)
  <2>1. /\ Sound' /\ UNCHANGED <<server, crossed>> /\ AllLeft
        /\ store' = None /\ saved' = None
        /\ OtherTabs(t) /\ Shows(tab'[t], "out", None, {}, tab[t].refreshing)
    BY <1>0, <1>4, LogoutKeeps
  <2>2. ASSUME ~crossed' PROVE OneSession'
    <3>1. OneSession
      BY <2>1, <2>2 DEF IInv
    <3>2. PICK a \in Accounts \cup {None} : ShowsOnly(a) /\ StoreFits(a) /\ CallsOf(a)
      BY <3>1, SessionForm
    <3>3. ShowsOnly(a)' /\ StoreFits(a)'
      BY <2>1, <3>2 DEF ShowsOnly, StoreFits, OtherTabs, Shows
    <3>4. store' \notin spent
      BY <1>0, <2>1, WebAssumption DEF TypeOK
    <3>5. QED
      BY <1>0, <2>1, <3>1, <3>3, <3>4, SessionMoves
  <2>3. QED
    BY <2>1, <2>2 DEF IInv
<1>5. QED
  BY <1>1, <1>2, <1>3, <1>4 DEF Browses

LEMMA AsksHolds ==
    ASSUME IInv, NEW t \in Tabs, NEW c \in Calls, Asks(t, c)
    PROVE  IInv'
<1>0. Sound
  BY DEF IInv
<1>1. PICK k \in Kinds, a \in Accounts \cup {None} :
          /\ Ask(t, c, k, a) /\ tab[t].page # "off" /\ k # "hydrate"
          /\ k \in Entering => a \in Accounts
          /\ k = "poll" => tab[t].user # None
  <2>1. ASSUME NEW b \in Accounts,
               SubmitLogin(t, c, b) \/ SubmitRegistration(t, c, b) \/ LoginWithProvider(t, c, b)
        PROVE  \E k \in Kinds :
                  Ask(t, c, k, b) /\ tab[t].page # "off" /\ k # "hydrate" /\ k # "poll"
    BY <2>1 DEF SubmitLogin, SubmitRegistration, LoginWithProvider, Submits, Kinds
  <2>2. CASE ChooseRole(t, c)
    BY <2>2 DEF ChooseRole, Kinds, Entering
  <2>3. CASE Poll(t, c)
    BY <2>3 DEF Poll, Kinds, Entering
  <2>4. CASE Act(t, c)
    BY <2>4 DEF Act, Kinds, Entering
  <2>5. QED
    BY <2>1, <2>2, <2>3, <2>4 DEF Asks
<1>2. /\ Sound' /\ Others(c) /\ UNCHANGED <<server, storage, tab, crossed>>
      /\ Is(call'[c], "sent", k, t, a, IF k \in Entering THEN None ELSE store, FALSE, FALSE, 0)
  BY <1>0, <1>1, AskKeeps
<1>3. UNCHANGED <<issued, owner, spent, store, saved, tab, crossed>> /\ call[c] = Settled
  BY <1>1, <1>2 DEF server, storage, Ask
<1>4. ASSUME ~crossed' PROVE OneSession'
  <2>1. OneSession
    BY <1>3, <1>4 DEF IInv
  <2>2. PICK b \in Accounts \cup {None} : ShowsOnly(b) /\ StoreFits(b) /\ CallsOf(b)
    BY <2>1, SessionForm
  <2>3. ShowsOnly(b)'
    BY <1>3, <2>2 DEF ShowsOnly
  <2>4. QED
    BY <1>0, <1>1, <1>2, <1>3, <2>1, <2>2, <2>3, CallStarts
<1>5. QED
  BY <1>2, <1>4 DEF IInv

LEMMA ServesHolds ==
    ASSUME IInv, NEW c \in Calls, Serves(c)
    PROVE  IInv'
<1>0. Sound /\ CallFits(call[c])
  BY DEF IInv, Sound
<1> DEFINE Moves ==
            /\ Sound' /\ Others(c) /\ OwnersStay /\ UNCHANGED <<store, saved, tab, crossed>>
            /\ call[c].phase # "idle" /\ call'[c].tab = call[c].tab
            /\ call'[c].kind = call[c].kind /\ call'[c].old = call[c].old
            /\ call'[c].phase = "renewed" => call[c].phase \in {"refreshing", "renewed"}
            /\ call'[c].kind \notin Entering /\ call'[c].pair # None =>
                  call[c].pair # None /\ owner'[call'[c].pair] = owner[call[c].pair]
            /\ call'[c].phase # "refreshing"
            /\ call[c].phase \in {"renewed", "refused"} => call'[c].phase = "refused"
            /\ \/ spent' = spent
               \/ /\ call[c].phase = "refreshing" /\ call'[c].phase = "renewed"
                  /\ spent' = spent \cup {call[c].pair}
<1>1. ASSUME Moves PROVE IInv'
  <2>1. ASSUME ~crossed' PROVE OneSession'
    <3>1. OneSession
      BY <1>1, <2>1 DEF IInv
    <3>2. PICK a \in Accounts \cup {None} : ShowsOnly(a) /\ StoreFits(a) /\ CallsOf(a)
      BY <3>1, SessionForm
    <3>3. ShowsOnly(a)' /\ saved' \in {a, None} /\ (saved' = None <=> saved = None)
      BY <1>1, <3>2 DEF ShowsOnly, StoreFits
    <3>4. QED
      BY <1>0, <1>1, <3>1, <3>2, <3>3, CallMoves
  <2>2. QED
    BY <1>1, <2>1 DEF IInv
<1>2. CASE ServerEnters(c)
  <2>1. /\ Sound' /\ Others(c) /\ OwnersStay /\ UNCHANGED <<store, saved, tab, spent, crossed>>
        /\ call[c].phase = "sent"
    BY <1>0, <1>2, EntersKeeps DEF storage
  <2>2. PICK a \in Accounts :
            /\ Is(call'[c], "answered", call[c].kind, call[c].tab, a, issued + 1,
                  call[c].raced, call[c].old, call[c].runs + 1)
            /\ owner'[issued + 1] = a
            /\ call[c].kind = "role" => call[c].pair # None /\ a = owner[call[c].pair]
    BY <1>0, <1>2, EntersKeeps
  <2>3. call[c].kind \in Entering \cup {"role"}
    BY <1>2 DEF ServerEnters
  <2>4. Moves
    BY <2>1, <2>2, <2>3 DEF Is
  <2>5. QED
    BY <1>1, <2>4
<1>3. CASE ServerExecutes(c)
  <2>1. /\ Sound' /\ Others(c) /\ UNCHANGED <<server, storage, tab, crossed>>
        /\ call[c].phase = "sent" /\ call[c].pair # None
        /\ Is(call'[c], "answered", call[c].kind, call[c].tab, owner[call[c].pair],
              call[c].pair, call[c].raced, call[c].old, call[c].runs + 1)
    BY <1>0, <1>3, ExecutesKeeps
  <2>2. UNCHANGED <<issued, owner, spent, store, saved, tab, crossed>> /\ OwnersStay
    BY <1>0, <2>1, SameServer DEF server, storage
  <2>3. Moves
    BY <2>1, <2>2 DEF Is
  <2>4. QED
    BY <1>1, <2>3
<1>4. CASE ServerDenies(c) \/ ServerRefuses(c)
  <2>1. Sound' /\ Others(c) /\ UNCHANGED <<server, storage, tab, crossed>>
    BY <1>0, <1>4, RefusedKeeps
  <2>2. PICK ph \in {"denied", "refused"} :
            /\ Is(call'[c], ph, call[c].kind, call[c].tab, call[c].as,
                  call[c].pair, call[c].raced, call[c].old, call[c].runs)
            /\ ph = "denied" => call[c].phase = "sent"
            /\ ph = "refused" => call[c].phase \in {"refreshing", "renewed"}
    BY <1>0, <1>4, RefusedKeeps
  <2>3. UNCHANGED <<issued, owner, spent, store, saved, tab, crossed>> /\ OwnersStay
    BY <1>0, <2>1, SameServer DEF server, storage
  <2>4. Moves
    BY <2>1, <2>2, <2>3 DEF Is
  <2>5. QED
    BY <1>1, <2>4
<1>5. CASE ServerRotates(c)
  <2>1. /\ Sound' /\ Others(c) /\ OwnersStay /\ UNCHANGED <<storage, tab, crossed>>
        /\ spent' = spent \cup {call[c].pair} /\ call[c].phase = "refreshing"
        /\ call[c].pair \in Issued
        /\ owner'[issued + 1] = owner[call[c].pair]
        /\ Is(call'[c], "renewed", call[c].kind, call[c].tab, call[c].as, issued + 1,
              call[c].raced, call[c].old, call[c].runs)
    BY <1>0, <1>5, RotatesKeeps
  <2>2. UNCHANGED <<store, saved>> /\ call[c].pair # None
    BY <1>0, <2>1 DEF storage, CallFits
  <2>3. Moves
    BY <2>1, <2>2 DEF Is
  <2>4. QED
    BY <1>1, <2>3
<1>6. QED
  BY <1>2, <1>3, <1>4, <1>5 DEF Serves

LEMMA EntersHolds ==
    ASSUME IInv, NEW c \in Calls, NEW K, K \subseteq Entering \cup {"role"},
           NEW p \in {"role", "checking"}, EnterSession(c, K, p)
    PROVE  IInv'
<1> DEFINE t == call[c].tab
<1>0. call[c].as \in Accounts
  BY EnterKeeps DEF IInv
<1>a. PICK a \in Accounts : a = call[c].as
  BY <1>0
<1>1. /\ Sound' /\ UNCHANGED server /\ AllLeft
      /\ t \in Tabs /\ a \in Accounts /\ call[c].pair \in Issued /\ owner[call[c].pair] = a
      /\ call[c].pair \notin spent /\ store' = call[c].pair /\ saved' = a
      /\ OtherTabs(t) /\ Shows(tab'[t], p, a, tab[t].feed, tab[t].refreshing)
      /\ crossed' = (crossed \/ call[c].old \/ \E u \in Tabs : tab[u].user \notin {None, a})
  BY <1>a, EnterKeeps DEF IInv
<1> HIDE DEF t
<1>2. owner' = owner /\ None \notin Issued /\ None \notin Accounts
  BY <1>1, WebAssumption DEF server, IInv, Sound, TypeOK, Issued, Pairs
<1>3. ASSUME ~crossed' PROVE OneSession'
  <2>1. OneSession /\ \A u \in Tabs : tab[u].user \in {None, a}
    BY <1>1, <1>3 DEF IInv
  <2>2. \A u \in Tabs : tab[u].feed \subseteq {a}
    BY <2>1 DEF OneSession
  <2>3. ShowsOnly(a)'
    BY <1>1, <1>2, <2>1, <2>2 DEF ShowsOnly, OneSession, OtherTabs, Shows
  <2>4. StoreFits(a)'
    BY <1>1, <1>2 DEF StoreFits
  <2>5. QED
    BY <1>1, <2>1, <2>3, <2>4, SessionMoves DEF IInv
<1>4. QED
  BY <1>1, <1>3 DEF IInv

LEMMA SettlesHolds ==
    ASSUME IInv, NEW c \in Calls, Settles(c)
    PROVE  IInv'
<1>0. Sound /\ CallFits(call[c])
  BY DEF IInv, Sound
<1>s. Is(Settled, "idle", "none", None, None, None, FALSE, FALSE, 0)
  BY SettledIs
<1>1. CASE LoseCall(c) \/ GiveUp(c) \/ ActDone(c)
  <2>1. /\ Sound' /\ Others(c) /\ call'[c] = Settled
        /\ UNCHANGED <<server, storage, tab, crossed>> /\ ~Refreshing(call[c])
    BY <1>0, <1>1, LostKeeps
  <2>2. UNCHANGED <<issued, owner, spent, store, saved, tab, crossed>> /\ OwnersStay
    BY <1>0, <2>1, SameServer DEF server, storage
  <2>3. ASSUME ~crossed' PROVE OneSession'
    <3>1. OneSession
      BY <2>2, <2>3 DEF IInv
    <3>2. PICK a \in Accounts \cup {None} : ShowsOnly(a) /\ StoreFits(a) /\ CallsOf(a)
      BY <3>1, SessionForm
    <3>3. ShowsOnly(a)' /\ saved' \in {a, None} /\ (saved' = None <=> saved = None)
      BY <2>2, <3>2 DEF ShowsOnly, StoreFits
    <3>4. call'[c].phase # "refreshing" /\ call[c].phase \notin {"renewed", "refused"}
      BY <1>s, <2>1 DEF Is, Refreshing
    <3>5. QED
      BY <1>0, <2>1, <2>2, <3>1, <3>2, <3>3, <3>4, CallMoves
  <2>4. QED
    BY <2>1, <2>3 DEF IInv
<1>2. CASE StartRefresh(c)
  <2> DEFINE t == call[c].tab
  <2>1. /\ Sound' /\ UNCHANGED <<server, storage, crossed>>
        /\ t \in Tabs /\ OtherTabs(t) /\ ~tab[t].refreshing
        /\ Shows(tab'[t], tab[t].page, tab[t].user, tab[t].feed, TRUE)
        /\ call[c].phase = "denied" /\ store # None
        /\ Is(call'[c], "refreshing", call[c].kind, t, call[c].as, store, Races(c) # {},
              call[c].old, call[c].runs)
        /\ \A d \in Calls : d # c =>
              \E x \in BOOLEAN :
                 /\ Is(call'[d], call[d].phase, call[d].kind, call[d].tab, call[d].as,
                       call[d].pair, x, call[d].old, call[d].runs)
                 /\ (x = FALSE => call[d].raced = FALSE) /\ (d \in Races(c) => x = TRUE)
    BY <1>0, <1>2, StartKeeps
  <2> HIDE DEF t
  <2>2. UNCHANGED <<issued, owner, spent, store, saved, crossed>>
    BY <2>1 DEF server, storage
  <2>3. ASSUME NEW d \in Calls, d # c
        PROVE  /\ call'[d].phase = call[d].phase /\ call'[d].kind = call[d].kind
               /\ call'[d].tab = call[d].tab /\ call'[d].pair = call[d].pair
               /\ call'[d].old = call[d].old /\ (~call'[d].raced => ~call[d].raced)
    BY <2>1, <2>3 DEF Is
  <2>4. ASSUME ~crossed' PROVE OneSession'
    <3>1. OneSession
      BY <2>2, <2>4 DEF IInv
    <3>2. PICK a \in Accounts \cup {None} : ShowsOnly(a) /\ StoreFits(a) /\ CallsOf(a)
      BY <3>1, SessionForm
    <3>3. \A u \in Tabs : tab'[u].user = tab[u].user /\ tab'[u].feed = tab[u].feed
      BY <2>1 DEF OtherTabs, Shows
    <3>4. ShowsOnly(a)' /\ StoreFits(a)'
      BY <2>2, <3>2, <3>3 DEF ShowsOnly, StoreFits
    <3>5. CallsOf(a)'
      BY <2>1, <2>2, <2>3, <3>2 DEF CallsOf, StoreFits, Is
    <3>6. ASSUME NEW d \in Calls PROVE AskedFits(d)'
      <4>1. call[d].phase # "idle" => call[d].tab \in Tabs
        BY <1>0 DEF Sound, CallFits
      <4>2. CASE d = c
        BY <2>1, <2>2, <3>1, <3>3, <4>2 DEF OneSession, AskedFits, Is, t
      <4>3. CASE d # c
        BY <2>2, <2>3, <3>1, <3>3, <4>1, <4>3 DEF OneSession, AskedFits
      <4>4. QED
        BY <4>2, <4>3
    <3>7. SpentFits'
      <4>1. Races(c) = {} => store \notin spent
        <5>1. ASSUME NEW d \in Calls, call[d].phase \in {"renewed", "refused"}
              PROVE  call[d].tab # t
          BY <1>0, <2>1, <5>1 DEF Sound, TabFits, Refreshing
        <5>2. \A d \in Calls : call[d].phase \in {"renewed", "refused"} => d \in Races(c)
          BY <5>1 DEF Races, t
        <5>3. QED
          BY <3>1, <5>2 DEF OneSession, SpentFits
      <4>2. /\ call'[c].pair = store /\ (~call'[c].raced => Races(c) = {})
        BY <2>1 DEF Is
      <4>3. \A d \in Calls : call'[d].phase = "refreshing" /\ ~call'[d].raced
                                => call'[d].pair \notin spent
        BY <2>3, <3>1, <4>1, <4>2 DEF OneSession, SpentFits
      <4>4. store \in spent => \E d \in Calls : call'[d].phase \in {"renewed", "refused"}
        BY <2>1, <2>3, <3>1 DEF OneSession, SpentFits
      <4>5. QED
        BY <2>2, <4>3, <4>4 DEF SpentFits
    <3>8. QED
      BY <3>4, <3>5, <3>6, <3>7, SessionKept
  <2>5. QED
    BY <2>1, <2>4 DEF IInv
<1>3. CASE RefreshLost(c)
  <2>1. Sound' /\ Others(c) /\ UNCHANGED <<server, storage, tab, crossed>>
    BY <1>0, <1>3, RefusedKeeps
  <2>2. PICK ph \in {"denied", "refused"} :
            /\ Is(call'[c], ph, call[c].kind, call[c].tab, call[c].as,
                  call[c].pair, call[c].raced, call[c].old, call[c].runs)
            /\ ph = "denied" => call[c].phase = "sent"
            /\ ph = "refused" => call[c].phase \in {"refreshing", "renewed"}
    BY <1>0, <1>3, RefusedKeeps
  <2>3. /\ UNCHANGED <<issued, owner, spent, store, saved, tab, crossed>> /\ OwnersStay
        /\ call[c].phase \in {"refreshing", "renewed"}
    BY <1>0, <1>3, <2>1, SameServer DEF server, storage, RefreshLost
  <2>4. ASSUME ~crossed' PROVE OneSession'
    <3>1. OneSession
      BY <2>3, <2>4 DEF IInv
    <3>2. PICK a \in Accounts \cup {None} : ShowsOnly(a) /\ StoreFits(a) /\ CallsOf(a)
      BY <3>1, SessionForm
    <3>3. ShowsOnly(a)' /\ saved' \in {a, None} /\ (saved' = None <=> saved = None)
      BY <2>3, <3>2 DEF ShowsOnly, StoreFits
    <3>4. /\ call[c].phase # "idle" /\ call'[c].tab = call[c].tab
          /\ call'[c].kind = call[c].kind /\ call'[c].old = call[c].old
          /\ call'[c].pair = call[c].pair /\ call'[c].phase = "refused"
      BY <2>2, <2>3 DEF Is
    <3>5. owner' = owner
      BY <2>3
    <3>6. QED
      BY <1>0, <2>1, <2>3, <3>1, <3>2, <3>3, <3>4, <3>5, CallMoves
  <2>5. QED
    BY <2>1, <2>4 DEF IInv
<1>4. CASE RefreshSucceeds(c)
  <2> DEFINE t == call[c].tab
  <2>1. /\ Sound' /\ UNCHANGED <<server, saved>> /\ Others(c)
        /\ t \in Tabs /\ OtherTabs(t)
        /\ Shows(tab'[t], tab[t].page, tab[t].user, tab[t].feed, FALSE)
        /\ call[c].phase = "renewed" /\ call[c].pair \in Issued /\ call[c].pair \notin spent
        /\ store' = call[c].pair /\ crossed' = (crossed \/ call[c].old)
        /\ Is(call'[c], "sent", call[c].kind, t, call[c].as, call[c].pair, FALSE,
              call[c].old, call[c].runs)
    BY <1>0, <1>4, SucceedsKeeps
  <2> HIDE DEF t
  <2>2. UNCHANGED <<issued, owner, spent>> /\ None \notin Issued
    BY <1>0, <2>1, WebAssumption DEF server, Sound, TypeOK, Issued, Pairs
  <2>3. ASSUME ~crossed' PROVE OneSession'
    <3>1. OneSession /\ ~call[c].old
      BY <2>1, <2>3 DEF IInv
    <3>2. PICK a \in Accounts \cup {None} : ShowsOnly(a) /\ StoreFits(a) /\ CallsOf(a)
      BY <3>1, SessionForm
    <3>3. \A u \in Tabs : tab'[u].user = tab[u].user /\ tab'[u].feed = tab[u].feed
      BY <2>1 DEF OtherTabs, Shows
    <3>4. store # None
      BY <2>1, <3>1 DEF OneSession, AskedFits
    <3>5. owner[call[c].pair] = a
      BY <1>0, <2>1, <2>2, <3>1, <3>2 DEF CallFits, CallsOf
    <3>6. ShowsOnly(a)' /\ StoreFits(a)'
      BY <2>1, <2>2, <3>2, <3>3, <3>4, <3>5 DEF ShowsOnly, StoreFits
    <3>7. CallsOf(a)'
      BY <2>1, <2>2, <3>2, <3>5 DEF CallsOf, Others, Is
    <3>8. ASSUME NEW d \in Calls PROVE AskedFits(d)'
      <4>1. call[d].phase # "idle" => call[d].tab \in Tabs
        BY <1>0 DEF Sound, CallFits
      <4>2. CASE d = c
        BY <2>1, <2>2, <3>1, <3>3, <4>2 DEF OneSession, AskedFits, Is, t
      <4>3. CASE d # c
        BY <2>1, <2>2, <3>1, <3>3, <4>1, <4>3 DEF OneSession, AskedFits, Others
      <4>4. QED
        BY <4>2, <4>3
    <3>9. SpentFits'
      BY <2>1, <2>2, <3>1 DEF OneSession, SpentFits, Others, Is
    <3>10. QED
      BY <3>6, <3>7, <3>8, <3>9, SessionKept
  <2>4. QED
    BY <2>1, <2>3 DEF IInv
<1>5. CASE RefreshFails(c)
  <2> DEFINE t == call[c].tab
  <2>1. /\ Sound' /\ UNCHANGED server /\ AllLeft
        /\ t \in Tabs /\ store' = None /\ saved' = None
        /\ OtherTabs(t) /\ Shows(tab'[t], tab[t].page, None, {}, FALSE)
        /\ crossed' = (crossed \/ call[c].old)
    BY <1>0, <1>5, FailsKeeps
  <2> HIDE DEF t
  <2>2. ASSUME ~crossed' PROVE OneSession'
    <3>1. OneSession
      BY <2>1, <2>2 DEF IInv
    <3>2. PICK a \in Accounts \cup {None} : ShowsOnly(a) /\ StoreFits(a) /\ CallsOf(a)
      BY <3>1, SessionForm
    <3>3. ShowsOnly(a)' /\ StoreFits(a)'
      BY <2>1, <3>2 DEF ShowsOnly, StoreFits, OtherTabs, Shows
    <3>4. store' \notin spent
      BY <1>0, <2>1, WebAssumption DEF Sound, TypeOK
    <3>5. QED
      BY <1>0, <2>1, <3>1, <3>3, <3>4, SessionMoves
  <2>3. QED
    BY <2>1, <2>2 DEF IInv
<1>6. CASE LoginDone(c) \/ RegistrationDone(c) \/ SocialDone(c) \/ RoleDone(c)
  <2>1. PICK K \in {{"login"}, {"register"}, {"social"}, {"role"}}, p \in {"role", "checking"} :
            EnterSession(c, K, p)
    BY <1>6 DEF LoginDone, RegistrationDone, SocialDone, RoleDone
  <2>2. K \subseteq Entering \cup {"role"}
    BY DEF Entering
  <2>3. QED
    BY <2>1, <2>2, EntersHolds
<1>7. CASE ProfileAnswered(c)
  <2>1. /\ Sound' /\ Others(c) /\ call'[c] = Settled /\ UNCHANGED <<server, store, tab>>
        /\ call[c].phase = "answered" /\ call[c].kind = "hydrate" /\ call[c].tab \in Tabs
        /\ saved' = IF tab[call[c].tab].user = None THEN saved ELSE tab[call[c].tab].user
        /\ crossed' = (crossed \/ call[c].old)
    BY <1>0, <1>7, ProfileKeeps
  <2>2. UNCHANGED <<issued, owner, spent, store, tab>> /\ OwnersStay
    BY <1>0, <2>1, SameServer DEF server
  <2>3. ASSUME ~crossed' PROVE OneSession'
    <3>1. OneSession /\ ~call[c].old
      BY <2>1, <2>3 DEF IInv
    <3>2. PICK a \in Accounts \cup {None} : ShowsOnly(a) /\ StoreFits(a) /\ CallsOf(a)
      BY <3>1, SessionForm
    <3>3. store # None
      BY <2>1, <3>1 DEF OneSession, AskedFits
    <3>4. ShowsOnly(a)' /\ saved' \in {a, None} /\ (saved' = None <=> saved = None)
      BY <2>1, <2>2, <3>2, <3>3 DEF ShowsOnly, StoreFits
    <3>5. call'[c].phase # "refreshing"
      BY <1>s, <2>1 DEF Is
    <3>6. QED
      BY <1>0, <2>1, <2>2, <3>1, <3>2, <3>4, <3>5, CallMoves
  <2>4. QED
    BY <2>1, <2>3 DEF IInv
<1>8. CASE PollDone(c)
  <2> DEFINE t == call[c].tab
  <2>1. /\ Sound' /\ Others(c) /\ call'[c] = Settled /\ UNCHANGED <<server, storage>>
        /\ call[c].phase = "answered" /\ call[c].kind = "poll"
        /\ call[c].as \in Accounts /\ call[c].pair # None /\ owner[call[c].pair] = call[c].as
        /\ t \in Tabs /\ OtherTabs(t)
        /\ Shows(tab'[t], tab[t].page, tab[t].user, {call[c].as}, tab[t].refreshing)
        /\ crossed' = (crossed \/ call[c].old)
    BY <1>0, <1>8, PollKeeps
  <2>2. UNCHANGED <<issued, owner, spent, store, saved>> /\ OwnersStay
    BY <1>0, <2>1, SameServer DEF server, storage
  <2>3. ASSUME ~crossed' PROVE OneSession'
    <3>1. OneSession /\ ~call[c].old
      BY <2>1, <2>3 DEF IInv
    <3>2. PICK a \in Accounts \cup {None} : ShowsOnly(a) /\ StoreFits(a) /\ CallsOf(a)
      BY <3>1, SessionForm
    <3>3. tab[t].user # None
      BY <2>1, <3>1 DEF OneSession, AskedFits
    <3>4. call[c].as = a
      BY <2>1, <3>1, <3>2 DEF CallsOf, Entering
    <3>5. tab[t].user = a
      BY <2>1, <3>2, <3>3 DEF ShowsOnly
    <3>6. \A u \in Tabs : tab'[u].user = tab[u].user
      BY <2>1 DEF OtherTabs, Shows
    <3>7. ShowsOnly(a)' /\ saved' \in {a, None}
      BY <2>1, <2>2, <3>2, <3>3, <3>4, <3>5 DEF ShowsOnly, StoreFits, OtherTabs, Shows
    <3>8. call'[c].phase # "refreshing"
      BY <1>s, <2>1 DEF Is
    <3>9. QED
      BY <1>0, <2>1, <2>2, <3>1, <3>2, <3>6, <3>7, <3>8, CallMoves
  <2>4. QED
    BY <2>1, <2>3 DEF IInv
<1>9. QED
  BY <1>1, <1>2, <1>3, <1>4, <1>5, <1>6, <1>7, <1>8 DEF Settles

LEMMA ExpiryHolds ==
    ASSUME IInv, NEW p \in Pairs, AccessExpires(p) \/ RefreshExpires(p)
    PROVE  IInv'
<1>1. Sound' /\ UNCHANGED <<issued, owner, spent, store, saved, tab, call, crossed>>
  BY ExpiryKeeps DEF IInv, storage
<1>2. \A c \in Calls : AskedFits(c) => AskedFits(c)'
  BY <1>1 DEF AskedFits
<1>3. OneSession => OneSession'
  <2>1. \A a : AllOf(a) => AllOf(a)'
    BY <1>1 DEF AllOf
  <2>2. SpentFits => SpentFits'
    BY <1>1 DEF SpentFits
  <2>3. QED
    BY <1>1, <1>2, <2>1, <2>2 DEF OneSession
<1>4. QED
  BY <1>1, <1>3 DEF IInv

LEMMA Inductive == IInv /\ [Next]_vars => IInv'
<1> SUFFICES ASSUME IInv, [Next]_vars PROVE IInv'
  OBVIOUS
<1>1. CASE UNCHANGED vars
  <2>1. UNCHANGED <<issued, owner, live, spent, fresh, open, store, saved, tab, call, crossed>>
    BY <1>1 DEF vars, server, storage
  <2>2. Sound'
    BY <2>1 DEF IInv, Sound, TypeOK, PairsIssued, Issued, CallFits, TabFits, RaceFits, NewFits,
                Brings, Refreshing
  <2>3. OneSession => OneSession'
    BY <2>1 DEF OneSession, AllOf, AskedFits, SpentFits
  <2>4. QED
    BY <2>1, <2>2, <2>3 DEF IInv
<1>2. ASSUME NEW t \in Tabs, Browses(t) PROVE IInv'
  BY <1>2, BrowsesHolds
<1>3. ASSUME NEW t \in Tabs, NEW c \in Calls, Asks(t, c) PROVE IInv'
  BY <1>3, AsksHolds
<1>4. ASSUME NEW c \in Calls, Serves(c) \/ Settles(c) PROVE IInv'
  BY <1>4, ServesHolds, SettlesHolds
<1>5. ASSUME NEW p \in Pairs, AccessExpires(p) \/ RefreshExpires(p) PROVE IInv'
  BY <1>5, ExpiryHolds
<1>6. QED
  BY <1>1, <1>2, <1>3, <1>4, <1>5 DEF Next

-----------------------------------------------------------------------------
(* The theorems.                                                           *)

LEMMA Holds == Spec => []IInv
BY InitHolds, Inductive, PTL DEF Spec

(* Every state of a browser is well typed.                                 *)
THEOREM WebTypes == Spec => []TypeOK
<1>1. IInv => TypeOK
  BY DEF IInv, Sound
<1>2. QED
  BY <1>1, Holds, PTL

(* No call of a page is executed twice by the server, whatever refreshes,  *)
(* replays, losses and closed tabs do to it (client.ts).                   *)
THEOREM WebRunsOnce == Spec => []AtMostOnce
<1>1. IInv => AtMostOnce
  BY DEF IInv, Sound, CallFits, AtMostOnce
<1>2. QED
  BY <1>1, Holds, PTL

(* Unless a call of an ended session acts on a later one, tokens, stored   *)
(* user and what any tab shows are of one account (AuthContext,            *)
(* NotificationContext).                                                   *)
THEOREM OneUserInTheBrowser == Spec => []OneAccount
<1>1. ASSUME IInv, ~crossed PROVE OneAccount
  <2>1. PICK a \in Accounts \cup {None} : ShowsOnly(a) /\ StoreFits(a) /\ CallsOf(a)
    BY <1>1, SessionForm DEF IInv
  <2>2. store # None => saved # None
    BY <2>1 DEF StoreFits
  <2>3. \A t \in Tabs :
            /\ tab[t].feed \subseteq {tab[t].user}
            /\ tab[t].user # None /\ store # None => owner[store] = tab[t].user
    BY <2>1 DEF ShowsOnly, StoreFits
  <2>4. QED
    BY <2>1, <2>2, <2>3 DEF OneAccount, StoreFits
<1>2. IInv => OneAccount
  BY <1>1 DEF OneAccount
<1>3. QED
  BY <1>2, Holds, PTL

(* Within a tab a refresh token is never exchanged twice                   *)
(* (refreshAccessToken).                                                   *)
THEOREM RaceIsTheOnlyWay == Spec => SpentOnlyByRace
<1>1. ASSUME IInv
      PROVE  \A c \in Calls : ServerRefuses(c) /\ ~crossed /\ ~call[c].raced
                                 => call[c].pair \notin spent
  BY <1>1 DEF IInv, OneSession, SpentFits, ServerRefuses
<1>2. QED
  BY <1>1, Holds, PTL DEF SpentOnlyByRace

=============================================================================
