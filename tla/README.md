# Transporti V1 in TLA+

This directory models Transporti V1, a marketplace where clients publish
transport missions, transporters bid on them, and the platform holds the money
of a mission in escrow until it is delivered. The modules cover the server's
money and negotiation (`src/backend`) down to its database reads and writes, and
the web (`src/frontend`) and telephone (`src/mobile`) clients from their sessions
to their screens and forms. TLC checks them on small instances, and TLAPS proves
for instances of any size what is safety among it: of the money, the negotiation,
the sessions, the screens of a mission, the lists and the forms.

Contents: [the system](#1-the-system), [what is hard](#2-what-is-hard-in-this-code),
[the modules](#3-the-modules), [the runs](#4-the-runs),
[fairness](#5-fairness), [the proofs](#6-the-proofs),
[divergences](#7-where-code-and-comments-disagree), [known behaviours](#8-known-behaviours-no-property-denies),
[not modelled](#9-what-is-not-modelled), [plan](#10-plan).

## 1. The system

The server is a Django REST application: four gunicorn workers
(`docker-compose.production.yml:54`) serve requests over one PostgreSQL database
at its default isolation (READ COMMITTED), no `ATOMIC_REQUESTS`. A scheduler
process, or an external cron calling `transporti_core/cron.py`, runs maintenance
commands beside them. Server components interact by calling one another's
`services.py` inside a request, and otherwise through shared rows.

| server component | state | operations | correct when |
|---|---|---|---|
| missions (`logistics/views/jobs.py`) | `TransportJob.status`: PUBLISHED, MATCHED, IN_PROGRESS, COMPLETED, CANCELLED (DRAFT exists, the API creates missions PUBLISHED) | start, complete, confirm, edit, extend, three cancellations, archive | mission, accepted bid and booking agree |
| bids (`logistics/views/offers.py`, `serializers.py`) | `Offer`: status, price; `CounterOffer`: status, price | bid, withdraw, counter, respond, accept, expire | the booked price was offered and agreed |
| return trips (`trip_requests.py`, `return_trips.py`) | `ReturnTripRequest`, a mission owned by the transporter | request, counter, accept, direct booking | one client per trip, who can read it and pay it |
| booking (`payments/models.py`) | `Booking` one-to-one with the mission: bid, final price, rate, payment method | created on acceptance, deleted on cancellation | present exactly while the mission is engaged |
| escrow (`payments/services.py`, `views.py`) | `EscrowTransaction`: ABSENT, INITIATED, HELD, RELEASED, REFUNDED, FAILED | initiate, webhook, verify, release, refund, split | INITIATED → HELD → RELEASED or REFUNDED, money promised once, only paid links are held |
| refund queue | `RefundRequest` rows | queued by refund and split, processed by hand | a refunded row is queued |
| commission debts | `CommissionLedger`, one-to-one with the mission | booked at completion of a cash mission, settled by an administrator | booked for every cash delivery |
| gateway (`payments/gateway.py`) | external: a payment link, paid or not | create, check status, webhook | trusted, but late, repeated or silent |
| auto-release (`auto_release_escrow.py`) | none | lists HELD rows of delivered missions older than 48h, releases each | pays what nobody disputes; never over a dispute that is active when it tests |
| disputes (`support/`) | `Dispute`: status, outcome; at most one active per mission (partial unique index) | open, investigate, resolve, reject | the ruling moves its money |
| trust (`trust/`) | `TrustProfile`, verification requests, documents, overrides | submit, approve, reject, suspend | what a reviewer decides on a row is what its status says; two reviewers of one row are not kept apart (section 8) |
| reviews, messaging, favourites, alerts, notifications | rows of one person | create, hide, send, mark, toggle | what locks its row undoes nothing others decided; the rest overwrites (section 8) |
| users (`users/`) | accounts, refresh tokens with rotation and blacklist | login, refresh, logout, closure | a token serves one session |

The clients keep state of their own, and that is where most of the asynchrony is.

| client component | state | operations | correct when |
|---|---|---|---|
| telephone session (`mobile/src/core`) | tokens in the secure store, user, query cache in memory and on disk | start, login, refresh shared by calls, replay, logout, closure, killed at any time | one account at a time; nobody signed out by an outage |
| web session (`AuthContext`, `tokenManager`, `client.ts`) | tokens and user in the storage tabs share, user and notifications of each tab | the same, in several tabs | the same, and a refresh is not doubled within a tab |
| mission screens (web and telephone) | what was read last, panels, pending request | offer the next step, send it, read again | what is offered is accepted; there is always a next step; a retry does nothing twice |
| lists (34 of the web, 19 of the telephone) | rows read, filter, dialog, optimistic writes | read, filter, act | once at rest they show the server |
| forms (web and telephone) | fields, draft, readings and fills under way | read, type, fill, check, send | what was typed stays; what is sent is accepted; what is saved was meant |

`PROJECT.json` lists each component with its sources and whether it is modelled.

### How a mission runs

A transporter bids on a PUBLISHED mission. The owner accepts one bid: bid and
mission rows are locked, the bid is ACCEPTED, all others REJECTED, the mission
MATCHED and a `Booking` freezes price and payment method. For DIGITAL the client
opens a payment link (a new INITIATED escrow row each time); the webhook, or the
client coming back, makes the row HELD and, in a second transaction, the mission
IN_PROGRESS. For COD the transporter starts the mission. He completes it;
for COD the commission becomes a debt. For DIGITAL the client confirms, an
administrator releases, a moderator rules, or the scheduler pays after 48 hours.
Cancelling refunds the escrow into the back-office queue and deletes the booking.
A return trip turns the roles over: its owner is the transporter, clients send
requests, and accepting one books the trip for its client.

## 2. What is hard in this code

On the server only acceptance, activation and a few services lock rows
(`select_for_update`). Everywhere else a handler reads, tests, and later calls
`Model.save()`, which writes **every column** of the row it read. So

* a stale row overwrites what another worker committed in between: callbacks
  over refunds, moderators over moderators, withdrawals over counter-offers;
* statements outside a transaction are committed one by one, and a worker can
  die between them (HELD without activation, COMPLETED without the debt);
* several rows may exist where the code expects one (two payment links);
* limits are counted before the insert they guard;
* the gateway answers late, twice or never; the scheduler acts on a list made
  before other requests were served.

In the clients JavaScript runs one step at a time, and everything happens between
two awaits:

* an answer arrives after the session, the filter, the field or the sheet it was
  asked for is gone;
* tokens rotate, so a lost answer or a second tab spends the token that is kept;
* a screen shows what it read before somebody else moved the mission on;
* each screen derives what it offers from a status on its own, and must agree
  with the server and with the other client;
* the application is killed between two writes to its stores.

`PROJECT.json` "hazards" lists each at its line with the properties about it. Many
of these properties set the worst case of a hazard apart, because the code has it;
a note then says which case is not caught, and section 8 what the code does.

## 3. The modules

| module | what it is |
|---|---|
| `Payment` | missions, bookings, escrow rows, gateway, refund queue, disputes, debts, auto-release, crashes of workers |
| `EscrowContract` | what an escrow row promises: the documented state machine and who its sum is promised to |
| `Negotiation` | bids, counter-offers, prices, booking, withdrawal, expiry command, archive command |
| `MobileSession`, `WebSession` | sessions of the telephone and of the browser, with the server's tokens |
| `MissionServer` | one mission as the REST interface answers for it, one request per step |
| `WebMission`, `PhoneMission` | the screens of a mission, each a client of `MissionServer` |
| `MissionScreens` | a person at one of these screens, the server, and everybody else |
| `ListPage` | the words a list screen is described in |
| `BackOffice`, `UserScreens` | the web lists of administrators, and of clients and transporters, with their endpoints |
| `PhoneScreens` | the lists of the telephone, which share one cache of queries |
| `ListScreens` | a person before one of these lists, the server, and everybody else |
| `FormPage` | the words a field of a form is described in |
| `PublishForms`, `AccountForms` | the forms that publish, and those of an account |
| `FormScreens` | a person before one of these fields, the server, and everybody else |
| `MC...` | small instances for TLC |
| `PaymentProofs` | theorems on payment: those of any number of workers, then those of one |
| `NegotiationProofs` | theorems on negotiation, of any number of workers, then of one |
| `MobileSessionProofs`, `WebSessionProofs` | theorems on the sessions |
| `MissionProofs` | theorems on the screens of a mission |
| `ListTables` | what the tables of every list have in common, proved page by page |
| `ListProofs` | theorems on the lists |
| `FormProofs` | what the tables of every field have in common, proved field by field; theorems on the forms |

`Payment` and `Negotiation` are written alike. A handler that locks all it tests and
runs in one transaction is one action (`AcceptOffer`, `Activate`). A handler
that reads without a lock is two: `...Read` has the guards the code tests and
stores what it has read in `task[w]`, the request worker `w` is in the middle of;
`...Save` does all the code's writes, with no guard but that the request is
under way, because the code tests nothing again. Saves outside a transaction are
chained requests: `CallbackSave` leaves `activate` to do, `CompleteSave` leaves
`recordDebt`, `OwnerCancelSave` leaves `expireOffers`. `Crash(w)` drops the
request of a worker at any such point.

### Payment

| variable | code |
|---|---|
| `job`, `offer`, `booking` | `TransportJob.status`, `Offer.status`, `Booking.payment_method` |
| `escrow`, `gateway`, `refunds` | `EscrowTransaction.status`, the state of its link at the gateway, its `RefundRequest` rows |
| `dispute` | `Dispute.status`, `resolution_outcome` |
| `ledger` | missions with a `CommissionLedger` |
| `due`, `paying` | rows listed by the auto-release pass and not yet tried; the row it has locked and tested and not yet saved |
| `task`, `crashes` | the workers |
| `late` | history: disputes that became active between the test and the save of a release |

Bids are OPEN until accepted and VOID after rejection, withdrawal or expiry: how
they come about is `Negotiation`'s. Amounts are abstracted to FULL and PART.
`First` is Django's `.first()` on an unordered query with the default ordering
by key. `Releasable` models `.get(...)`, which raises on two rows, and the test of
active disputes. A release is two steps (`BeginRelease`, then `ReleaseSave` or
`AutoReleaseSave`): it locks its escrow row (`services.py:594`), tests the disputes by a plain
SELECT (`:609`) and saves (`:621-622`). In between the other writers that lock the
row wait (`Locked`), and a dispute may be opened, or made active again by a moderator's stale
save. A ruling is committed with the money it moves: one that releases writes both in
`ReleaseSave`. A worker that dies rolls the whole release back.
`RuledAgainstRelease` follows Django's `exclude()` over a reverse key: its two
conditions may be met by two disputes.

Left out of `Payment`: amounts and rates, the age of a row (any row may be
old enough), PIN checks, authorisation (any party allowed to call a handler may
call it at any time), notifications, messages and journals.

### EscrowContract

`stage` and `payees` of each row; the moves `Initiate`, `Hold`, `Fail`,
`Release`, `Refund`, `Split`, `SplitAlone`. `Payment` maps `stage` to `escrow` and
`payees` to what status and refund queue say together (`Payees`); a queue that
no ruling writes, such as a second refund, maps to `"wrong"`, which no move of the
contract allows. `ImplementsContract` is the contract's `Spec` under this map.

### Negotiation

`job`, `offer`, `price`, `counter` are the columns of the three tables, `booking`
keeps the bid and the frozen price, `stale` the bids whose `valid_until` has
passed, `sweep` the phase of `expire_stale_offers` with the keys it listed.
The sweep's second statement evaluates its query again at the time fixed when
the command began (`ExpiringNow`), the third uses the listed keys. A withdrawal
and a cancellation save the price they read; the acceptance of a counter-offer
saves the status it read. A bid past its date can still be accepted: no
handler tests `valid_until`.

Left out: the refusals for debt and for the amount of cash; return trips;
net and commission, which follow from the total price.

### MobileSession and WebSession

Both model the server's side of a session (`issued`, `owner`, `live`, `fresh`, and
for the web `spent`: SimpleJWT with rotation and blacklist after rotation) beside
the client's. A pair of access and refresh token is one key, as both clients
always write the two together. `store` is the Keystore, or localStorage.

* `MobileSession`: `disk` and `cache` are whose data the persisted and the live
  query cache hold, `call` the requests in flight with their phase in the
  interceptors, `refresh` the shared promise, `leaving` a logout under way. `Kill`
  loses memory and keeps the stores; the application starts again by reading the
  stored pair.
* `WebSession`: `tab` is each tab's page, user, notifications and `isRefreshing`
  flag; `saved` the stored user. Tabs are opened, reloaded and closed at any time,
  and none hears of another.

Tokens expire at any time, and an outage loses any request or answer. `crossed` is a
history variable: something asked for in an earlier session has acted on a later
one. The clients do nothing against that (no request is cancelled on a logout),
so `OneAccount` speaks of the sessions where it has not happened, and section 8
says what does happen. `left` is another: the accounts whose cache and disk copy a logout
leaves behind when the telephone is killed between the removal of the tokens and the purge.
It is emptied by the next logout that completes; until then `OneAccount` sets apart what
`left` names, and nothing else. The runs stop at such a state (`CONSTRAINT Unmixed`).

### The screens of a mission

`MissionServer` is a function: `Answers(p, tap, s)` is the set of missions a request
of person `p` may leave behind when it finds mission `s`, empty where the server
refuses. A mission `s` is a record of status, rows (bids, or requests of a trip, in
order), method, latest payment, dispute, confirmation, reviews. `Sees`, `Show` and
`Participants` say who may read it and what the serializer shows whom. The
concurrency inside a request is left to `Payment` and `Negotiation`.

`WebMission` and `PhoneMission` add one screen: what it has read (`page.view`,
`phone.entry`), what it offers from that (`PageTaps`, `PhoneTaps`, one operator per
component), the request under way, and which readings an answer sets off.
`MissionScreens` lets the person use either, and everybody else, the same
person's other device included, do whatever the server accepts.

### Lists and forms

Fifty-three lists (the homes of both sides, the bell and the corridor statistics
among them) differ in what they read and offer, not in how reading and acting interleave. So `ListPage` defines a page as a record (`shows`, `counts`,
`reads`, `offers`, `acts`, `serves`, `moves`), `BackOffice`, `UserScreens` and
`PhoneScreens` give one record per page with the server's endpoints in `serves`, and `ListScreens` is
the interleaving: readings answered in any order or failed (`Serve`, `Arrive`, `Fail`), filters, dialogs, acts on rows that have changed since, lost answers,
optimistic writes and their reverts, and what others do meanwhile. On the telephone an
act that succeeds declares entries of the cache out of date, which cancels the
readings under way and starts others; `Untold` marks the acts that forget to.

Forms are done likewise, one field at a time: a field is a record (`values`, `types`,
`likes`, `records`, `reads`, `fills`, `checks`, `sends`, `stores`, ...), in which the
values are the classes the code tells apart (empty, too long, in the past, of
another job type), and `FormScreens` is the interleaving of reading, typing, filling in
by answers that arrive late, checking, drafts, sending, refusals and losses. A
field that is not touched stands for the others that are sent with it.

`missed`, `overtaken` (lists) and `hand`, `own`, `mine` (forms) are ghosts: what has been
changed elsewhere, what the person typed, what the person knows to have saved.

`OfferedIsAccepted`, `OffersMatchServer`, `SentIsAccepted`, `TypedIsShown` and
`SavedIsMeant` exclude named sets of cases (`KnownRefusal`, `KnownRefused`,
`KnownMissing`, `KnownRefusedForms`, `KnownOverwritten`, `KnownUnmeant`, ...), and
`DecisionsStand` one of acts (`KnownOverwrites`). These are
defects the code has today, each listed in section 8; everything else is claimed.
A defect that is mended can be struck from its set, and a new one breaks the run.

## 4. The runs

| run | instance | shows |
|---|---|---|
| `PaymentSerial` | 1 worker, a mission with a bid, a row and a dispute beside a return trip with 2 requests and 2 rows, 1 crash | typing, `EngagedHasContract`, `RulingMovedMoney`, `ImplementsContract` |
| `PaymentRaces` | 2 workers, 1 mission, 2 bids, 2 links, 1 dispute, 1 crash, symmetry of bids and workers | `ReleasedWasPaid`, `DigitalStartIsPaid`, `RefundIsQueued`, `ActiveIsBooked`, `ReleaseBlockedByDispute` |
| `PaymentLive` | 2 workers, 1 mission, 2 bids, 1 crash, 1 link, 1 dispute, fair | `PaidIsRecorded`, `DeliveredIsPaidOut`, `DebtIsRecorded` |
| `NegotiationSerial` | 1 worker and the scheduler, 2 missions, 2 transporters, 4 bids, 3 counter-offers, limits 1 and 2 | typing, `BookingAgrees`, `PriceWasAgreed` |
| `NegotiationRaces` | 2 workers and the scheduler, 1 mission, 2 bids, 1 counter-offer, fair | `BookedPriceWasOffered`, `StaleBidExpires` |
| `MobileSession` | 2 accounts, 2 calls in flight, 2 token pairs | typing, `OneAccount`, `AtMostOnce`, `SignsOutOnlyTheRefused` |
| `WebSession` | 2 accounts, 2 tabs, 2 calls in flight, 2 token pairs | typing, `OneAccount`, `AtMostOnce`, `SpentOnlyByRace` |
| `MissionScreens` | an owner and two others, 2 bids or requests, a screen at most one change behind | typing, `WhoMayActMayLook`, `OfferedIsAccepted`, `NoDeadEnd`, `StaleStepIsRefused`, `DoneIsNotOffered`, `RetryIsRefused` |
| `ListScreens` | each of 53 lists, 1 row, 2 readings on their way (5.6 million states) | typing, `SettledShowsServer`, `OffersMatchServer`, `DecisionsStand` |
| `FormScreens` | each field of each form | typing, `TypedIsShown`, `SentIsAccepted`, `SavedIsMeant` |
| `SettledRowOverwritten` | as `PaymentRaces` | a counterexample, section 7 |
| `BookedTripHasPayer` | as `MissionScreens` | a counterexample, section 7 |

The properties of the server fall in two groups, and the modules say which. Those
of the first hold under every interleaving of stale reads and are checked with
two workers. Those of the second hold when one worker serves the requests one
by one, beside the scheduler, the gateway and crashes; with two workers stale
saves break them. That line is itself a result: it says what the missing locks cost.

Bounds of the server's runs. Two workers suffice for a stale read to meet a write.
Two links are the least number for `.first()` and `.get()` to differ from "the row
of the mission"; two bids or requests let a mission be booked again after a
cancellation. `MaxPending` is 1 and `MaxCounters` 2 (both 3 in the code) with one
more bid and one more counter-offer than the limit allows, so the limits are met.
`MaxCrashes` is 1. The keys of bids, counter-offers and escrow rows are bounded by the
constants; a handler that finds no key left ends without a row
(`InitiateRefused`, the second disjuncts of `BidSave` and `ProposeSave`).

Bounds of the clients' runs. Two accounts, so that one can follow another; two
calls, so that one waits for a refresh the other started, or writes after it; two
pairs, so that one session follows another or is refreshed once. A call of
the telephone is a reading, or one of the other kinds (`OneListsOneActs`), as
two mutations do not share anything but what a reading already shares with one.
`MaxRows` is 2: a second bid is rejected by the acceptance of the first, a third
would be as the second. `MaxBehind` is 1: a screen may
show a mission one change old (2 was run once as well and gave 2.2 million states and no error).
`Items` is 1, as the rows of a list do not depend on each other; `MaxReads` is 2, so
two answers can cross. In a list one change by others happens between two
readings, in a form one field is edited and one fill of a kind is under way.
`CHECK_DEADLOCK FALSE`, where a configuration has it: people may stop asking, and then
nothing is left to do.

Each property has a mutant in its module, a definition `Mut_...` that changes one
operator as a plausible bug would (a dropped guard, a swapped status, a missing
reset); under it the property fails in the same run.

## 5. Fairness

* `WF(Proceed(w))`: a worker that is alive goes on with its request.
* `WF(ListDue)`, `WF(AutoRelease)`, `WF(AutoReleaseSave)`, `WF(Scheduler)`: the commands run every four
  hours and every thirty minutes (`logistics/taches_planifiees.py:25-31`), and a
  failing task does not stop the loop (`:36-45`).
* `SF(WebhookRead)`, over all workers: the gateway repeats a webhook that is
  not acknowledged, and the listening socket hands out requests in order, so a
  webhook that again and again finds a free worker is at last served.
* Nothing is assumed of users, moderators, administrators and payers, nor
  of anything in the clients, whose properties are of safety. `SettledShowsServer`
  and `DoneIsNotOffered` speak of screens at rest, not of screens that come to rest.

Even so `PaidIsRecorded` says only that the row leaves INITIATED, not that the
mission starts (section 8).

## 6. The proofs

All theorems hold for any sets of missions, bids, rows, disputes, counter-offers,
workers, accounts, calls, tabs, persons and items, and any number of crashes, token pairs
and readings, under the assumptions the modules name. Those on constants say that a
key belongs to the row it is of, that bounds are numbers, and that `None` is none of the
things it stands for the absence of (`PaymentAssumption`, `NegotiationAssumption`,
`MobileAssumption`, `WebAssumption`, `ServerAssumption`, `ScreensAssumption`,
`ListAssumption`, `FieldsAssumption`). Nothing is assumed of the tables of the lists and of
the fields: what their interleaving needs of them is proved (`EveryPage`, `EveryField`), so a
page or a field added to the tables asks for a lemma of its own.

**`PaymentProofs`.** `TypeCorrect`; then `OnlyPaidIsReleased`, `EscrowStrict`,
`RefundNotLost`, `BookedWhileActive` from one inductive invariant `IInv`, and the
action property `HardBlock`. The argument goes through what one step may do
rather than action by action: `RowStep` (a row becomes HELD only if its link is
paid, RELEASED only by the release that holds its lock, REFUNDED only with a queue, and a
queue never empties), `TaskStep` (only a callback that saw the link paid asks for
activation), `JobStep` and `BookedStep`. The strengthening is `ActivationIsPaid`: a
request about to start a mission has seen its link paid, without which
`DigitalStartIsPaid` is not inductive, as the row may be overwritten in between.
`HardBlock` rests on `ReleaseInv`, what is true while a release is between its test and its
save: its row is HELD (`LockedIsHeld`), nobody else releases it (`OneRelease`), and the active
disputes of its mission are the one it rules and those that became active since
(`DisputesTested`). So the theorem says that a payment goes over a dispute only in that
window; it does not say that the window is closed, which it is not.

For one worker the escrow rows implement
`EscrowContract` (`Refinement`). The invariant `SInv` adds that a callback in flight
still finds its row INITIATED (this is what fails with two workers) and
that a row which is not REFUNDED has nothing queued. `MoneyStep` shows that each
step moves one row forward or leaves the money alone, `ForwardIsMove` that such a
move is a step of the contract.

What else one worker gives. `ContractKept`: a mission and
its contract agree, because what a request has read of its mission still holds when
it saves (`Reads`); with two workers this is what fails. `RulingsPay`: a ruling has
moved its money. It adds to `SInv` that each ruling is `Backed` by a row, which no
later step unsettles (`SettledStays`), and looks at a step through `RulingStep`.
`SerialSettlesForGood`: no step overwrites a RELEASED or a REFUNDED row, which is what the run
`SettledRowOverwritten` shows two workers do, and what is queued for such a row stays queued.
`CashOwesCommission`: a delivery for cash is booked as a debt, or is about to be by the request
that made it, or its worker died. `OneLinkIsRefunded`: money stays HELD on a mission that was
cancelled only beside another row of it that was refunded, so a mission of one link loses none.
The last two look at a step through `MissionMoves`, what a step may do to a mission.

**`NegotiationProofs`.** `NegotiationTypes` and `BookedAtAnOfferedPrice` for any
number of workers. Its `IInv` adds that every stored price, and every price a
request in flight will store, was asked or proposed on that very bid, and that a
counter-offer being accepted exists; `OfferedGrows` makes this stable.

For one worker beside the scheduler it adds `BookedForItsBid` and `PricesAgreed`.
`AloneInv` says again what a request in flight has read (`Reads`), as far as the
scheduler, which expires pending bids and counter-offers only, leaves it true.
`LimitsHold` proves the limits the code counts before it inserts: a transporter never has more
pending bids than `MaxPending`, nor two bids on one mission, a bid never more counter-offers
than `MaxCounters`, nor two that wait for an answer. The invariant says of a bid or
counter-offer on its way what was counted for it, and the argument is on cardinalities.

**`MobileSessionProofs`.** `PhoneTypes`, `NoneRunsTwice`, `OneAtATime` and
`OnlyTheRefused` for any accounts, calls in flight and token pairs, including the
states the run's CONSTRAINT cuts off. `IInv` has two halves. `Sound` always holds:
types, pairs held were issued, what a call and a refresh have when they are in a
phase (`CallFits`, `RefreshFits`), where the application is (`StageFits`), and that
a refresh nothing has overtaken is of the pair in the store (`RefreshOfStore`). A kill
between the removal of the tokens and the purge crosses nothing: what it leaves is `left`,
and everything else stays of one account across it.
`OneSession` holds until something of an earlier session acts on a later one:
there is an account `a` with `AllOf(a)` (every token, profile, cached entry and
call of this session is of `a`); tokens and what they are for come and go together
(`StoreFits`); and whoever is about to be signed out has tokens that are no good
(`SigningOutFits`). The last is not inductive without the others: a call refused
before a shared refresh succeeds must be known not to be signing out, which needs
the phases of all calls at the moment the refresh ends (`Resumed`).

**`WebSessionProofs`.** `WebTypes`, `WebRunsOnce`, `OneUserInTheBrowser` and
`RaceIsTheOnlyWay` for any accounts, tabs, calls in flight and token pairs. `IInv` is
again `Sound` and, until `crossed`, `OneSession`. What `Sound` adds to the types: who is
in flight in which phase (`CallFits`), that a refreshing call's tab knows it (`TabFits`),
that two refreshes at once are of two tabs and both marked `raced` (`RaceFits`), and that
a new pair on its way is nobody else's (`NewFits`). `OneSession` has the account that is
everybody's (`AllOf`), what a call of this session was asked for with (`AskedFits`), and
`SpentFits`, the key to `RaceIsTheOnlyWay`: if the token in the store has been
exchanged, somebody who exchanged it is still in flight. So a tab that starts to refresh
while nobody else does holds a token the server has not seen. Closing a refreshing tab breaks
this, which is why it sets `crossed`. The lemmas `...Keeps` say field by field what an
action does, `...Holds` that it keeps `IInv`.

**`MissionProofs`.** `MissionConsistent`, and the seven properties of the run: `MissionScreenTypes`,
`ActorsMayLook`, `OffersAreAccepted`, `NobodyIsStuck`, `StaleStepsRefused`,
`DoneNotOffered` and `RetriesRefused`, for any number of people and of bids or requests,
and for screens any number of changes behind. None of the seven is inductive, as none
says what missions there are. `Inv` adds

* `Consistent(srv)`: the mission has a carrier and a method of payment exactly while it is
  under way (`Booked`); its carrier is the owner of a return trip or has bid on it
  (`Carried`); money is asked for while it is matched and held while it is being carried or
  is delivered, and an online mission starts by being paid (`Funded`); a mission not published
  has no pending bid, and a client's open request on a trip is the last one (`Answerable`). It is of
  the server alone, and each request of `Answers` keeps it, one lemma per request;
* `PageHolds` and `PhoneHolds`: what a screen has read was shown by some such mission;
* `Followed`: what the last tap has left behind on the server (`Left`), as long as nobody
  else has acted, and that a screen at rest has read it since.

With the first, `OfferedIsAccepted`, `NoDeadEnd` and `RetryIsRefused` are statements about the
functions of `MissionServer` and the operators that offer; with the last, so is `DoneIsNotOffered`.
TLC checked `Inv` on the instance of the run before it was proved (1,047,273 states).

**`ListTables`.** `EveryPage`: each of the 53 lists is `Sound`. Its statuses and acts are closed;
an act that writes its answer into the rows is of no page that drops answers or filters on the
server (`Careful`); tabs count what they list (`Counted`); an act that is not in
`KnownOverwrites` locks its row, or is done once only, and changes nothing of a row that others have changed
(`Stands`); and what is offered and what is served match, but for `KnownRefused` and
`KnownMissing` (`Suited`). One lemma per page: first its tables, row by row, then what follows.

**`ListProofs`.** `ListScreenTypes`, `ScreensSettle`, `OffersMatch` and `OthersDecisionsStand`, for any
items and number of readings on their way. It extends `ListTables`, and of the tables uses
`EveryPage` alone. `SettledShowsServer` speaks of a screen at rest, and sets three things apart:
rows that others have changed since they were read, pages whose last reading failed, and, on
the pages that do not drop old answers, a newer answer an older one has `overtaken`. `Inv`
says what holds on the way there:

* `WireHolds`: of the readings on their way, one that is not `late` and has no such reading
  after it tells the server's state of every item, but for those it is marked `behind` on and
  those whose act is done and not yet answered;
* `DropsHold`: of a page that drops old answers, the late readings are before the others
  and the last is for the filter that is chosen;
* `RowsHold`: when no reading will be shown any more, and none has failed or been overtaken,
  every row is what the page should have of the server's status, but for items others have
  changed, and for those with an act done or hoped for, whose row the act accounts for (`RowFits`);
* `CallsHold`, `BoxHolds`: a call and a dialog are of an act of the page on a status of it, and
  what a call has found is what the server does for some status;
* `LoadingHolds`: a page that says it reads has a reading on its way that it will show.

`RowsHold` is what a reader would guess; `WireHolds` is what makes it inductive, as any answer
may become the rows; and the marks it speaks of are what the pages rely on and nowhere say.
`OthersDecisionsStand` needs of the tables `Stands`, and of the server that it decides from
the status it finds, or, where the act does not lock its row, from the one it has tested
(`Called`, `DoneIs`). `OffersMatch`
joins the two: a screen at rest lists a row exactly when its tab lists the server's status, and
shows that status (`RestingListed`), so what it offers is what `Suited` compares with the server.

**`FormProofs`.** First `EveryField`: each of the 54 fields is `Fit`. It is of one of the kinds of
form there are (`Kinds`); its tables are closed (`Closed`); fills and time honour what was typed
(`Honours`) and lead out of no sound value (`StaysSound`); and what is left out of a save was
empty, or is named (`Means`). A field is `Made` by its form, to which time (`Ageing`) and fills
(`Filling`) are added, and `MadeFits` says what is then left to look up in the tables; of the
fields typed in freely, which most are, `FreeFits` says it once more briefly.

Then `FormTypes`, `TypedStays`, `SentAccepted` and `SavedAsMeant`, which of the tables use
`EveryField` alone. Of the conjuncts of their invariant,
`TypedHolds` and `CallHolds` are near the properties, and the others are what they rest on:

* `PageHolds`: a form that creates reads nothing; one that is opened has been read, is not
  read again while it is open, and is open while it is saved;
* `DraftHolds`: the draft on the device is what the form shows, step included, so that coming
  back changes nothing;
* `AskedHolds`: while a fill that was pressed is on its way, the field shows what the fill was
  asked for or what was typed since, one thing after another (`After`);
* `SoundHolds`: past the step that checks it, the field holds what the server takes or is known to
  refuse (`Sound`), which neither time nor a fill takes it out of;
* `OwnHolds`: what is not the person's is what the form offers, or what was read;
* `MineHolds`: what the person has saved, and nobody has changed since, is what the page
  has read, will read, or is about to be told: with it a second edition does not undo the first.

`Fit` is stated without the variables; what the theorems add is that no order of readings, fills,
returns, losses and saves breaks more than that. TLC checked the invariant on all fields before
it was proved (99,706 states).

Only model-checked: liveness (`PaidIsRecorded`, `DeliveredIsPaidOut`, `DebtIsRecorded`,
`StaleBidExpires`), which is out of the prover's reach. Every other property of the runs is a
theorem.

## 7. Where code and comments disagree

Each is a run that ends in a counterexample.

* `SettledRowOverwritten`: a callback that read INITIATED saves HELD over a row
  refunded meanwhile (`payments/views.py:167-169`), against the documented machine
  (`payments/models.py:55`).
* `BookedTripHasPayer`: a return trip booked directly (`return_trips.py:170-204`) has no
  accepted request, and `participants.py:55-66` finds the client of a trip through
  one. So the trip has nobody who may pay it, confirm it or read it.

## 8. Known behaviours no property denies

The models have these behaviours. They are stated here, in the hazards, or in the
named sets of exceptions (`Known...`) of the modules.

**Money and negotiation**

* A worker that dies after HELD is committed leaves the mission MATCHED, and every later
  callback answers `no_change`, although `payments/views.py:169` says the secured
  payment starts the mission. The transporter cannot start a DIGITAL mission either.
* With two links, a cancellation refunds the first row and the sum of the other stays
  HELD on a cancelled mission. Any second link, even a failed one, makes every
  release raise: `DeliveredIsPaidOut` excludes it.
* The refund of a return trip names the trip's owner, the transporter, as
  beneficiary (`payments/services.py:171`).
* A REFUND_CLIENT ruling with nothing refundable resolves and moves nothing;
  hence `RulingMovedMoney` speaks of releases and splits only. A split without an
  accepted bid queues the client's part only: `SplitAlone`.
* Two moderators rule on one dispute: the slower save replaces the outcome of the faster,
  whose money has moved.
* The scheduler may pay a row it listed before a dispute was opened and ruled
  NONE; the release re-reads active disputes only.
* A dispute committed between the test of a release (`payments/services.py:609`) and its
  save (`:621-622`) does not block it, though a comment calls it a hard block (`:608`): the insert
  of a dispute (`support/services.py:88`) takes no lock the release holds. A ruling for the
  client then finds nothing to refund. `ReleaseBlockedByDispute` names this case (`late`).
* An administrator's release in `transporti_core/views_admin.py:758`, and the end of a mission
  forced by status (`:289`), write the row themselves and test no dispute at all. They are outside `Payment`.
* The debt of a cash mission is lost if the worker dies after COMPLETED. It is also never asked
  for when the mission was cancelled and booked again, for cash, while a delivery that had read
  the first booking was being saved: the save makes it COMPLETED all the same, and the request
  goes by the method it read. `payments/services.py:673` says that the debt is always booked; so
  `DebtIsRecorded` speaks of the deliveries that have read a cash booking, and of no crash, and
  `CashOwesCommission` of one worker.
* A counter-offer left pending is accepted after its bid was booked and rewrites the price
  of the bid (`offers.py:386`); the booking keeps the price it froze (`:197`).
* The limits of pending bids and of counter-offers are counted before the insert; two
  workers pass them together. `BookingAgrees`, `PriceWasAgreed` and `EngagedHasContract`
  fail with two workers through stale reads.
* A mission opened again refuses every transporter who had bid on it before.
* Offers on return trips are accepted by the API and can be accepted by nobody.

**Sessions**

* Nothing is cancelled on a logout: a refresh, a poll or a mutation asked for in one
  session may act on the next (`crossed`).
* A telephone killed between the removal of the tokens and the purge
  (`authStore.ts:56` and `:61-62`) keeps the account's queries on disk. The next start finds no
  tokens and purges nothing, so the account that signs in next may be shown them, until a
  logout completes (`left`). The comment there (`:57-60`) claims that nothing survives a logout.
* A lost answer to a refresh costs the session at the next one, as the old token is
  blacklisted; two tabs that refresh at once cost the session of both
  (`SpentOnlyByRace` says that this race is the only way, besides a lost answer).

**Screens of a mission** (`KnownRefusal`)

* Buttons the server refuses: the cancellation of an accepted mission, a payment by a
  trip's owner, the start of an online mission on the telephone, confirmations without held
  money, of one's own trip or during a dispute, a second dispute, reviews by transporters who
  lost the bid, a second review on the telephone, requests on a trip booked directly.
* On the web the client of a return trip has no button to pay from the page of the
  trip, and the client of a direct booking cannot open it: `NoDeadEnd` speaks of
  classic missions there.
* The web book page confirms a cash booking with `POST /api/bookings/`, which has no route;
  and it drops the query of a payment return (`jobs/[id]/page.tsx:43-47`), so a payer is
  verified by the webhook alone.

**Lists** (`KnownRefused`, `KnownMissing`, `KnownOverwrites`, `missed`, `overtaken`)

* Acts that overwrite what another person has decided since the row was read: the review of a
  document tests nothing (`trust/views.py:205-231`) and that of a request a row it does not
  lock (`:101-110`); so do rulings, forced statuses and releases of the back office, the
  withdrawal of an offer or a request, a delivery, a desistment, an extension; a suspension, a refund
  of a failed payment, a settlement and a second dispute suit several statuses. TLC
  reaches an overwrite by the acts of every entry of `KnownOverwrites` except the second dispute's.
* A page that does not drop old answers (the administrators' missions, the notifications
  poll) shows the older of two that cross.
* Back office: every status is offered to force and the server refuses some; disputes nobody
  investigates are offered for a ruling; bulk acts are offered on rows they do not suit;
  moderators see buttons the server refuses them; a warning is never sent; BLOCKED
  and FAILED payments are told apart differently by page and server; a second document of a
  type hides the first, whose rejection keeps the profile REJECTED; the review of a document lifts a
  suspension; the drawer of a user keeps its form after a save; the audit page number is
  not reset by a filter.
* Reviews and favourites are turned over rather than set: two administrators who hide
  one review show it, and a heart pressed before favourites were read removes one.
* Received requests on the web offer answers to a request already countered; trips long over
  are offered for extension; bids past their deadline cannot be withdrawn from the list.
* Telephone: an alert created from the search is not told to the panel of alerts; a
  positive balance under 10 TND opens a withdrawal that cannot be sent; the completed
  missions are not read again while the home screen is mounted and do not know what
  has been reviewed; an online mission is offered for a start that is refused; disputes are
  offered while one is open; the card of a request shows "accepted" after its own press whatever is read
  later; the profile of a transporter is not read again by a pull.

**Forms** (`KnownRefusedForms`, `KnownOverwritten`, `KnownUnmeant`)

* Sent and refused: addresses above 255 characters, dates that pass while the form
  is open, common passwords, capacities of two decimals, an empty phone number that another
  account has too, specialisations above 50 characters, a label already taken, a weight above
  the trip's capacity, a zero price or one above the cash ceiling, document dates of the right
  form only, withdrawals above the balance, dispute texts above 2000 characters.
* Overwritten: an address by the position of the device, a price by an estimate asked for
  before it was typed, photographs by uploads under way, fields of a form that is read again.
* Saved and not meant: a capacity cannot be cleared; hours without a day are left out; a
  photograph of a closed request goes into the next; preferences that could not be read
  are saved as the defaults; a profile read through the cache of 120 s puts back
  what was just replaced; the draft of another type of mission sends its leftovers.
* An answer lost to a form that creates makes a second record on the next press.

## 9. What is not modelled

* Sums: the ceiling of debts, balances, commissions and the estimate of a price.
  The models see refusals and choose them freely. The two hazards of sums tested under no
  lock (`debt.py`) stay without a property for this reason.
* The double-blind reveal of reviews and its daily pass are left out (a review is saved
  outside any transaction, so of two written at once the later one finds the other); so are trust scores, the lock of a conversation, what the closure of an
  account anonymises, and the order of row locks (PostgreSQL breaks a cycle by
  aborting one request, which is the same as its never being asked).
* The overrides of an administrator change the one row their page shows; they are not
  composed with `Payment`, as the escrow contract does not survive them.
* Webhook signatures, authentication by provider, analytics and the writing of audit logs,
  sending of notifications: read-only or best effort, nothing rests on them.
* Of the clients: maps, tracking, charts and exports, pages of a list after the first
  (which go by offset, so that a row may repeat or be skipped), the telephone's
  received requests, whose cache is kept per tab, the design library, translations.
* The D17 gateway, a skeleton that raises.

## 10. Plan

Done: `Payment` with contract and proofs; `Negotiation`, both sessions, the screens of a
mission, the lists and the forms of both clients with proofs.

Left, in order of importance:

1. `PaymentAdmin`: the overrides of `views_admin.py` composed with `Payment`.
2. `Wallet` and `CodDebt`: withdrawals against a computed balance, the ceiling tested before
   the write, the settlement that collects ids before its transaction.
3. `Reviews` and `Messaging`: the double-blind reveal, the lock of a conversation by
   dispute, completion and cancellation.
4. `AccountClosure`: closure under concurrent requests.
5. `Commission`: rounding in hundredths against a reference.
6. `AcceptLocks`: the order of row locks of two acceptances.
