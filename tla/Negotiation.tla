----------------------------- MODULE Negotiation -----------------------------
(***************************************************************************)
(* How a price is agreed: transporters bid on a published mission, its     *)
(* owner answers with counter-offers and accepts one bid, which books the  *)
(* mission at the bid's price; bids are withdrawn and expire, and a        *)
(* cancelled booking opens the mission again.                              *)
(*                                                                         *)
(* Reads and saves are split as in Payment: only the acceptance of a bid   *)
(* locks its rows.  Return trips are negotiated otherwise and the money is *)
(* Payment's; MATCHED stands for every status of a booked mission that can *)
(* still be cancelled.  Missions are created PUBLISHED.                    *)
(***************************************************************************)
EXTENDS Naturals, FiniteSets

CONSTANTS
    Jobs,          \* missions
    Transporters,
    Offers,        \* primary keys of bids, a bound on their number
    OfferJob,      \* the mission of each bid
    OfferBy,       \* its author
    AskedPrice,    \* the total price its author will ask
    Counters,      \* primary keys of counter-offers, likewise
    CounterOn,     \* the bid each one is made on
    CounterPrice,  \* the price the client will propose
    Workers,       \* server workers, one request each at a time
    MaxPending,    \* bids a transporter may have pending (3 in the code)
    MaxCounters    \* counter-offers a bid may receive (3 in the code)

ASSUME NegotiationAssumption ==
    /\ OfferJob \in [Offers -> Jobs]
    /\ OfferBy \in [Offers -> Transporters]
    /\ AskedPrice \in [Offers -> Nat]
    /\ CounterOn \in [Counters -> Offers]
    /\ CounterPrice \in [Counters -> Nat]
    /\ MaxPending \in Nat
    /\ MaxCounters \in Nat

VARIABLES
    job,      \* TransportJob.status
    offer,    \* Offer.status, ABSENT before the row exists
    price,    \* Offer.total_price, the net and the commission derived from it
    counter,  \* CounterOffer.status, ABSENT before the row exists
    booking,  \* the Booking of each mission: its bid and its frozen price
    stale,    \* bids whose valid_until has passed
    sweep,    \* where the expire_stale_offers command is
    task      \* the request each worker is in the middle of

bids == <<offer, price>>
rows == <<job, bids, counter, booking>>
vars == <<rows, stale, sweep, task>>

JobStatus     == {"PUBLISHED", "MATCHED", "CANCELLED"}
OfferStatus   == {"ABSENT", "PENDING", "ACCEPTED", "REJECTED", "EXPIRED", "WITHDRAWN"}
CounterStatus == {"ABSENT", "PENDING", "ACCEPTED", "REJECTED", "EXPIRED"}

NotBooked == [of |-> {}, at |-> 0]
Booking   == {NotBooked} \cup [of : {{o} : o \in Offers}, at : Nat]

Idle == [kind |-> "idle"]
Task ==
    {Idle}
    \cup [kind : {"ownerCancel", "expireOffers", "archive"}, job : Jobs]
    \cup [kind : {"bid"}, by : Transporters, job : Jobs]
    \cup [kind : {"withdraw"}, offer : Offers, price : Nat]
    \cup [kind : {"propose"}, offer : Offers]
    \cup [kind : {"rejectCounter"}, counter : Counters]
    \cup [kind : {"acceptCounter"}, counter : Counters, status : OfferStatus]
    \cup [kind : {"cancel"}, job : Jobs, to : JobStatus, bids : SUBSET Offers, price : Nat]

Resting == [phase |-> "resting", late |-> {}, ids |-> {}]
Sweep   == [phase : {"resting", "bids", "counters"}, late : SUBSET Offers, ids : SUBSET Offers]

(* The one type invariant: every column, request and command in flight has *)
(* a value the code can store or hold.                                     *)
TypeOK ==
    /\ job \in [Jobs -> JobStatus]
    /\ offer \in [Offers -> OfferStatus]
    /\ price \in [Offers -> Nat]
    /\ counter \in [Counters -> CounterStatus]
    /\ booking \in [Jobs -> Booking]
    /\ stale \subseteq Offers
    /\ sweep \in Sweep
    /\ task \in [Workers -> Task]

Init ==
    /\ job = [j \in Jobs |-> "PUBLISHED"]
    /\ offer = [o \in Offers |-> "ABSENT"]
    /\ price = AskedPrice
    /\ counter = [c \in Counters |-> "ABSENT"]
    /\ booking = [j \in Jobs |-> NotBooked]
    /\ stale = {}
    /\ sweep = Resting
    /\ task = [w \in Workers |-> Idle]

-----------------------------------------------------------------------------
Free(w) == task[w] = Idle
Serve(w, request) == task' = [task EXCEPT ![w] = request]
Answer(w) == Serve(w, Idle)

(* A handler's reads are done and its writes are to come.                  *)
Ask(w, request) ==
    /\ Free(w)
    /\ Serve(w, request)
    /\ UNCHANGED <<rows, stale, sweep>>

BidsOf(j) == {o \in Offers : OfferJob[o] = j /\ offer[o] # "ABSENT"}
AcceptedBids(j) == {o \in BidsOf(j) : offer[o] = "ACCEPTED"}
BidsBy(t) == {o \in Offers : OfferBy[o] = t /\ offer[o] # "ABSENT"}
PendingBy(t) == {o \in BidsBy(t) : offer[o] = "PENDING"}
CountersOf(o) == {c \in Counters : CounterOn[c] = o /\ counter[c] # "ABSENT"}

(* QuerySet.update(status=...): one statement on the rows it selects.      *)
Mark(S, status) == [o \in Offers |-> IF o \in S THEN status ELSE offer[o]]

-----------------------------------------------------------------------------
(* Bidding.                                                                *)

(* One bid per transporter and mission, whatever became of it, and a bound *)
(* on the pending ones.                                                    *)
MayBid(t, j) ==
    /\ BidsBy(t) \cap BidsOf(j) = {}
    /\ Cardinality(PendingBy(t)) < MaxPending

BidRead(w, t, j) ==
    /\ job[j] = "PUBLISHED"
    /\ MayBid(t, j)
    /\ Ask(w, [kind |-> "bid", by |-> t, job |-> j])

(* The row is inserted under a new key, as long as the instance has one.   *)
BidSave(w) ==
    /\ task[w].kind = "bid"
    /\ LET new == {o \in Offers : /\ OfferBy[o] = task[w].by
                                  /\ OfferJob[o] = task[w].job
                                  /\ offer[o] = "ABSENT"}
       IN  \/ \E o \in new : offer' = Mark({o}, "PENDING")
           \/ new = {} /\ UNCHANGED offer
    /\ Answer(w)
    /\ UNCHANGED <<job, price, counter, booking, stale, sweep>>

WithdrawRead(w, o) ==
    /\ offer[o] = "PENDING"
    /\ Ask(w, [kind |-> "withdraw", offer |-> o, price |-> price[o]])

(* The whole row is saved, with the price that was read.                   *)
WithdrawSave(w) ==
    LET o == task[w].offer IN
    /\ task[w].kind = "withdraw"
    /\ offer' = [offer EXCEPT ![o] = "WITHDRAWN"]
    /\ price' = [price EXCEPT ![o] = task[w].price]
    /\ Answer(w)
    /\ UNCHANGED <<job, counter, booking, stale, sweep>>

-----------------------------------------------------------------------------
(* Counter-offers.                                                         *)

MayPropose(o) ==
    /\ Cardinality(CountersOf(o)) < MaxCounters
    /\ \A c \in CountersOf(o) : counter[c] # "PENDING"

ProposeRead(w, o) ==
    /\ offer[o] = "PENDING"
    /\ MayPropose(o)
    /\ Ask(w, [kind |-> "propose", offer |-> o])

ProposeSave(w) ==
    /\ task[w].kind = "propose"
    /\ LET new == {c \in Counters : CounterOn[c] = task[w].offer /\ counter[c] = "ABSENT"}
       IN  \/ \E c \in new : counter' = [counter EXCEPT ![c] = "PENDING"]
           \/ new = {} /\ UNCHANGED counter
    /\ Answer(w)
    /\ UNCHANGED <<job, bids, booking, stale, sweep>>

RejectCounterRead(w, c) ==
    /\ counter[c] = "PENDING"
    /\ Ask(w, [kind |-> "rejectCounter", counter |-> c])

RejectCounterSave(w) ==
    /\ task[w].kind = "rejectCounter"
    /\ counter' = [counter EXCEPT ![task[w].counter] = "REJECTED"]
    /\ Answer(w)
    /\ UNCHANGED <<job, bids, booking, stale, sweep>>

(* The author of the bid agrees.  Only the counter-offer's status is       *)
(* tested: the bid may be in any.                                          *)
AcceptCounterRead(w, c) ==
    /\ counter[c] = "PENDING"
    /\ Ask(w, [kind |-> "acceptCounter", counter |-> c, status |-> offer[CounterOn[c]]])

Mut_AgreedWithdrawn(c) == [counter EXCEPT ![c] = "WITHDRAWN"]
Mut_AgreedRejected(c) == [counter EXCEPT ![c] = "REJECTED"]
AgreedTo(c) == [counter EXCEPT ![c] = "ACCEPTED"]

(* Bid and counter-offer are saved in one transaction, the bid with the    *)
(* status that was read.                                                   *)
AcceptCounterSave(w) ==
    LET c == task[w].counter
        o == CounterOn[c]
    IN
    /\ task[w].kind = "acceptCounter"
    /\ offer' = [offer EXCEPT ![o] = task[w].status]
    /\ price' = [price EXCEPT ![o] = CounterPrice[c]]
    /\ counter' = AgreedTo(c)
    /\ Answer(w)
    /\ UNCHANGED <<job, booking, stale, sweep>>

-----------------------------------------------------------------------------
(* Booking.                                                                *)

Mut_FirstBidsPrice(o) ==
    [of |-> {o}, at |-> CHOOSE p \in {price[x] : x \in BidsOf(OfferJob[o])} :
                            \A x \in BidsOf(OfferJob[o]) : p <= price[x]]
BookingFor(o) == [of |-> {o}, at |-> price[o]]

(* Bid and mission are locked; the other bids are rejected whatever their  *)
(* status; a booking that is already there is kept (get_or_create).  The   *)
(* refusals for debt and for the amount of cash are left out.              *)
AcceptOffer(w, o) ==
    LET j == OfferJob[o] IN
    /\ Free(w)
    /\ job[j] = "PUBLISHED"
    /\ offer[o] = "PENDING"
    /\ offer' = [Mark(BidsOf(j), "REJECTED") EXCEPT ![o] = "ACCEPTED"]
    /\ job' = [job EXCEPT ![j] = "MATCHED"]
    /\ booking' = [booking EXCEPT ![j] = IF @ = NotBooked THEN BookingFor(o) ELSE @]
    /\ UNCHANGED <<price, counter, stale, sweep, task>>

(* The transporter leaves: his bid and the mission are read ...            *)
TransporterCancelRead(w, o) ==
    /\ offer[o] = "ACCEPTED"
    /\ job[OfferJob[o]] = "MATCHED"
    /\ Ask(w, [kind |-> "cancel", job |-> OfferJob[o], to |-> "PUBLISHED",
               bids |-> {o}, price |-> price[o]])

(* ... or the client leaves: the first accepted bid is read, if any.       *)
ClientCancelRead(w, j) ==
    /\ job[j] = "MATCHED"
    /\ \/ \E o \in AcceptedBids(j) :
             Ask(w, [kind |-> "cancel", job |-> j, to |-> "CANCELLED",
                     bids |-> {o}, price |-> price[o]])
       \/ /\ AcceptedBids(j) = {}
          /\ Ask(w, [kind |-> "cancel", job |-> j, to |-> "CANCELLED",
                     bids |-> {}, price |-> 0])

(* One transaction saves both and deletes the booking.                     *)
WithoutBooking(j) == [booking EXCEPT ![j] = NotBooked]

CancelSave(w) ==
    LET j == task[w].job
        left == task[w].bids
    IN
    /\ task[w].kind = "cancel"
    /\ offer' = Mark(left, "WITHDRAWN")
    /\ price' = [o \in Offers |-> IF o \in left THEN task[w].price ELSE price[o]]
    /\ job' = [job EXCEPT ![j] = task[w].to]
    /\ booking' = WithoutBooking(j)
    /\ Answer(w)
    /\ UNCHANGED <<counter, stale, sweep>>

-----------------------------------------------------------------------------
(* Missions that are given up.                                             *)

OwnerCancelRead(w, j) ==
    /\ job[j] = "PUBLISHED"
    /\ Ask(w, [kind |-> "ownerCancel", job |-> j])

(* No transaction: the mission first, its bids in a second statement.      *)
OwnerCancelSave(w) ==
    /\ task[w].kind = "ownerCancel"
    /\ job' = [job EXCEPT ![task[w].job] = "CANCELLED"]
    /\ Serve(w, [kind |-> "expireOffers", job |-> task[w].job])
    /\ UNCHANGED <<bids, counter, booking, stale, sweep>>

ExpireOffers(w) ==
    /\ task[w].kind = "expireOffers"
    /\ offer' = Mark(BidsOf(task[w].job), "EXPIRED")
    /\ Answer(w)
    /\ UNCHANGED <<job, price, counter, booking, stale, sweep>>

(* archive_old_jobs, run by hand (a worker stands for its process): the    *)
(* missions past their date are read, and the status of each is saved.     *)
(* Their bids are left as they are.                                        *)
ArchiveRead(w, j) ==
    /\ job[j] = "PUBLISHED"
    /\ Ask(w, [kind |-> "archive", job |-> j])

ArchiveSave(w) ==
    /\ task[w].kind = "archive"
    /\ job' = [job EXCEPT ![task[w].job] = "CANCELLED"]
    /\ Answer(w)
    /\ UNCHANGED <<bids, counter, booking, stale, sweep>>

-----------------------------------------------------------------------------
(* expire_stale_offers, in the scheduler's process.                        *)

DatePasses(o) ==
    /\ offer[o] # "ABSENT"
    /\ o \notin stale
    /\ stale' = stale \cup {o}
    /\ UNCHANGED <<rows, sweep, task>>

Pending(S) == {o \in S : offer[o] = "PENDING"}

(* The keys of the pending bids past their date are listed.                *)
SweepList ==
    /\ sweep = Resting
    /\ Pending(stale) # {}
    /\ sweep' = [phase |-> "bids", late |-> stale, ids |-> Pending(stale)]
    /\ UNCHANGED <<rows, stale, task>>

Mut_ExpiresListed == sweep.ids
Mut_NothingExpired == {}

(* The update selects its rows again, at the time fixed by the command.    *)
ExpiringNow == Pending(sweep.late)

SweepOffers ==
    /\ sweep.phase = "bids"
    /\ offer' = Mark(ExpiringNow, "EXPIRED")
    /\ sweep' = [sweep EXCEPT !.phase = "counters"]
    /\ UNCHANGED <<job, price, counter, booking, stale, task>>

(* The counter-offers of the listed keys expire with them.                 *)
SweepCounters ==
    /\ sweep.phase = "counters"
    /\ counter' = [c \in Counters |->
                      IF CounterOn[c] \in sweep.ids /\ counter[c] = "PENDING"
                        THEN "EXPIRED" ELSE counter[c]]
    /\ sweep' = Resting
    /\ UNCHANGED <<job, bids, booking, stale, task>>

-----------------------------------------------------------------------------
(* A request comes in. *)
Receive(w) ==
    \/ \E o \in Offers :
          \/ WithdrawRead(w, o) \/ ProposeRead(w, o)
          \/ AcceptOffer(w, o) \/ TransporterCancelRead(w, o)
    \/ \E c \in Counters : RejectCounterRead(w, c) \/ AcceptCounterRead(w, c)
    \/ \E j \in Jobs :
          \/ ClientCancelRead(w, j) \/ OwnerCancelRead(w, j) \/ ArchiveRead(w, j)
          \/ \E t \in Transporters : BidRead(w, t, j)

(* A request in flight goes on. *)
Proceed(w) ==
    \/ BidSave(w) \/ WithdrawSave(w)
    \/ ProposeSave(w) \/ RejectCounterSave(w) \/ AcceptCounterSave(w)
    \/ CancelSave(w) \/ OwnerCancelSave(w) \/ ExpireOffers(w) \/ ArchiveSave(w)

Scheduler == SweepList \/ SweepOffers \/ SweepCounters

Next ==
    \/ \E w \in Workers : Receive(w) \/ Proceed(w)
    \/ \E o \in Offers : DatePasses(o)
    \/ Scheduler

Spec == Init /\ [][Next]_vars

(* The scheduler runs the command every thirty minutes and a worker goes   *)
(* on with its request; nobody has to bid or to answer.                    *)
Fairness == WF_vars(Scheduler) /\ \A w \in Workers : WF_vars(Proceed(w))
FairSpec == Spec /\ Fairness

-----------------------------------------------------------------------------
(* Properties that hold for any number of workers.                         *)

Offered(o) == {AskedPrice[o]} \cup {CounterPrice[c] : c \in CountersOf(o)}

(* The client is never booked at a price that is neither the one the       *)
(* transporter asked nor one the client proposed on that very bid.         *)
BookedPriceWasOffered ==
    \A j \in Jobs : \A o \in booking[j].of :
        OfferJob[o] = j /\ booking[j].at \in Offered(o)

-----------------------------------------------------------------------------
(* Properties that hold when one worker serves the requests one by one,    *)
(* beside the scheduler.                                                   *)

(* Mission, bids and booking agree: a mission is matched exactly when it   *)
(* has an accepted bid, has one only, and is booked for that bid.          *)
BookingAgrees ==
    \A j \in Jobs : AcceptedBids(j) = booking[j].of /\ (job[j] = "MATCHED" <=> booking[j] # NotBooked)

(* A price that is not the one asked was agreed to: its counter-offer is   *)
(* ACCEPTED.                                                               *)
PriceWasAgreed ==
    \A o \in Offers :
        \/ price[o] = AskedPrice[o]
        \/ \E c \in CountersOf(o) : counter[c] = "ACCEPTED" /\ price[o] = CounterPrice[c]

(* A pending bid past its date does not stay pending.                      *)
StaleBidExpires ==
    \A o \in Offers : (o \in stale /\ offer[o] = "PENDING") ~> offer[o] # "PENDING"

=============================================================================
