-------------------------- MODULE NegotiationProofs --------------------------
(***************************************************************************)
(* Theorems about Negotiation for every set of missions, bids,             *)
(* counter-offers and workers and any values of the limits; then, of one    *)
(* worker beside the scheduler.                                            *)
(***************************************************************************)
EXTENDS Negotiation, FiniteSetTheorems, TLAPS

-----------------------------------------------------------------------------
(* The requests in flight.                                                 *)

LEMMA TaskFields ==
    ASSUME TypeOK, NEW w \in Workers
    PROVE  /\ task[w].kind \in {"ownerCancel", "expireOffers", "archive", "cancel"}
                  => task[w].job \in Jobs
           /\ task[w].kind = "withdraw" => task[w].offer \in Offers /\ task[w].price \in Nat
           /\ task[w].kind \in {"rejectCounter", "acceptCounter"} => task[w].counter \in Counters
           /\ task[w].kind = "acceptCounter" => task[w].status \in OfferStatus
           /\ task[w].kind = "cancel" => /\ task[w].to \in JobStatus
                                         /\ task[w].bids \subseteq Offers
                                         /\ task[w].price \in Nat
<1>1. task[w] \in Task
  BY DEF TypeOK
<1>2. QED
  BY <1>1 DEF Task, Idle

LEMMA RequestsAreTasks ==
    /\ Idle \in Task
    /\ \A j \in Jobs :
          /\ \A k \in {"ownerCancel", "expireOffers", "archive"} : [kind |-> k, job |-> j] \in Task
          /\ \A t \in Transporters : [kind |-> "bid", by |-> t, job |-> j] \in Task
          /\ \A st \in JobStatus, b \in SUBSET Offers, p \in Nat :
                [kind |-> "cancel", job |-> j, to |-> st, bids |-> b, price |-> p] \in Task
    /\ \A o \in Offers :
          /\ \A p \in Nat : [kind |-> "withdraw", offer |-> o, price |-> p] \in Task
          /\ [kind |-> "propose", offer |-> o] \in Task
    /\ \A c \in Counters :
          /\ [kind |-> "rejectCounter", counter |-> c] \in Task
          /\ \A st \in OfferStatus :
                [kind |-> "acceptCounter", counter |-> c, status |-> st] \in Task
BY DEF Task

LEMMA ServeType ==
    ASSUME TypeOK, NEW w \in Workers, NEW request \in Task, Serve(w, request)
    PROVE  task' \in [Workers -> Task]
BY DEF TypeOK, Serve

LEMMA AnswerType ==
    ASSUME TypeOK, NEW w \in Workers, Answer(w)
    PROVE  task' \in [Workers -> Task]
BY ServeType, RequestsAreTasks DEF Answer

-----------------------------------------------------------------------------
(* Typing.                                                                 *)

LEMMA InitType == Init => TypeOK
<1>1. NotBooked \in Booking
  BY DEF Booking
<1>2. Resting \in Sweep
  BY DEF Resting, Sweep
<1> SUFFICES ASSUME Init PROVE TypeOK
  OBVIOUS
<1>3. /\ job \in [Jobs -> JobStatus]
      /\ offer \in [Offers -> OfferStatus]
      /\ counter \in [Counters -> CounterStatus]
  BY DEF Init, JobStatus, OfferStatus, CounterStatus
<1>4. /\ price \in [Offers -> Nat]
      /\ booking \in [Jobs -> Booking]
      /\ task \in [Workers -> Task]
  BY <1>1, NegotiationAssumption, RequestsAreTasks DEF Init
<1>5. QED
  BY <1>2, <1>3, <1>4 DEF Init, TypeOK

LEMMA AskType ==
    ASSUME TypeOK, NEW w \in Workers, NEW request \in Task, Ask(w, request)
    PROVE  TypeOK'
BY ServeType DEF TypeOK, Ask, rows, bids

LEMMA ReceiveType ==
    ASSUME TypeOK, NEW w \in Workers, Receive(w)
    PROVE  TypeOK'
<1> USE NegotiationAssumption
<1>1. CASE \E o \in Offers : WithdrawRead(w, o) \/ ProposeRead(w, o)
  <2>1. \A o \in Offers : price[o] \in Nat
    BY DEF TypeOK
  <2>2. QED
    BY <1>1, <2>1, AskType, RequestsAreTasks DEF WithdrawRead, ProposeRead
<1>2. CASE \E o \in Offers : AcceptOffer(w, o)
  <2>1. \A o \in Offers : BookingFor(o) \in Booking
    BY DEF TypeOK, BookingFor, Booking
  <2>2. QED
    BY <1>2, <2>1 DEF TypeOK, AcceptOffer, Mark, OfferStatus, JobStatus
<1>3. CASE \E o \in Offers : TransporterCancelRead(w, o)
  <2>1. \A o \in Offers : price[o] \in Nat /\ OfferJob[o] \in Jobs /\ {o} \in SUBSET Offers
    BY DEF TypeOK
  <2>2. QED
    BY <1>3, <2>1, AskType, RequestsAreTasks DEF TransporterCancelRead, JobStatus
<1>4. CASE \E c \in Counters : RejectCounterRead(w, c) \/ AcceptCounterRead(w, c)
  <2>1. \A c \in Counters : offer[CounterOn[c]] \in OfferStatus
    BY DEF TypeOK
  <2>2. QED
    BY <1>4, <2>1, AskType, RequestsAreTasks DEF RejectCounterRead, AcceptCounterRead
<1>5. CASE \E j \in Jobs : ClientCancelRead(w, j)
  <2>1. \A j \in Jobs : \A o \in AcceptedBids(j) : price[o] \in Nat /\ {o} \in SUBSET Offers
    BY DEF TypeOK, AcceptedBids, BidsOf
  <2>2. QED
    BY <1>5, <2>1, AskType, RequestsAreTasks DEF ClientCancelRead, JobStatus
<1>6. CASE \E j \in Jobs : \/ OwnerCancelRead(w, j) \/ ArchiveRead(w, j)
                           \/ \E t \in Transporters : BidRead(w, t, j)
  BY <1>6, AskType, RequestsAreTasks DEF OwnerCancelRead, ArchiveRead, BidRead
<1>7. QED
  BY <1>1, <1>2, <1>3, <1>4, <1>5, <1>6 DEF Receive

LEMMA ProceedType ==
    ASSUME TypeOK, NEW w \in Workers, Proceed(w)
    PROVE  TypeOK'
<1> USE NegotiationAssumption
<1>1. CASE BidSave(w)
  BY <1>1, AnswerType DEF TypeOK, BidSave, Mark, OfferStatus
<1>2. CASE WithdrawSave(w)
  BY <1>2, AnswerType, TaskFields DEF TypeOK, WithdrawSave, OfferStatus
<1>3. CASE ProposeSave(w)
  BY <1>3, AnswerType DEF TypeOK, ProposeSave, CounterStatus, bids
<1>4. CASE RejectCounterSave(w)
  BY <1>4, AnswerType DEF TypeOK, RejectCounterSave, CounterStatus, bids
<1>5. CASE AcceptCounterSave(w)
  <2>1. task[w].status \in OfferStatus /\ CounterPrice[task[w].counter] \in Nat
    BY <1>5, TaskFields DEF AcceptCounterSave
  <2>2. QED
    BY <1>5, <2>1, AnswerType DEF TypeOK, AcceptCounterSave, AgreedTo, CounterStatus
<1>6. CASE CancelSave(w)
  <2>1. task[w].to \in JobStatus /\ task[w].price \in Nat
    BY <1>6, TaskFields DEF CancelSave
  <2>2. QED
    BY <1>6, <2>1, AnswerType
       DEF TypeOK, CancelSave, Mark, WithoutBooking, OfferStatus, Booking
<1>7. CASE OwnerCancelSave(w)
  <2>1. task[w].job \in Jobs
    BY <1>7, TaskFields DEF OwnerCancelSave
  <2>2. task' \in [Workers -> Task]
    BY <1>7, <2>1, ServeType, RequestsAreTasks DEF OwnerCancelSave
  <2>3. QED
    BY <1>7, <2>2 DEF TypeOK, OwnerCancelSave, JobStatus, bids
<1>8. CASE ExpireOffers(w)
  BY <1>8, AnswerType DEF TypeOK, ExpireOffers, Mark, OfferStatus
<1>9. CASE ArchiveSave(w)
  BY <1>9, AnswerType DEF TypeOK, ArchiveSave, JobStatus, bids
<1>10. QED
  BY <1>1, <1>2, <1>3, <1>4, <1>5, <1>6, <1>7, <1>8, <1>9 DEF Proceed

LEMMA SchedulerType ==
    ASSUME TypeOK, Scheduler \/ \E o \in Offers : DatePasses(o)
    PROVE  TypeOK'
<1>1. CASE \E o \in Offers : DatePasses(o)
  BY <1>1 DEF TypeOK, DatePasses, rows, bids
<1>2. CASE SweepList
  <2>1. sweep' \in Sweep
    BY <1>2 DEF TypeOK, SweepList, Sweep, Pending
  <2>2. QED
    BY <1>2, <2>1 DEF TypeOK, SweepList, rows, bids
<1>3. CASE SweepOffers
  <2>1. sweep' \in Sweep
    BY <1>3 DEF TypeOK, SweepOffers, Sweep
  <2>2. QED
    BY <1>3, <2>1 DEF TypeOK, SweepOffers, Mark, OfferStatus
<1>4. CASE SweepCounters
  BY <1>4 DEF TypeOK, SweepCounters, Sweep, Resting, CounterStatus, bids
<1>5. QED
  BY <1>1, <1>2, <1>3, <1>4 DEF Scheduler

LEMMA TypeStep == TypeOK /\ [Next]_vars => TypeOK'
<1>1. ASSUME TypeOK, UNCHANGED vars
      PROVE  TypeOK'
  BY <1>1 DEF TypeOK, vars, rows, bids
<1>2. QED
  BY <1>1, ReceiveType, ProceedType, SchedulerType DEF Next

(* Every column and every request in flight keeps a value of its type.     *)
THEOREM NegotiationTypes == Spec => []TypeOK
<1>1. QED
  BY InitType, TypeStep, PTL DEF Spec

-----------------------------------------------------------------------------
(* The inductive invariant: every price that is stored, or held by a       *)
(* request that will store it, was asked by the bid's author or proposed   *)
(* on that bid.  A counter-offer being accepted exists, so its price was   *)
(* proposed.                                                               *)

PricesOffered == \A o \in Offers : price[o] \in Offered(o)
HeldPricesOffered ==
    \A w \in Workers :
        /\ task[w].kind = "withdraw" => task[w].price \in Offered(task[w].offer)
        /\ task[w].kind = "cancel" => \A o \in task[w].bids : task[w].price \in Offered(o)
        /\ task[w].kind = "acceptCounter" => counter[task[w].counter] # "ABSENT"

IInv == TypeOK /\ PricesOffered /\ HeldPricesOffered /\ BookedPriceWasOffered

(* A counter-offer is never deleted, so what was offered stays offered.    *)
CountersStay == \A c \in Counters : counter[c] # "ABSENT" => counter'[c] # "ABSENT"

LEMMA CounterStep ==
    ASSUME TypeOK, Next
    PROVE  CountersStay
<1>1. CASE UNCHANGED counter
  BY <1>1 DEF CountersStay
<1>2. ASSUME NEW w \in Workers, Receive(w)
      PROVE  UNCHANGED counter
  BY <1>2
     DEF Receive, WithdrawRead, ProposeRead, AcceptOffer, TransporterCancelRead,
         RejectCounterRead, AcceptCounterRead, ClientCancelRead, OwnerCancelRead,
         ArchiveRead, BidRead, Ask, rows
<1>3. ASSUME NEW w \in Workers, Proceed(w)
      PROVE  CountersStay
  <2>1. CASE ProposeSave(w) \/ RejectCounterSave(w) \/ AcceptCounterSave(w)
    BY <2>1 DEF ProposeSave, RejectCounterSave, AcceptCounterSave, AgreedTo, CountersStay, TypeOK
  <2>2. CASE UNCHANGED counter
    BY <1>1, <2>2
  <2>3. QED
    BY <1>3, <2>1, <2>2
       DEF Proceed, BidSave, WithdrawSave, CancelSave, OwnerCancelSave, ExpireOffers, ArchiveSave
<1>4. CASE Scheduler \/ \E o \in Offers : DatePasses(o)
  BY <1>4 DEF Scheduler, SweepList, SweepOffers, SweepCounters, DatePasses, rows,
              CountersStay, TypeOK
<1>5. QED
  BY <1>2, <1>1, <1>3, <1>4 DEF Next

LEMMA OfferedGrows ==
    ASSUME CountersStay, NEW o
    PROVE  Offered(o) \subseteq Offered(o)'
BY DEF CountersStay, Offered, CountersOf

LEMMA PriceStep ==
    ASSUME IInv, Next, NEW o \in Offers
    PROVE  price'[o] \in Offered(o)
<1> USE NegotiationAssumption
<1>1. CASE UNCHANGED price
  BY <1>1 DEF IInv, PricesOffered
<1>2. ASSUME NEW w \in Workers, Receive(w)
      PROVE  UNCHANGED price
  BY <1>2
     DEF Receive, WithdrawRead, ProposeRead, AcceptOffer, TransporterCancelRead,
         RejectCounterRead, AcceptCounterRead, ClientCancelRead, OwnerCancelRead,
         ArchiveRead, BidRead, Ask, rows, bids
<1>3. ASSUME NEW w \in Workers, Proceed(w)
      PROVE  price'[o] \in Offered(o)
  <2>1. CASE WithdrawSave(w)
    BY <2>1 DEF WithdrawSave, IInv, PricesOffered, HeldPricesOffered, TypeOK
  <2>2. CASE AcceptCounterSave(w)
    <3> DEFINE c == task[w].counter
    <3>1. c \in CountersOf(CounterOn[c])
      BY <2>2, TaskFields DEF AcceptCounterSave, IInv, HeldPricesOffered, CountersOf
    <3>2. CounterPrice[c] \in Offered(CounterOn[c])
      BY <3>1 DEF Offered
    <3>3. price'[o] = price[o] \/ (o = CounterOn[c] /\ price'[o] = CounterPrice[c])
      BY <2>2 DEF AcceptCounterSave, IInv, TypeOK
    <3>4. QED
      BY <3>2, <3>3 DEF IInv, PricesOffered
  <2>3. CASE CancelSave(w)
    BY <2>3 DEF CancelSave, IInv, PricesOffered, HeldPricesOffered
  <2>4. CASE UNCHANGED price
    BY <1>1, <2>4
  <2>5. QED
    BY <1>3, <2>1, <2>2, <2>3, <2>4
       DEF Proceed, BidSave, ProposeSave, RejectCounterSave, OwnerCancelSave, ExpireOffers,
           ArchiveSave, bids
<1>4. CASE Scheduler \/ \E b \in Offers : DatePasses(b)
  BY <1>1, <1>4 DEF Scheduler, SweepList, SweepOffers, SweepCounters, DatePasses, rows, bids
<1>5. QED
  BY <1>1, <1>2, <1>3, <1>4 DEF Next

(* What a request may hold after a step, given what was offered before it. *)
Holds(t) ==
    /\ t.kind = "withdraw" => t.price \in Offered(t.offer)
    /\ t.kind = "cancel" => \A o \in t.bids : t.price \in Offered(o)
    /\ t.kind = "acceptCounter" => counter[t.counter] # "ABSENT"

LEMMA HeldStep ==
    ASSUME IInv, Next, NEW w \in Workers
    PROVE  Holds(task'[w])
<1> USE NegotiationAssumption
<1>1. Holds(task[w])
  BY DEF IInv, HeldPricesOffered, Holds
<1>2. Holds(Idle)
  BY DEF Holds, Idle
<1>3. ASSUME NEW x \in Workers, NEW t, Serve(x, t), Holds(t)
      PROVE  Holds(task'[w])
  <2>1. task'[w] = t \/ task'[w] = task[w]
    BY <1>3 DEF Serve, IInv, TypeOK
  <2>2. QED
    BY <1>1, <1>3, <2>1
<1>4. ASSUME NEW x \in Workers, Receive(x)
      PROVE  Holds(task'[w])
  <2>1. ASSUME NEW o \in Offers, WithdrawRead(x, o)
        PROVE  Holds(task'[w])
    <3>1. Holds([kind |-> "withdraw", offer |-> o, price |-> price[o]])
      BY DEF Holds, IInv, PricesOffered
    <3>2. QED
      BY <1>3, <2>1, <3>1 DEF WithdrawRead, Ask
  <2>2. ASSUME NEW o \in Offers, ProposeRead(x, o)
        PROVE  Holds(task'[w])
    <3>1. Holds([kind |-> "propose", offer |-> o])
      BY DEF Holds
    <3>2. QED
      BY <1>3, <2>2, <3>1 DEF ProposeRead, Ask
  <2>3. ASSUME NEW j \in Jobs, NEW st, NEW o \in Offers
        PROVE  Holds([kind |-> "cancel", job |-> j, to |-> st, bids |-> {o}, price |-> price[o]])
    BY DEF Holds, IInv, PricesOffered
  <2>4. ASSUME NEW o \in Offers, TransporterCancelRead(x, o)
        PROVE  Holds(task'[w])
    BY <1>3, <2>3, <2>4 DEF TransporterCancelRead, Ask
  <2>5. ASSUME NEW j \in Jobs, ClientCancelRead(x, j)
        PROVE  Holds(task'[w])
    <3>1. Holds([kind |-> "cancel", job |-> j, to |-> "CANCELLED", bids |-> {}, price |-> 0])
      BY DEF Holds
    <3>2. AcceptedBids(j) \subseteq Offers
      BY DEF AcceptedBids, BidsOf
    <3>3. QED
      BY <1>3, <2>3, <2>5, <3>1, <3>2 DEF ClientCancelRead, Ask
  <2>6. ASSUME NEW c \in Counters, RejectCounterRead(x, c) \/ AcceptCounterRead(x, c)
        PROVE  Holds(task'[w])
    <3>1. /\ Holds([kind |-> "rejectCounter", counter |-> c])
          /\ counter[c] = "PENDING" =>
                Holds([kind |-> "acceptCounter", counter |-> c, status |-> offer[CounterOn[c]]])
      BY DEF Holds
    <3>2. QED
      BY <1>3, <2>6, <3>1 DEF RejectCounterRead, AcceptCounterRead, Ask
  <2>7. ASSUME NEW j \in Jobs, OwnerCancelRead(x, j) \/ ArchiveRead(x, j)
        PROVE  Holds(task'[w])
    <3>1. /\ Holds([kind |-> "ownerCancel", job |-> j])
          /\ Holds([kind |-> "archive", job |-> j])
      BY DEF Holds
    <3>2. QED
      BY <1>3, <2>7, <3>1 DEF OwnerCancelRead, ArchiveRead, Ask
  <2>8. ASSUME NEW j \in Jobs, NEW t \in Transporters, BidRead(x, t, j)
        PROVE  Holds(task'[w])
    <3>1. Holds([kind |-> "bid", by |-> t, job |-> j])
      BY DEF Holds
    <3>2. QED
      BY <1>3, <2>8, <3>1 DEF BidRead, Ask
  <2>9. ASSUME NEW o \in Offers, AcceptOffer(x, o)
        PROVE  Holds(task'[w])
    BY <1>1, <2>9 DEF AcceptOffer
  <2>10. QED
    BY <1>4, <2>1, <2>2, <2>4, <2>5, <2>6, <2>7, <2>8, <2>9 DEF Receive
<1>5. ASSUME NEW x \in Workers, Proceed(x)
      PROVE  Holds(task'[w])
  <2>1. CASE OwnerCancelSave(x)
    <3>1. Holds([kind |-> "expireOffers", job |-> task[x].job])
      BY DEF Holds
    <3>2. QED
      BY <1>3, <2>1, <3>1 DEF OwnerCancelSave
  <2>2. CASE Answer(x)
    BY <1>2, <1>3, <2>2 DEF Answer
  <2>3. QED
    BY <1>5, <2>1, <2>2
       DEF Proceed, BidSave, WithdrawSave, ProposeSave, RejectCounterSave, AcceptCounterSave,
           CancelSave, ExpireOffers, ArchiveSave
<1>6. CASE Scheduler \/ \E o \in Offers : DatePasses(o)
  BY <1>1, <1>6 DEF Scheduler, SweepList, SweepOffers, SweepCounters, DatePasses
<1>7. QED
  BY <1>4, <1>5, <1>6 DEF Next

LEMMA BookedStep ==
    ASSUME IInv, Next, NEW j \in Jobs
    PROVE  \A o \in booking'[j].of : OfferJob[o] = j /\ booking'[j].at \in Offered(o)
<1> USE NegotiationAssumption
<1>1. CASE booking'[j] = booking[j]
  BY <1>1 DEF IInv, BookedPriceWasOffered
<1>2. ASSUME NEW w \in Workers, Receive(w)
      PROVE  \A o \in booking'[j].of : OfferJob[o] = j /\ booking'[j].at \in Offered(o)
  <2>1. ASSUME NEW o \in Offers, AcceptOffer(w, o)
        PROVE  booking'[j] = booking[j] \/ (j = OfferJob[o] /\ booking'[j] = BookingFor(o))
    BY <2>1 DEF AcceptOffer, IInv, TypeOK
  <2>2. ASSUME NEW o \in Offers
        PROVE  BookingFor(o).of = {o} /\ BookingFor(o).at \in Offered(o)
    BY DEF BookingFor, IInv, PricesOffered
  <2>3. CASE \E o \in Offers : AcceptOffer(w, o)
    BY <1>1, <2>1, <2>2, <2>3
  <2>4. CASE UNCHANGED booking
    BY <1>1, <2>4
  <2>5. QED
    BY <1>2, <2>3, <2>4
       DEF Receive, WithdrawRead, ProposeRead, TransporterCancelRead, RejectCounterRead,
           AcceptCounterRead, ClientCancelRead, OwnerCancelRead, ArchiveRead, BidRead, Ask, rows
<1>3. ASSUME NEW w \in Workers, Proceed(w)
      PROVE  \A o \in booking'[j].of : OfferJob[o] = j /\ booking'[j].at \in Offered(o)
  <2>1. CASE CancelSave(w)
    <3>1. booking'[j] = booking[j] \/ booking'[j] = NotBooked
      BY <2>1 DEF CancelSave, WithoutBooking, IInv, TypeOK
    <3>2. QED
      BY <1>1, <3>1 DEF NotBooked
  <2>2. CASE UNCHANGED booking
    BY <1>1, <2>2
  <2>3. QED
    BY <1>3, <2>1, <2>2
       DEF Proceed, BidSave, WithdrawSave, ProposeSave, RejectCounterSave, AcceptCounterSave,
           OwnerCancelSave, ExpireOffers, ArchiveSave
<1>4. CASE Scheduler \/ \E o \in Offers : DatePasses(o)
  BY <1>1, <1>4 DEF Scheduler, SweepList, SweepOffers, SweepCounters, DatePasses, rows
<1>5. QED
  BY <1>2, <1>3, <1>4 DEF Next

LEMMA InitIInv == Init => IInv
<1> SUFFICES ASSUME Init PROVE IInv
  OBVIOUS
<1>1. TypeOK
  BY InitType
<1>2. PricesOffered
  BY DEF Init, PricesOffered, Offered
<1>3. HeldPricesOffered /\ BookedPriceWasOffered
  BY DEF Init, HeldPricesOffered, BookedPriceWasOffered, Idle, NotBooked
<1>4. QED
  BY <1>1, <1>2, <1>3 DEF IInv

LEMMA NextIInv == IInv /\ [Next]_vars => IInv'
<1> SUFFICES ASSUME IInv, [Next]_vars PROVE IInv'
  OBVIOUS
<1>1. TypeOK'
  BY TypeStep DEF IInv
<1>2. CASE Next
  <2>1. CountersStay
    BY <1>2, CounterStep DEF IInv
  <2>2. \A o : Offered(o) \subseteq Offered(o)'
    BY <2>1, OfferedGrows
  <2>3. PricesOffered'
    BY <1>2, <2>2, PriceStep DEF PricesOffered
  <2>4. HeldPricesOffered'
    <3> SUFFICES ASSUME NEW w \in Workers
                 PROVE  /\ task'[w].kind = "withdraw" =>
                              task'[w].price \in Offered(task[w].offer)'
                        /\ task'[w].kind = "cancel" =>
                              \A o \in task'[w].bids : task'[w].price \in Offered(o)'
                        /\ task'[w].kind = "acceptCounter" =>
                              counter'[task'[w].counter] # "ABSENT"
      BY DEF HeldPricesOffered
    <3>1. Holds(task'[w])
      BY <1>2, HeldStep
    <3>2. task'[w].kind = "acceptCounter" => task'[w].counter \in Counters
      <4>1. task'[w] \in Task
        BY <1>1 DEF TypeOK
      <4>2. QED
        BY <4>1 DEF Task, Idle
    <3>3. QED
      BY <2>1, <3>1, <3>2 DEF Holds, CountersStay, Offered, CountersOf
  <2>5. BookedPriceWasOffered'
    BY <1>2, <2>2, BookedStep DEF BookedPriceWasOffered
  <2>6. QED
    BY <1>1, <2>3, <2>4, <2>5 DEF IInv
<1>3. CASE UNCHANGED vars
  BY <1>1, <1>3 DEF IInv, PricesOffered, HeldPricesOffered, BookedPriceWasOffered, Offered,
                    CountersOf, vars, rows, bids
<1>4. QED
  BY <1>2, <1>3

(* However the requests interleave, the client is booked at a price asked  *)
(* or proposed on the very bid he is booked for.                           *)
THEOREM BookedAtAnOfferedPrice == Spec => []BookedPriceWasOffered
<1>1. IInv => BookedPriceWasOffered
  BY DEF IInv
<1>2. QED
  BY <1>1, InitIInv, NextIInv, PTL DEF Spec
-----------------------------------------------------------------------------
(* One worker serves the requests one by one, beside the scheduler that     *)
(* expires bids and counter-offers: the inductive invariant.               *)

Agrees(j) == AcceptedBids(j) = booking[j].of /\ (job[j] = "MATCHED" <=> booking[j] # NotBooked)

Agreed(o) ==
    \/ price[o] = AskedPrice[o]
    \/ \E c \in CountersOf(o) : counter[c] = "ACCEPTED" /\ price[o] = CounterPrice[c]

(* What a request has read still holds when it saves, as far as these      *)
(* properties go: the scheduler only expires what is pending.              *)
Reads(t) ==
    /\ t.kind = "withdraw" => offer[t.offer] # "ACCEPTED" /\ t.price = price[t.offer]
    /\ t.kind = "rejectCounter" => counter[t.counter] # "ACCEPTED"
    /\ t.kind = "acceptCounter" =>
          (t.status = "ACCEPTED" <=> offer[CounterOn[t.counter]] = "ACCEPTED")
    /\ t.kind = "cancel" =>
          /\ t.to # "MATCHED" /\ AcceptedBids(t.job) = t.bids
          /\ \A o \in t.bids : t.price = price[o]
    /\ t.kind \in {"ownerCancel", "archive"} => job[t.job] = "PUBLISHED"
    /\ t.kind = "expireOffers" => job[t.job] = "CANCELLED"

AloneInv ==
    /\ TypeOK
    /\ \A j \in Jobs : Agrees(j)
    /\ \A o \in Offers : Agreed(o)
    /\ \A w \in Workers : Reads(task[w])

LEMMA AloneInit == Init => AloneInv
<1> SUFFICES ASSUME Init PROVE AloneInv
  OBVIOUS
<1>1. TypeOK
  BY InitType
<1>2. \A j \in Jobs : Agrees(j)
  BY DEF Init, Agrees, AcceptedBids, BidsOf, NotBooked
<1>3. \A o \in Offers : Agreed(o)
  BY DEF Init, Agreed
<1>4. \A w \in Workers : Reads(task[w])
  BY DEF Init, Reads, Idle
<1>5. QED
  BY <1>1, <1>2, <1>3, <1>4 DEF AloneInv

(* The accepted bids only depend on which bids are ACCEPTED.               *)
SameAccepted == \A o \in Offers : offer'[o] = "ACCEPTED" <=> offer[o] = "ACCEPTED"

LEMMA AcceptedKept ==
    ASSUME SameAccepted
    PROVE  \A j : AcceptedBids(j)' = AcceptedBids(j)
BY DEF SameAccepted, AcceptedBids, BidsOf

LEMMA AgreesKept ==
    ASSUME AloneInv, SameAccepted, UNCHANGED booking,
           \A j \in Jobs : job'[j] = "MATCHED" <=> job[j] = "MATCHED"
    PROVE  \A j \in Jobs : Agrees(j)'
BY AcceptedKept DEF AloneInv, Agrees

-----------------------------------------------------------------------------
(* Mission, bids and booking.                                              *)

LEMMA AcceptKeeps ==
    ASSUME AloneInv, NEW w \in Workers, NEW o \in Offers, AcceptOffer(w, o)
    PROVE  \A k \in Jobs : Agrees(k)'
<1> USE NegotiationAssumption
<1>0. TypeOK /\ \A k \in Jobs : Agrees(k)
  BY DEF AloneInv
<1>1. PICK j \in Jobs : j = OfferJob[o]
  OBVIOUS
<1>2. /\ job[j] = "PUBLISHED"
      /\ offer' = [Mark(BidsOf(j), "REJECTED") EXCEPT ![o] = "ACCEPTED"]
      /\ job' = [job EXCEPT ![j] = "MATCHED"]
      /\ booking' = [booking EXCEPT ![j] = IF @ = NotBooked THEN BookingFor(o) ELSE @]
  BY <1>1 DEF AcceptOffer
<1>3. booking[j] = NotBooked
  BY <1>0, <1>2 DEF Agrees
<1>4. \A k \in Jobs : /\ job'[k] = IF k = j THEN "MATCHED" ELSE job[k]
                      /\ booking'[k] = IF k = j THEN BookingFor(o) ELSE booking[k]
  BY <1>0, <1>2, <1>3 DEF TypeOK
<1>5. \A x \in Offers : offer'[x] = "ACCEPTED" <=>
                            x = o \/ (OfferJob[x] # j /\ offer[x] = "ACCEPTED")
  BY <1>0, <1>2 DEF Mark, BidsOf, TypeOK
<1>6. Agrees(j)'
  <2>1. AcceptedBids(j)' = {o}
    BY <1>1, <1>5 DEF AcceptedBids, BidsOf
  <2>2. BookingFor(o).of = {o} /\ BookingFor(o) # NotBooked
    BY DEF BookingFor, NotBooked
  <2>3. QED
    BY <1>4, <2>1, <2>2 DEF Agrees
<1>7. ASSUME NEW k \in Jobs, k # j PROVE Agrees(k)'
  <2>1. AcceptedBids(k)' = AcceptedBids(k)
    BY <1>1, <1>5, <1>7 DEF AcceptedBids, BidsOf
  <2>2. QED
    BY <1>0, <1>4, <1>7, <2>1 DEF Agrees
<1>8. QED
  BY <1>6, <1>7

LEMMA CancelKeeps ==
    ASSUME AloneInv, NEW w \in Workers, CancelSave(w)
    PROVE  \A k \in Jobs : Agrees(k)'
<1>0. TypeOK /\ (\A k \in Jobs : Agrees(k)) /\ Reads(task[w])
  BY DEF AloneInv
<1>1. PICK j \in Jobs, left \in SUBSET Offers : j = task[w].job /\ left = task[w].bids
  BY <1>0, TaskFields DEF CancelSave
<1>2. AcceptedBids(j) = left /\ task[w].to # "MATCHED"
  BY <1>0, <1>1 DEF CancelSave, Reads
<1>3. /\ offer' = Mark(left, "WITHDRAWN")
      /\ job' = [job EXCEPT ![j] = task[w].to]
      /\ booking' = [booking EXCEPT ![j] = NotBooked]
  BY <1>1 DEF CancelSave, WithoutBooking
<1>4. \A k \in Jobs : /\ job'[k] = IF k = j THEN task[w].to ELSE job[k]
                      /\ booking'[k] = IF k = j THEN NotBooked ELSE booking[k]
  BY <1>0, <1>3 DEF TypeOK
<1>5. \A x \in Offers : offer'[x] = "ACCEPTED" <=> OfferJob[x] # j /\ offer[x] = "ACCEPTED"
  BY <1>2, <1>3 DEF Mark, AcceptedBids, BidsOf
<1>6. Agrees(j)'
  <2>1. AcceptedBids(j)' = {}
    BY <1>5 DEF AcceptedBids, BidsOf
  <2>2. NotBooked.of = {}
    BY DEF NotBooked
  <2>3. QED
    BY <1>2, <1>4, <2>1, <2>2 DEF Agrees
<1>7. ASSUME NEW k \in Jobs, k # j PROVE Agrees(k)'
  <2>1. AcceptedBids(k)' = AcceptedBids(k)
    BY <1>5, <1>7 DEF AcceptedBids, BidsOf
  <2>2. QED
    BY <1>0, <1>4, <1>7, <2>1 DEF Agrees
<1>8. QED
  BY <1>6, <1>7

LEMMA AgreesStep ==
    ASSUME AloneInv, Next
    PROVE  \A k \in Jobs : Agrees(k)'
<1> USE NegotiationAssumption
<1>0. TypeOK /\ (\A k \in Jobs : Agrees(k)) /\ \A w \in Workers : Reads(task[w])
  BY DEF AloneInv
<1>1. CASE UNCHANGED <<job, offer, booking>>
  BY <1>1, AgreesKept DEF SameAccepted
<1>2. ASSUME NEW w \in Workers, Receive(w)
      PROVE  \A k \in Jobs : Agrees(k)'
  <2>1. CASE \E o \in Offers : AcceptOffer(w, o)
    BY <2>1, AcceptKeeps
  <2>2. CASE UNCHANGED rows
    BY <1>1, <2>2 DEF rows, bids
  <2>3. QED
    BY <1>2, <2>1, <2>2
       DEF Receive, WithdrawRead, ProposeRead, TransporterCancelRead, RejectCounterRead,
           AcceptCounterRead, ClientCancelRead, OwnerCancelRead, ArchiveRead, BidRead, Ask
<1>3. ASSUME NEW w \in Workers, Proceed(w)
      PROVE  \A k \in Jobs : Agrees(k)'
  <2>1. CASE BidSave(w)
    BY <2>1, AgreesKept DEF BidSave, Mark, SameAccepted
  <2>2. CASE WithdrawSave(w)
    <3>1. /\ offer[task[w].offer] # "ACCEPTED"
          /\ offer' = [offer EXCEPT ![task[w].offer] = "WITHDRAWN"]
      BY <1>0, <2>2 DEF WithdrawSave, Reads
    <3>2. SameAccepted
      BY <1>0, <3>1 DEF SameAccepted, TypeOK
    <3>3. QED
      BY <2>2, <3>2, AgreesKept DEF WithdrawSave
  <2>3. CASE AcceptCounterSave(w)
    <3> DEFINE o == CounterOn[task[w].counter]
    <3>1. (task[w].status = "ACCEPTED" <=> offer[o] = "ACCEPTED")
              /\ offer' = [offer EXCEPT ![o] = task[w].status]
      BY <1>0, <2>3 DEF AcceptCounterSave, Reads
    <3> HIDE DEF o
    <3>2. SameAccepted
      BY <1>0, <3>1 DEF SameAccepted, TypeOK
    <3>3. QED
      BY <2>3, <3>2, AgreesKept DEF AcceptCounterSave
  <2>4. CASE CancelSave(w)
    BY <2>4, CancelKeeps
  <2>5. CASE OwnerCancelSave(w) \/ ArchiveSave(w)
    <3>1. /\ task[w].job \in Jobs /\ job[task[w].job] = "PUBLISHED"
          /\ job' = [job EXCEPT ![task[w].job] = "CANCELLED"] /\ UNCHANGED <<offer, booking>>
      BY <1>0, <2>5, TaskFields DEF OwnerCancelSave, ArchiveSave, Reads, bids
    <3>2. \A k \in Jobs : job'[k] = "MATCHED" <=> job[k] = "MATCHED"
      BY <1>0, <3>1 DEF TypeOK
    <3>3. QED
      BY <3>1, <3>2, AgreesKept DEF SameAccepted
  <2>6. CASE ExpireOffers(w)
    <3>1. PICK j \in Jobs : j = task[w].job
      BY <1>0, <2>6, TaskFields DEF ExpireOffers
    <3>2. job[j] = "CANCELLED" /\ offer' = Mark(BidsOf(j), "EXPIRED") /\ UNCHANGED <<job, booking>>
      BY <1>0, <2>6, <3>1 DEF ExpireOffers, Reads
    <3>3. AcceptedBids(j) = {}
      BY <1>0, <3>2 DEF Agrees, NotBooked
    <3>4. SameAccepted
      BY <3>2, <3>3 DEF SameAccepted, Mark, AcceptedBids, BidsOf
    <3>5. QED
      BY <3>2, <3>4, AgreesKept
  <2>7. CASE ProposeSave(w) \/ RejectCounterSave(w)
    BY <1>1, <2>7 DEF ProposeSave, RejectCounterSave, bids
  <2>8. QED
    BY <1>3, <2>1, <2>2, <2>3, <2>4, <2>5, <2>6, <2>7 DEF Proceed
<1>4. CASE SweepOffers
  BY <1>4, AgreesKept DEF SweepOffers, ExpiringNow, Pending, Mark, SameAccepted
<1>5. CASE SweepList \/ SweepCounters \/ \E o \in Offers : DatePasses(o)
  BY <1>1, <1>5 DEF SweepList, SweepCounters, DatePasses, rows, bids
<1>6. QED
  BY <1>2, <1>3, <1>4, <1>5 DEF Next, Scheduler

-----------------------------------------------------------------------------
(* Prices and counter-offers.                                              *)

(* What has been agreed to stays agreed to.                                *)
LEMMA AcceptedStay ==
    ASSUME AloneInv, Next, NEW c \in Counters, counter[c] = "ACCEPTED"
    PROVE  counter'[c] = "ACCEPTED"
<1>0. TypeOK /\ \A w \in Workers : Reads(task[w])
  BY DEF AloneInv
<1>1. ASSUME NEW w \in Workers, Receive(w)
      PROVE  UNCHANGED counter
  BY <1>1
     DEF Receive, WithdrawRead, ProposeRead, AcceptOffer, TransporterCancelRead,
         RejectCounterRead, AcceptCounterRead, ClientCancelRead, OwnerCancelRead,
         ArchiveRead, BidRead, Ask, rows
<1>2. ASSUME NEW w \in Workers, Proceed(w)
      PROVE  counter'[c] = "ACCEPTED"
  <2>1. CASE ProposeSave(w)
    BY <1>0, <2>1 DEF ProposeSave, TypeOK
  <2>2. CASE RejectCounterSave(w)
    <3>1. counter[task[w].counter] # "ACCEPTED"
      BY <1>0, <2>2 DEF RejectCounterSave, Reads
    <3>2. QED
      BY <1>0, <2>2, <3>1 DEF RejectCounterSave, TypeOK
  <2>3. CASE AcceptCounterSave(w)
    BY <1>0, <2>3 DEF AcceptCounterSave, AgreedTo, TypeOK
  <2>4. CASE UNCHANGED counter
    BY <2>4
  <2>5. QED
    BY <1>2, <2>1, <2>2, <2>3, <2>4
       DEF Proceed, BidSave, WithdrawSave, CancelSave, OwnerCancelSave, ExpireOffers, ArchiveSave
<1>3. CASE Scheduler \/ \E o \in Offers : DatePasses(o)
  BY <1>0, <1>3 DEF Scheduler, SweepList, SweepOffers, SweepCounters, DatePasses, rows, TypeOK
<1>4. QED
  BY <1>1, <1>2, <1>3 DEF Next

LEMMA AgreedStep ==
    ASSUME AloneInv, Next, NEW o \in Offers
    PROVE  Agreed(o)'
<1> USE NegotiationAssumption
<1>0. TypeOK /\ Agreed(o) /\ \A w \in Workers : Reads(task[w])
  BY DEF AloneInv
<1>1. CASE price'[o] = price[o]
  BY <1>0, <1>1, AcceptedStay DEF Agreed, CountersOf
<1>2. ASSUME NEW w \in Workers, Receive(w)
      PROVE  UNCHANGED price
  BY <1>2
     DEF Receive, WithdrawRead, ProposeRead, AcceptOffer, TransporterCancelRead,
         RejectCounterRead, AcceptCounterRead, ClientCancelRead, OwnerCancelRead,
         ArchiveRead, BidRead, Ask, rows, bids
<1>3. ASSUME NEW w \in Workers, Proceed(w)
      PROVE  Agreed(o)'
  <2>1. CASE WithdrawSave(w)
    <3>1. /\ task[w].price = price[task[w].offer]
          /\ price' = [price EXCEPT ![task[w].offer] = task[w].price]
      BY <1>0, <2>1 DEF WithdrawSave, Reads
    <3>2. QED
      BY <1>0, <1>1, <3>1 DEF TypeOK
  <2>2. CASE AcceptCounterSave(w)
    <3>1. PICK c \in Counters : c = task[w].counter
      BY <1>0, <2>2, TaskFields DEF AcceptCounterSave
    <3>2. price' = [price EXCEPT ![CounterOn[c]] = CounterPrice[c]] /\ counter'[c] = "ACCEPTED"
      BY <1>0, <2>2, <3>1 DEF AcceptCounterSave, AgreedTo, TypeOK
    <3>3. CASE o # CounterOn[c]
      BY <1>0, <1>1, <3>2, <3>3 DEF TypeOK
    <3>4. CASE o = CounterOn[c]
      BY <1>0, <3>2, <3>4 DEF Agreed, CountersOf, TypeOK
    <3>5. QED
      BY <3>3, <3>4
  <2>3. CASE CancelSave(w)
    BY <1>0, <1>1, <2>3 DEF CancelSave, Reads
  <2>4. CASE UNCHANGED price
    BY <1>1, <2>4
  <2>5. QED
    BY <1>3, <2>1, <2>2, <2>3, <2>4
       DEF Proceed, BidSave, ProposeSave, RejectCounterSave, OwnerCancelSave, ExpireOffers,
           ArchiveSave, bids
<1>4. CASE Scheduler \/ \E b \in Offers : DatePasses(b)
  BY <1>1, <1>4 DEF Scheduler, SweepList, SweepOffers, SweepCounters, DatePasses, rows, bids
<1>5. QED
  BY <1>1, <1>2, <1>3, <1>4 DEF Next

-----------------------------------------------------------------------------
(* What the request of the one worker has read.                            *)

LEMMA ReadsStep ==
    ASSUME NEW w, Workers = {w}, AloneInv, Next
    PROVE  Reads(task[w])'
<1> USE NegotiationAssumption
<1>1. w \in Workers /\ TypeOK /\ Reads(task[w]) /\ \A j \in Jobs : Agrees(j)
  BY DEF AloneInv
<1>2. CASE task'[w].kind \notin {"withdraw", "rejectCounter", "acceptCounter", "cancel",
                                 "ownerCancel", "archive", "expireOffers"}
  BY <1>2 DEF Reads
<1>3. CASE Receive(w)
  <2>1. CASE \E o \in Offers : AcceptOffer(w, o)
    BY <1>2, <2>1 DEF AcceptOffer, Free, Idle
  <2>2. ASSUME NEW t, Ask(w, t), Reads(t)
        PROVE  Reads(task[w])'
    <3>1. task'[w] = t /\ UNCHANGED <<job, offer, price, counter>>
      BY <1>1, <2>2 DEF Ask, Serve, TypeOK, rows, bids
    <3>2. \A j : AcceptedBids(j)' = AcceptedBids(j)
      BY <3>1 DEF AcceptedBids, BidsOf
    <3>3. QED
      BY <2>2, <3>1, <3>2 DEF Reads
  <2>3. ASSUME NEW t, Ask(w, t), t.kind \in {"bid", "propose"}
        PROVE  Reads(task[w])'
    BY <2>2, <2>3 DEF Reads
  <2>4. ASSUME NEW o \in Offers, WithdrawRead(w, o)
        PROVE  Reads(task[w])'
    BY <2>2, <2>4 DEF WithdrawRead, Reads
  <2>5. ASSUME NEW j \in Jobs, OwnerCancelRead(w, j) \/ ArchiveRead(w, j)
        PROVE  Reads(task[w])'
    BY <2>2, <2>5 DEF OwnerCancelRead, ArchiveRead, Reads
  <2>6. ASSUME NEW c \in Counters, RejectCounterRead(w, c) \/ AcceptCounterRead(w, c)
        PROVE  Reads(task[w])'
    BY <2>2, <2>6 DEF RejectCounterRead, AcceptCounterRead, Reads
  <2>7. ASSUME NEW j \in Jobs, NEW o \in AcceptedBids(j)
        PROVE  AcceptedBids(j) = {o}
    BY <1>1, <2>7 DEF Agrees, TypeOK, Booking, NotBooked
  <2>8. ASSUME NEW o \in Offers, TransporterCancelRead(w, o)
        PROVE  Reads(task[w])'
    <3>1. OfferJob[o] \in Jobs /\ o \in AcceptedBids(OfferJob[o])
      BY <2>8 DEF TransporterCancelRead, AcceptedBids, BidsOf
    <3>2. AcceptedBids(OfferJob[o]) = {o}
      BY <2>7, <3>1
    <3>3. QED
      BY <2>2, <2>8, <3>2 DEF TransporterCancelRead, Reads
  <2>9. ASSUME NEW j \in Jobs, ClientCancelRead(w, j)
        PROVE  Reads(task[w])'
    BY <2>2, <2>7, <2>9 DEF ClientCancelRead, Reads
  <2>10. QED
    BY <1>3, <2>1, <2>3, <2>4, <2>5, <2>6, <2>8, <2>9 DEF Receive, ProposeRead, BidRead
<1>4. CASE Proceed(w)
  <2>1. CASE OwnerCancelSave(w)
    <3>1. task[w].job \in Jobs
      BY <1>1, <2>1, TaskFields DEF OwnerCancelSave
    <3>2. /\ task'[w] = [kind |-> "expireOffers", job |-> task[w].job]
          /\ job'[task[w].job] = "CANCELLED"
      BY <1>1, <2>1, <3>1 DEF OwnerCancelSave, Serve, TypeOK
    <3>3. QED
      BY <3>2 DEF Reads
  <2>2. CASE ~OwnerCancelSave(w)
    BY <1>1, <1>2, <1>4, <2>2
       DEF Proceed, BidSave, WithdrawSave, ProposeSave, RejectCounterSave, AcceptCounterSave,
           CancelSave, ExpireOffers, ArchiveSave, Answer, Serve, Idle, TypeOK
  <2>3. QED
    BY <2>1, <2>2
<1>5. CASE Scheduler \/ \E o \in Offers : DatePasses(o)
  <2>1. SameAccepted /\ UNCHANGED <<task, price, job>>
    BY <1>5 DEF Scheduler, SweepList, SweepOffers, SweepCounters, DatePasses, ExpiringNow,
                Pending, Mark, SameAccepted, rows, bids
  <2>2. \A c \in Counters : counter[c] # "ACCEPTED" => counter'[c] # "ACCEPTED"
    BY <1>5 DEF Scheduler, SweepList, SweepOffers, SweepCounters, DatePasses, rows
  <2>3. \A j : AcceptedBids(j)' = AcceptedBids(j)
    BY <2>1, AcceptedKept
  <2>4. /\ task[w].kind = "withdraw" => task[w].offer \in Offers
        /\ task[w].kind = "rejectCounter" => task[w].counter \in Counters
        /\ task[w].kind = "acceptCounter" => CounterOn[task[w].counter] \in Offers
    BY <1>1, TaskFields
  <2>5. QED
    BY <1>1, <2>1, <2>2, <2>3, <2>4 DEF Reads, SameAccepted
<1>6. QED
  BY <1>1, <1>3, <1>4, <1>5 DEF Next

-----------------------------------------------------------------------------
LEMMA AloneNext ==
    ASSUME NEW w, Workers = {w}, AloneInv, [Next]_vars
    PROVE  AloneInv'
<1>1. TypeOK'
  BY TypeStep DEF AloneInv
<1>2. CASE Next
  BY <1>1, <1>2, AgreesStep, AgreedStep, ReadsStep DEF AloneInv
<1>3. CASE UNCHANGED vars
  <2>1. UNCHANGED <<job, offer, price, counter, booking, task>>
    BY <1>3 DEF vars, rows, bids
  <2>2. (\A j \in Jobs : Agrees(j))'
    BY <2>1, AgreesKept DEF SameAccepted
  <2>3. \A o \in Offers : Agreed(o)'
    BY <2>1 DEF AloneInv, Agreed, CountersOf
  <2>4. \A x \in Workers : Reads(task[x])'
    <3>1. \A j : AcceptedBids(j)' = AcceptedBids(j)
      BY <2>1 DEF AcceptedBids, BidsOf
    <3>2. QED
      BY <2>1, <3>1 DEF AloneInv, Reads
  <2>5. QED
    BY <1>1, <2>2, <2>3, <2>4 DEF AloneInv
<1>4. QED
  BY <1>2, <1>3

(* With one worker, a mission is matched exactly when it has one accepted  *)
(* bid and is booked for it, whatever the scheduler expires meanwhile.     *)
THEOREM BookedForItsBid ==
    ASSUME NEW CONSTANT w, Workers = {w}
    PROVE  Spec => []BookingAgrees
<1>1. AloneInv /\ [Next]_vars => AloneInv'
  BY AloneNext
<1>2. AloneInv => BookingAgrees
  BY DEF AloneInv, Agrees, BookingAgrees
<1>3. QED
  BY <1>1, <1>2, AloneInit, PTL DEF Spec

(* With one worker, a price that is not the one asked was agreed to.       *)
THEOREM PricesAgreed ==
    ASSUME NEW CONSTANT w, Workers = {w}
    PROVE  Spec => []PriceWasAgreed
<1>1. AloneInv /\ [Next]_vars => AloneInv'
  BY AloneNext
<1>2. AloneInv => PriceWasAgreed
  BY DEF AloneInv, Agreed, PriceWasAgreed
<1>3. QED
  BY <1>1, <1>2, AloneInit, PTL DEF Spec

-----------------------------------------------------------------------------
(* The limits.  The handlers count before they insert, and no constraint   *)
(* of the database counts with them.                                       *)

Within(S, n) == IsFiniteSet(S) /\ Cardinality(S) <= n

(* No transporter has more than MaxPending bids pending or two bids on one *)
(* mission; no bid has received more than MaxCounters counter-offers or    *)
(* has two of them pending.                                                *)
LimitsKept ==
    /\ \A t \in Transporters : Within(PendingBy(t), MaxPending)
    /\ \A o, p \in Offers :
          /\ OfferBy[o] = OfferBy[p] /\ OfferJob[o] = OfferJob[p]
          /\ offer[o] # "ABSENT" /\ offer[p] # "ABSENT"
          => o = p
    /\ \A o \in Offers : Within(CountersOf(o), MaxCounters)
    /\ \A c, d \in Counters :
          CounterOn[c] = CounterOn[d] /\ counter[c] = "PENDING" /\ counter[d] = "PENDING" => c = d

(* A counter-offer is one of a bid that exists.                            *)
CounteredExist == \A c \in Counters : counter[c] # "ABSENT" => offer[CounterOn[c]] # "ABSENT"

(* What a request has counted, and the rows it has read, are still there   *)
(* when it saves.  A counter-offer may be accepted on a bid that was       *)
(* pending when it was read and has expired since: the save makes it       *)
(* pending again, within the limit.                                        *)
Found(t) ==
    /\ t.kind = "bid" => MayBid(t.by, t.job)
    /\ t.kind = "propose" => MayPropose(t.offer) /\ offer[t.offer] # "ABSENT"
    /\ t.kind = "withdraw" => offer[t.offer] # "ABSENT"
    /\ t.kind = "cancel" => \A o \in t.bids : offer[o] # "ABSENT"
    /\ t.kind \in {"rejectCounter", "acceptCounter"} => counter[t.counter] # "ABSENT"
    /\ t.kind = "acceptCounter" =>
          /\ t.status # "ABSENT"
          /\ t.status = "PENDING" =>
                Within(PendingBy(OfferBy[CounterOn[t.counter]]) \cup {CounterOn[t.counter]}, MaxPending)

LimitInv == TypeOK /\ LimitsKept /\ CounteredExist /\ \A w \in Workers : Found(task[w])

LEMMA WithinSubset ==
    ASSUME NEW n \in Nat, NEW S, Within(S, n), NEW T \in SUBSET S
    PROVE  Within(T, n)
<1>1. IsFiniteSet(T) /\ Cardinality(T) <= Cardinality(S)
  BY FS_Subset DEF Within
<1>2. Cardinality(T) \in Nat /\ Cardinality(S) \in Nat
  BY <1>1, FS_CardinalityType DEF Within
<1>3. QED
  BY <1>1, <1>2 DEF Within

LEMMA WithinAdd ==
    ASSUME NEW n \in Nat, NEW S, IsFiniteSet(S), Cardinality(S) < n, NEW x
    PROVE  Within(S \cup {x}, n)
<1>1. Cardinality(S) \in Nat
  BY FS_CardinalityType
<1>2. QED
  BY <1>1, FS_AddElement DEF Within

LEMMA LimitInit == Init => LimitInv
<1> SUFFICES ASSUME Init PROVE LimitInv
  OBVIOUS
<1>1. (\A t : PendingBy(t) = {}) /\ (\A o \in Offers : CountersOf(o) = {})
  BY DEF Init, PendingBy, BidsBy, CountersOf
<1>2. \A n \in Nat : Within({}, n)
  BY FS_EmptySet DEF Within
<1>3. LimitsKept
  BY <1>1, <1>2, NegotiationAssumption DEF Init, LimitsKept
<1>4. QED
  BY <1>3, InitType DEF Init, LimitInv, CounteredExist, Found, Idle

(* A step that creates no row and makes none pending.                      *)
Quiet ==
    /\ \A o \in Offers : /\ offer'[o] # "ABSENT" <=> offer[o] # "ABSENT"
                         /\ offer'[o] = "PENDING" => offer[o] = "PENDING"
    /\ \A c \in Counters : /\ counter'[c] # "ABSENT" <=> counter[c] # "ABSENT"
                           /\ counter'[c] = "PENDING" => counter[c] = "PENDING"

LEMMA QuietSets ==
    ASSUME Quiet
    PROVE  /\ \A t : BidsBy(t)' = BidsBy(t) /\ PendingBy(t)' \subseteq PendingBy(t)
           /\ \A j : BidsOf(j)' = BidsOf(j)
           /\ \A o : CountersOf(o)' = CountersOf(o)
BY DEF Quiet, BidsBy, PendingBy, BidsOf, CountersOf

LEMMA QuietKeeps ==
    ASSUME LimitInv, Quiet
    PROVE  LimitsKept' /\ CounteredExist'
<1> USE NegotiationAssumption
<1>1. \A t \in Transporters : Within(PendingBy(t)', MaxPending)
  BY QuietSets, WithinSubset DEF LimitInv, LimitsKept
<1>2. \A o \in Offers : Within(CountersOf(o)', MaxCounters)
  BY QuietSets DEF LimitInv, LimitsKept
<1>3. LimitsKept'
  BY <1>1, <1>2 DEF LimitInv, LimitsKept, Quiet, Within
<1>4. QED
  BY <1>3 DEF LimitInv, CounteredExist, Quiet

LEMMA QuietFound ==
    ASSUME LimitInv, Quiet, NEW t \in Task, Found(t)
    PROVE  Found(t)'
<1> USE NegotiationAssumption
<1>1. CASE t.kind = "bid"
  <2>1. t.by \in Transporters /\ Within(PendingBy(t.by), MaxPending)
    BY <1>1 DEF Task, Idle, LimitInv, LimitsKept
  <2>2. /\ IsFiniteSet(PendingBy(t.by)') /\ IsFiniteSet(PendingBy(t.by))
        /\ Cardinality(PendingBy(t.by)') <= Cardinality(PendingBy(t.by))
    BY <2>1, QuietSets, FS_Subset DEF Within
  <2>3. Cardinality(PendingBy(t.by)') \in Nat /\ Cardinality(PendingBy(t.by)) \in Nat
    BY <2>2, FS_CardinalityType
  <2>4. Cardinality(PendingBy(t.by)') < MaxPending
    BY <1>1, <2>2, <2>3 DEF Found, MayBid
  <2>5. QED
    BY <1>1, <2>4, QuietSets DEF Found, MayBid
<1>2. CASE t.kind = "propose"
  <2>1. t.offer \in Offers
    BY <1>2 DEF Task, Idle
  <2>2. MayPropose(t.offer)'
    BY <1>2, QuietSets DEF Found, MayPropose, Quiet, CountersOf
  <2>3. QED
    BY <1>2, <2>1, <2>2 DEF Found, Quiet
<1>3. CASE t.kind \in {"withdraw", "cancel", "rejectCounter"}
  BY <1>3 DEF Task, Idle, Found, Quiet
<1>4. CASE t.kind = "acceptCounter"
  <2>1. t.counter \in Counters
    BY <1>4 DEF Task, Idle
  <2> DEFINE o == CounterOn[t.counter]
  <2>2. PendingBy(OfferBy[o])' \cup {o} \subseteq PendingBy(OfferBy[o]) \cup {o}
    BY QuietSets
  <2> HIDE DEF o
  <2>3. t.status = "PENDING" => Within(PendingBy(OfferBy[o])' \cup {o}, MaxPending)
    BY <1>4, <2>2, WithinSubset DEF Found, o
  <2>4. QED
    BY <1>4, <2>1, <2>3 DEF Found, Quiet, Within, o
<1>5. CASE t.kind \notin {"bid", "propose", "withdraw", "cancel", "rejectCounter", "acceptCounter"}
  BY <1>5 DEF Found
<1>6. QED
  BY <1>1, <1>2, <1>3, <1>4, <1>5

LEMMA SchedulerQuiet ==
    ASSUME TypeOK, Scheduler \/ \E o \in Offers : DatePasses(o)
    PROVE  Quiet /\ UNCHANGED task
BY DEF Scheduler, SweepList, SweepOffers, SweepCounters, DatePasses, ExpiringNow, Pending, Mark,
       TypeOK, Quiet, rows, bids

LEMMA QuietStep ==
    ASSUME NEW w \in Workers, LimitInv, Receive(w) \/ Proceed(w)
    PROVE  \/ Quiet \/ BidSave(w) \/ ProposeSave(w)
           \/ AcceptCounterSave(w) /\ task[w].status = "PENDING"
<1> USE NegotiationAssumption
<1>0. TypeOK /\ Found(task[w]) /\ CounteredExist
  BY DEF LimitInv
<1>1. CASE UNCHANGED <<offer, counter>>
  BY <1>1 DEF Quiet
<1>2. ASSUME NEW o \in Offers, AcceptOffer(w, o)
      PROVE  Quiet
  BY <1>0, <1>2 DEF AcceptOffer, Mark, BidsOf, TypeOK, Quiet
<1>3. CASE WithdrawSave(w)
  BY <1>0, <1>3 DEF WithdrawSave, Found, TypeOK, Quiet
<1>4. CASE RejectCounterSave(w)
  BY <1>0, <1>4 DEF RejectCounterSave, Found, TypeOK, Quiet, bids
<1>5. CASE AcceptCounterSave(w) /\ task[w].status # "PENDING"
  <2>1. PICK c \in Counters : c = task[w].counter
    BY <1>0, <1>5, TaskFields DEF AcceptCounterSave
  <2>2. counter[c] # "ABSENT" /\ offer[CounterOn[c]] # "ABSENT" /\ task[w].status # "ABSENT"
    BY <1>0, <1>5, <2>1 DEF AcceptCounterSave, Found, CounteredExist
  <2>3. /\ offer' = [offer EXCEPT ![CounterOn[c]] = task[w].status]
        /\ counter' = [counter EXCEPT ![c] = "ACCEPTED"]
    BY <1>5, <2>1 DEF AcceptCounterSave, AgreedTo
  <2>4. QED
    BY <1>0, <1>5, <2>2, <2>3 DEF TypeOK, Quiet
<1>6. CASE CancelSave(w)
  BY <1>0, <1>6 DEF CancelSave, Found, Mark, Quiet
<1>7. CASE ExpireOffers(w)
  BY <1>0, <1>7 DEF ExpireOffers, Mark, BidsOf, Quiet
<1>8. CASE OwnerCancelSave(w) \/ ArchiveSave(w)
  BY <1>1, <1>8 DEF OwnerCancelSave, ArchiveSave, bids
<1>9. ASSUME Receive(w)
      PROVE  UNCHANGED <<offer, counter>> \/ \E o \in Offers : AcceptOffer(w, o)
  BY <1>9
     DEF Receive, WithdrawRead, ProposeRead, TransporterCancelRead, RejectCounterRead,
         AcceptCounterRead, ClientCancelRead, OwnerCancelRead, ArchiveRead, BidRead, Ask,
         rows, bids
<1>10. QED
  BY <1>1, <1>2, <1>3, <1>4, <1>5, <1>6, <1>7, <1>8, <1>9 DEF Proceed

(* The three steps that create a row or make one pending.                  *)
LEMMA BidKeeps ==
    ASSUME NEW w \in Workers, LimitInv, BidSave(w)
    PROVE  LimitsKept' /\ CounteredExist'
<1> USE NegotiationAssumption
<1>0. TypeOK /\ LimitsKept /\ CounteredExist /\ MayBid(task[w].by, task[w].job)
  BY DEF LimitInv, BidSave, Found
<1>1. CASE UNCHANGED offer
  BY <1>1, QuietKeeps DEF BidSave, Quiet
<1>2. ASSUME NEW o \in Offers, OfferBy[o] = task[w].by, OfferJob[o] = task[w].job,
             offer[o] = "ABSENT", offer' = Mark({o}, "PENDING")
      PROVE  LimitsKept' /\ CounteredExist'
  <2>1. /\ \A x \in Offers : offer'[x] = IF x = o THEN "PENDING" ELSE offer[x]
        /\ counter' = counter
    BY <1>2 DEF Mark, BidSave
  <2>2. ASSUME NEW t \in Transporters
        PROVE  Within(PendingBy(t)', MaxPending)
    <3>1. CASE t = OfferBy[o]
      <4>1. PendingBy(t)' = PendingBy(t) \cup {o}
        BY <2>1, <3>1 DEF PendingBy, BidsBy
      <4>2. IsFiniteSet(PendingBy(t)) /\ Cardinality(PendingBy(t)) < MaxPending
        BY <1>0, <1>2, <3>1 DEF LimitsKept, Within, MayBid
      <4>3. QED
        BY <4>1, <4>2, WithinAdd
    <3>2. CASE t # OfferBy[o]
      <4>1. PendingBy(t)' = PendingBy(t)
        BY <2>1, <3>2 DEF PendingBy, BidsBy
      <4>2. QED
        BY <1>0, <4>1 DEF LimitsKept
    <3>3. QED
      BY <3>1, <3>2
  <2>3. ASSUME NEW p \in Offers, OfferBy[p] = OfferBy[o], OfferJob[p] = OfferJob[o]
        PROVE  offer[p] = "ABSENT"
    BY <1>0, <1>2, <2>3 DEF MayBid, BidsBy, BidsOf
  <2>4. \A x, p \in Offers :
           OfferBy[x] = OfferBy[p] /\ OfferJob[x] = OfferJob[p]
               /\ offer'[x] # "ABSENT" /\ offer'[p] # "ABSENT" => x = p
    BY <1>0, <2>1, <2>3 DEF LimitsKept
  <2>5. \A x : CountersOf(x)' = CountersOf(x)
    BY <2>1 DEF CountersOf
  <2>6. LimitsKept'
    BY <1>0, <2>1, <2>2, <2>4, <2>5 DEF LimitsKept, Within
  <2>7. CounteredExist'
    BY <1>0, <2>1 DEF CounteredExist
  <2>8. QED
    BY <2>6, <2>7
<1>3. QED
  BY <1>1, <1>2 DEF BidSave

LEMMA ProposeKeeps ==
    ASSUME NEW w \in Workers, LimitInv, ProposeSave(w)
    PROVE  LimitsKept' /\ CounteredExist'
<1> USE NegotiationAssumption
<1>0. /\ TypeOK /\ LimitsKept /\ CounteredExist
      /\ MayPropose(task[w].offer) /\ offer[task[w].offer] # "ABSENT"
      /\ offer' = offer
  BY DEF LimitInv, ProposeSave, Found, bids
<1>1. CASE UNCHANGED counter
  BY <1>0, <1>1, QuietKeeps DEF Quiet
<1>2. ASSUME NEW c \in Counters, CounterOn[c] = task[w].offer, counter[c] = "ABSENT",
             counter' = [counter EXCEPT ![c] = "PENDING"]
      PROVE  LimitsKept' /\ CounteredExist'
  <2>1. \A x \in Counters : counter'[x] = IF x = c THEN "PENDING" ELSE counter[x]
    BY <1>0, <1>2 DEF TypeOK
  <2>2. ASSUME NEW o \in Offers
        PROVE  Within(CountersOf(o)', MaxCounters)
    <3>1. CASE o = CounterOn[c]
      <4>1. CountersOf(o)' = CountersOf(o) \cup {c}
        BY <2>1, <3>1 DEF CountersOf
      <4>2. IsFiniteSet(CountersOf(o)) /\ Cardinality(CountersOf(o)) < MaxCounters
        BY <1>0, <1>2, <3>1 DEF LimitsKept, Within, MayPropose
      <4>3. QED
        BY <4>1, <4>2, WithinAdd
    <3>2. CASE o # CounterOn[c]
      <4>1. CountersOf(o)' = CountersOf(o)
        BY <2>1, <3>2 DEF CountersOf
      <4>2. QED
        BY <1>0, <4>1 DEF LimitsKept
    <3>3. QED
      BY <3>1, <3>2
  <2>3. \A d \in Counters : CounterOn[d] = CounterOn[c] => counter[d] # "PENDING"
    BY <1>0, <1>2 DEF MayPropose, CountersOf
  <2>4. \A x, d \in Counters :
           CounterOn[x] = CounterOn[d] /\ counter'[x] = "PENDING" /\ counter'[d] = "PENDING"
               => x = d
    BY <1>0, <2>1, <2>3 DEF LimitsKept
  <2>5. \A t : PendingBy(t)' = PendingBy(t)
    BY <1>0 DEF PendingBy, BidsBy
  <2>6. LimitsKept'
    BY <1>0, <2>2, <2>4, <2>5 DEF LimitsKept, Within
  <2>7. CounteredExist'
    BY <1>0, <1>2, <2>1 DEF CounteredExist
  <2>8. QED
    BY <2>6, <2>7
<1>3. QED
  BY <1>1, <1>2 DEF ProposeSave

LEMMA AgreeKeeps ==
    ASSUME NEW w \in Workers, LimitInv, AcceptCounterSave(w), task[w].status = "PENDING"
    PROVE  LimitsKept' /\ CounteredExist'
<1> USE NegotiationAssumption
<1>0. TypeOK /\ LimitsKept /\ CounteredExist /\ Found(task[w])
  BY DEF LimitInv
<1>1. PICK c \in Counters : c = task[w].counter
  BY <1>0, TaskFields DEF AcceptCounterSave
<1>2. PICK o \in Offers : o = CounterOn[c]
  OBVIOUS
<1>3. /\ counter[c] # "ABSENT" /\ offer[o] # "ABSENT"
      /\ Within(PendingBy(OfferBy[o]) \cup {o}, MaxPending)
  BY <1>0, <1>1, <1>2 DEF AcceptCounterSave, Found, CounteredExist
<1>4. /\ \A x \in Offers : offer'[x] = IF x = o THEN "PENDING" ELSE offer[x]
      /\ \A x \in Counters : counter'[x] = IF x = c THEN "ACCEPTED" ELSE counter[x]
  BY <1>0, <1>1, <1>2 DEF AcceptCounterSave, AgreedTo, TypeOK
<1>5. ASSUME NEW t \in Transporters
      PROVE  Within(PendingBy(t)', MaxPending)
  <2>1. CASE t = OfferBy[o]
    <3>1. PendingBy(t)' = PendingBy(t) \cup {o}
      BY <1>4, <2>1 DEF PendingBy, BidsBy
    <3>2. QED
      BY <1>3, <2>1, <3>1
  <2>2. CASE t # OfferBy[o]
    <3>1. PendingBy(t)' = PendingBy(t)
      BY <1>4, <2>2 DEF PendingBy, BidsBy
    <3>2. QED
      BY <1>0, <3>1 DEF LimitsKept
  <2>3. QED
    BY <2>1, <2>2
<1>6. \A x : CountersOf(x)' = CountersOf(x)
  BY <1>3, <1>4 DEF CountersOf
<1>7. LimitsKept'
  BY <1>0, <1>3, <1>4, <1>5, <1>6 DEF LimitsKept, Within
<1>8. CounteredExist'
  BY <1>0, <1>3, <1>4 DEF CounteredExist
<1>9. QED
  BY <1>7, <1>8

LEMMA FoundStep ==
    ASSUME NEW w, Workers = {w}, LimitInv, Next
    PROVE  Found(task[w])'
<1> USE NegotiationAssumption
<1>0. w \in Workers /\ TypeOK /\ Found(task[w]) /\ CounteredExist /\ LimitsKept
  BY DEF LimitInv
<1>1. CASE task'[w].kind \notin {"bid", "propose", "withdraw", "cancel", "rejectCounter",
                                 "acceptCounter"}
  BY <1>1 DEF Found
<1>2. CASE Scheduler \/ \E o \in Offers : DatePasses(o)
  <2>1. Quiet /\ task'[w] = task[w] /\ task[w] \in Task
    BY <1>0, <1>2, SchedulerQuiet DEF TypeOK
  <2>2. QED
    BY <1>0, <2>1, QuietFound DEF Found
<1>3. CASE Proceed(w)
  BY <1>0, <1>1, <1>3
     DEF Proceed, BidSave, WithdrawSave, ProposeSave, RejectCounterSave, AcceptCounterSave,
         CancelSave, OwnerCancelSave, ExpireOffers, ArchiveSave, Answer, Serve, Idle, TypeOK
<1>4. CASE Receive(w)
  <2>1. CASE \E o \in Offers : AcceptOffer(w, o)
    BY <1>1, <2>1 DEF AcceptOffer, Free, Idle
  <2>2. ASSUME NEW t, Ask(w, t), Found(t)
        PROVE  Found(task[w])'
    <3>1. task'[w] = t /\ UNCHANGED <<offer, counter>>
      BY <1>0, <2>2 DEF Ask, Serve, TypeOK, rows, bids
    <3>2. QED
      BY <2>2, <3>1
         DEF Found, MayBid, MayPropose, PendingBy, BidsBy, BidsOf, CountersOf, Within
  <2>3. ASSUME NEW j \in Jobs, NEW t \in Transporters, BidRead(w, t, j)
        PROVE  Found(task[w])'
    BY <2>2, <2>3 DEF BidRead, Found
  <2>4. ASSUME NEW o \in Offers,
               WithdrawRead(w, o) \/ ProposeRead(w, o) \/ TransporterCancelRead(w, o)
        PROVE  Found(task[w])'
    BY <2>2, <2>4 DEF WithdrawRead, ProposeRead, TransporterCancelRead, Found
  <2>5. ASSUME NEW c \in Counters, RejectCounterRead(w, c)
        PROVE  Found(task[w])'
    BY <2>2, <2>5 DEF RejectCounterRead, Found
  <2>6. ASSUME NEW c \in Counters, AcceptCounterRead(w, c)
        PROVE  Found(task[w])'
    <3> DEFINE o == CounterOn[c]
               t == [kind |-> "acceptCounter", counter |-> c, status |-> offer[o]]
    <3>1. o \in Offers /\ OfferBy[o] \in Transporters
      OBVIOUS
    <3>2. counter[c] # "ABSENT" /\ offer[o] # "ABSENT"
      BY <1>0, <2>6 DEF AcceptCounterRead, CounteredExist
    <3>3. Ask(w, t)
      BY <2>6 DEF AcceptCounterRead
    <3>4. offer[o] = "PENDING" => Within(PendingBy(OfferBy[o]) \cup {o}, MaxPending)
      <4>1. offer[o] = "PENDING" => PendingBy(OfferBy[o]) \cup {o} = PendingBy(OfferBy[o])
        BY <3>1 DEF PendingBy, BidsBy
      <4>2. QED
        BY <1>0, <3>1, <4>1 DEF LimitsKept
    <3>5. Found(t)
      <4>1. t.kind = "acceptCounter" /\ t.counter = c /\ t.status = offer[o]
        OBVIOUS
      <4>2. QED
        BY <3>2, <3>4, <4>1 DEF Found
    <3>6. QED
      BY <2>2, <3>3, <3>5
  <2>7. ASSUME NEW j \in Jobs, ClientCancelRead(w, j)
        PROVE  Found(task[w])'
    BY <2>2, <2>7 DEF ClientCancelRead, AcceptedBids, BidsOf, Found
  <2>8. ASSUME NEW j \in Jobs, OwnerCancelRead(w, j) \/ ArchiveRead(w, j)
        PROVE  Found(task[w])'
    BY <2>2, <2>8 DEF OwnerCancelRead, ArchiveRead, Found
  <2>9. QED
    BY <1>4, <2>1, <2>3, <2>4, <2>5, <2>6, <2>7, <2>8 DEF Receive
<1>5. QED
  BY <1>0, <1>2, <1>3, <1>4 DEF Next

(* With one worker, no transporter has more bids pending than he may, even *)
(* when a bid comes back to pending after the scheduler expired it, and no *)
(* bid has more counter-offers than it may.                                *)
THEOREM LimitsHold ==
    ASSUME NEW CONSTANT w, Workers = {w}
    PROVE  Spec => []LimitsKept
<1>1. LimitInv /\ [Next]_vars => LimitInv'
  <2> SUFFICES ASSUME LimitInv, [Next]_vars PROVE LimitInv'
    OBVIOUS
  <2>1. TypeOK'
    BY TypeStep DEF LimitInv
  <2>2. CASE UNCHANGED vars
    <3>1. Quiet /\ task' = task
      BY <2>2 DEF Quiet, vars, rows, bids
    <3>2. Found(task[w])'
      <4>1. task[w] \in Task /\ Found(task[w])
        BY DEF LimitInv, TypeOK
      <4>2. QED
        BY <3>1, <4>1, QuietFound DEF Found
    <3>3. QED
      BY <2>1, <3>1, <3>2, QuietKeeps DEF LimitInv
  <2>3. CASE Next
    <3>1. LimitsKept' /\ CounteredExist'
      <4>1. CASE Quiet
        BY <4>1, QuietKeeps
      <4>2. CASE Receive(w) \/ Proceed(w)
        BY <4>1, <4>2, QuietStep, BidKeeps, ProposeKeeps, AgreeKeeps
      <4>3. CASE Scheduler \/ \E o \in Offers : DatePasses(o)
        BY <4>1, <4>3, SchedulerQuiet DEF LimitInv
      <4>4. QED
        BY <2>3, <4>2, <4>3 DEF Next
    <3>2. QED
      BY <2>1, <2>3, <3>1, FoundStep DEF LimitInv
  <2>4. QED
    BY <2>2, <2>3
<1>2. LimitInv => LimitsKept
  BY DEF LimitInv
<1>3. QED
  BY <1>1, <1>2, LimitInit, PTL DEF Spec

=============================================================================
