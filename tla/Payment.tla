------------------------------- MODULE Payment -------------------------------
(***************************************************************************)
(* The money of a mission: from the accepted bid to the escrow released to *)
(* the transporter or sent back to the client.  The requests of several    *)
(* server workers, the payment gateway, the moderators and the 48h         *)
(* auto-release scheduler act on the same PostgreSQL rows.                 *)
(*                                                                         *)
(* A handler that takes a row lock (select_for_update) and runs in one     *)
(* transaction is one action.  A handler that reads without a lock is two: *)
(* ...Read tests its guards on the rows it read and keeps what it read in  *)
(* task[w], ...Save writes what the code then writes whatever the rows     *)
(* have become, because Model.save() writes every column of the stale row. *)
(* Statements outside any transaction are separate steps; a worker may     *)
(* die between two of them.  A release locks its escrow row but not the    *)
(* disputes it tests, so it is two steps as well: while Locked(e) the      *)
(* other writers of the row wait, and those of the disputes do not.        *)
(*                                                                         *)
(* The definitions named Mut_... are faults, each of one definition; no    *)
(* specification uses them.  They show that a property can fail.           *)
(***************************************************************************)
EXTENDS Naturals, Sequences

CONSTANTS
    Jobs,         \* missions; all start PUBLISHED
    ReturnTrips,  \* those whose owner is the transporter (is_return_trip)
    Offers,       \* bids that get accepted at some time
    OfferJob,     \* the mission of each bid
    Escrows,      \* primary keys of escrow rows, handed out in order
    EscrowJob,    \* the mission each row will be created for
    Disputes,     \* ids of disputes
    DisputeJob,   \* the mission each dispute will be opened on
    Workers,      \* server workers, one request each at a time
    MaxCrashes    \* bound on the worker deaths of a behaviour

ASSUME PaymentAssumption ==
    /\ ReturnTrips \subseteq Jobs
    /\ OfferJob \in [Offers -> Jobs]
    /\ Escrows \subseteq Nat
    /\ EscrowJob \in [Escrows -> Jobs]
    /\ DisputeJob \in [Disputes -> Jobs]
    /\ MaxCrashes \in Nat

VARIABLES
    job,      \* TransportJob.status
    offer,    \* Offer.status: OPEN (not accepted so far), ACCEPTED or VOID
    booking,  \* Booking.payment_method of the mission, NONE without a row
    escrow,   \* EscrowTransaction.status, ABSENT before the row exists
    gateway,  \* what the gateway knows of the row's payment link
    refunds,  \* the RefundRequest rows of an escrow, in order of creation
    dispute,  \* Dispute.status and resolution_outcome
    ledger,   \* missions with a CommissionLedger row (a OneToOneField)
    due,      \* rows the auto-release pass has listed and not yet tried
    paying,   \* rows the auto-release pass has locked and not yet saved
    task,     \* the request each worker is in the middle of
    crashes,  \* worker deaths so far
    late      \* history: disputes that became active while a release of a
              \* row of their mission was past its test of disputes

mission   == <<job, offer, booking>>
money     == <<escrow, refunds>>
database  == <<mission, money, gateway, dispute, ledger>>
scheduler == <<due, paying>>
vars      == <<database, scheduler, task, crashes, late>>

JobStatus     == {"PUBLISHED", "MATCHED", "IN_PROGRESS", "COMPLETED", "CANCELLED"}
OfferStatus   == {"OPEN", "ACCEPTED", "VOID"}
PaymentMethod == {"DIGITAL", "COD"}
EscrowStatus  == {"ABSENT", "INITIATED", "HELD", "RELEASED", "REFUNDED", "FAILED"}
LinkStatus    == {"open", "paid", "failed"}
DisputeStatus == {"ABSENT", "OPEN", "INVESTIGATING", "RESOLVED", "REJECTED"}
Outcome       == {"NONE", "REFUND_CLIENT", "RELEASE_TRANSPORTER", "SPLIT"}
Party         == {"CLIENT", "TRANSPORTER"}
RefundRow     == [share : {"FULL", "PART"}, type : Party, to : Party]

Idle == [kind |-> "idle"]
Task ==
    {Idle}
    \cup [kind : {"initiate", "ownerCancel", "expireOffers", "recordDebt"}, job : Jobs]
    \cup [kind : {"complete"}, job : Jobs, method : PaymentMethod \cup {"NONE"}]
    \cup [kind : {"clientCancel", "transporterCancel"}, job : Jobs, bids : SUBSET Offers]
    \cup [kind : {"webhook", "verify", "activate"}, escrow : Escrows]
    \cup [kind : {"investigate", "reject"}, dispute : Disputes]
    \cup [kind : {"resolve"}, dispute : Disputes, outcome : Outcome]
    \cup [kind : {"release"}, escrow : Escrows, ruling : SUBSET Disputes]

(* The one type invariant: every column and every request in flight has a  *)
(* value the code can store or hold.                                       *)
TypeOK ==
    /\ job \in [Jobs -> JobStatus]
    /\ offer \in [Offers -> OfferStatus]
    /\ booking \in [Jobs -> PaymentMethod \cup {"NONE"}]
    /\ escrow \in [Escrows -> EscrowStatus]
    /\ gateway \in [Escrows -> LinkStatus]
    /\ refunds \in [Escrows -> Seq(RefundRow)]
    /\ dispute \in [Disputes -> [status : DisputeStatus, outcome : Outcome]]
    /\ ledger \subseteq Jobs
    /\ due \subseteq Escrows
    /\ paying \subseteq Escrows
    /\ task \in [Workers -> Task]
    /\ crashes \in 0..MaxCrashes
    /\ late \subseteq Disputes

Init ==
    /\ job = [j \in Jobs |-> "PUBLISHED"]
    /\ offer = [o \in Offers |-> "OPEN"]
    /\ booking = [j \in Jobs |-> "NONE"]
    /\ escrow = [e \in Escrows |-> "ABSENT"]
    /\ gateway = [e \in Escrows |-> "open"]
    /\ refunds = [e \in Escrows |-> <<>>]
    /\ dispute = [d \in Disputes |-> [status |-> "ABSENT", outcome |-> "NONE"]]
    /\ ledger = {}
    /\ due = {}
    /\ paying = {}
    /\ task = [w \in Workers |-> Idle]
    /\ crashes = 0
    /\ late = {}

-----------------------------------------------------------------------------
(* Queries and the payment services that run inside another transaction.   *)

Free(w) == task[w] = Idle
Serve(w, request) == task' = [task EXCEPT ![w] = request]
Answer(w) == Serve(w, Idle)

(* A handler's reads are done and its writes are to come.                  *)
Ask(w, request) ==
    /\ Free(w)
    /\ Serve(w, request)
    /\ UNCHANGED <<database, scheduler, crashes, late>>

BidsOf(j) == {o \in Offers : OfferJob[o] = j}
AcceptedBids(j) == {o \in BidsOf(j) : offer[o] = "ACCEPTED"}

(* Rejecting, withdrawing or expiring bids: the statuses differ in name    *)
(* only.  An OPEN bid stands for one its author has yet to make, so it is  *)
(* left OPEN.                                                              *)
Voided(bids) ==
    [o \in Offers |-> IF o \in bids /\ offer[o] # "OPEN" THEN "VOID" ELSE offer[o]]

RowsOf(j) == {e \in Escrows : EscrowJob[e] = j /\ escrow[e] # "ABSENT"}

(* QuerySet.first() on a table without an ordering: the lowest key.        *)
First(e, S) == e \in S /\ \A f \in S : e <= f

ActiveStatuses == {"OPEN", "INVESTIGATING"}
ActiveOn(j, disputes) ==
    {d \in Disputes : DisputeJob[d] = j /\ disputes[d].status \in ActiveStatuses}

Mut_RefundsReleased(j) == {e \in RowsOf(j) : escrow[e] \in {"HELD", "INITIATED", "RELEASED"}}

(* refund_escrow and split_escrow look for HELD and INITIATED rows.        *)
Refundable(j) == {e \in RowsOf(j) : escrow[e] \in {"HELD", "INITIATED"}}

(* The beneficiary of the client's row is job.owner: on a return trip the  *)
(* owner is the transporter.                                               *)
ClientRow(share, j) ==
    [share |-> share, type |-> "CLIENT",
     to |-> IF j \in ReturnTrips THEN "TRANSPORTER" ELSE "CLIENT"]
TransporterRow == [share |-> "PART", type |-> "TRANSPORTER", to |-> "TRANSPORTER"]

SplitRows(j) ==
    IF AcceptedBids(j) # {} THEN <<ClientRow("PART", j), TransporterRow>>
                            ELSE <<ClientRow("PART", j)>>

(* select_for_update: the row lock of a release that has tested and not    *)
(* yet saved.  Whoever writes or locks the row waits for it to end.        *)
Releasing(w, e) == task[w].kind = "release" /\ task[w].escrow = e
Locked(e) == e \in paying \/ \E w \in Workers : Releasing(w, e)

(* A ruling that releases has saved its dispute in the same transaction.   *)
BeingRuled(d) == \E w \in Workers : task[w].kind = "release" /\ d \in task[w].ruling

Mut_NothingQueued(e, rows) ==
    escrow' = [escrow EXCEPT ![e] = "REFUNDED"] /\ UNCHANGED refunds

SendBack(e, rows) ==
    /\ ~Locked(e)
    /\ escrow' = [escrow EXCEPT ![e] = "REFUNDED"]
    /\ refunds' = [refunds EXCEPT ![e] = @ \o rows]

(* Only the first refundable row is refunded; none at all is no error.     *)
RefundEscrow(j) ==
    \/ \E e \in Refundable(j) :
          First(e, Refundable(j)) /\ SendBack(e, <<ClientRow("FULL", j)>>)
    \/ Refundable(j) = {} /\ UNCHANGED money

SplitEscrow(j) ==
    \E e \in Refundable(j) : First(e, Refundable(j)) /\ SendBack(e, SplitRows(j))

Mut_NoHardBlock(j, disputes) ==
    {e \in Escrows : RowsOf(j) = {e} /\ escrow[e] = "HELD"}

(* What release_escrow_on_completion finds to release.  The query for the  *)
(* row (get) raises on none and on two alike; an active dispute is a hard  *)
(* block.  The mission's status is not read.                               *)
Releasable(j, disputes) ==
    {e \in Escrows :
        /\ RowsOf(j) = {e}
        /\ escrow[e] = "HELD"
        /\ ActiveOn(j, disputes) = {}}

(* The first half of a release: the row is locked and the tests passed.    *)
(* The disputes are read without a lock.                                   *)
BeginRelease(w, j, disputes, ruling) ==
    \E e \in Releasable(j, disputes) :
        /\ ~Locked(e)
        /\ Serve(w, [kind |-> "release", escrow |-> e, ruling |-> ruling])

-----------------------------------------------------------------------------
(* Booking.                                                                *)

(* The owner accepts a bid: bid and mission are locked.  Every other bid   *)
(* of the mission becomes REJECTED, in whatever status it was.             *)
AcceptOffer(w, o, method) ==
    LET j == OfferJob[o] IN
    /\ Free(w)
    /\ j \notin ReturnTrips
    /\ job[j] = "PUBLISHED"
    /\ offer[o] = "OPEN"
    /\ offer' = [Voided(BidsOf(j)) EXCEPT ![o] = "ACCEPTED"]
    /\ job' = [job EXCEPT ![j] = "MATCHED"]
    /\ booking' = [booking EXCEPT ![j] = IF @ = "NONE" THEN method ELSE @]
    /\ UNCHANGED <<escrow, gateway, refunds, dispute, ledger, scheduler, task, crashes, late>>

(* The transporter accepts a client's request on his return trip: a fresh  *)
(* bid is created ACCEPTED, the other bids are left as they are.           *)
AcceptTripRequest(w, o, method) ==
    LET j == OfferJob[o] IN
    /\ Free(w)
    /\ j \in ReturnTrips
    /\ job[j] = "PUBLISHED"
    /\ offer[o] = "OPEN"
    /\ offer' = [offer EXCEPT ![o] = "ACCEPTED"]
    /\ job' = [job EXCEPT ![j] = "MATCHED"]
    /\ booking' = [booking EXCEPT ![j] = IF @ = "NONE" THEN method ELSE @]
    /\ UNCHANGED <<escrow, gateway, refunds, dispute, ledger, scheduler, task, crashes, late>>

(* Cash on delivery: the assigned transporter starts the mission.          *)
ConfirmStart(w, j) ==
    /\ Free(w)
    /\ AcceptedBids(j) # {}
    /\ job[j] = "MATCHED"
    /\ booking[j] = "COD"
    /\ job' = [job EXCEPT ![j] = "IN_PROGRESS"]
    /\ UNCHANGED <<offer, booking, escrow, gateway, refunds, dispute, ledger, scheduler, task, crashes, late>>

-----------------------------------------------------------------------------
(* Paying.                                                                 *)

InitiateCheck(w, j) ==
    /\ job[j] = "MATCHED"
    /\ booking[j] = "DIGITAL"
    /\ \A e \in RowsOf(j) : escrow[e] # "HELD"
    /\ Ask(w, [kind |-> "initiate", job |-> j])

(* The gateway opened a link: the next row is created for it.              *)
InitiateCreate(w) ==
    /\ task[w].kind = "initiate"
    /\ \E e \in Escrows :
          /\ First(e, {f \in Escrows : EscrowJob[f] = task[w].job /\ escrow[f] = "ABSENT"})
          /\ escrow' = [escrow EXCEPT ![e] = "INITIATED"]
    /\ Answer(w)
    /\ UNCHANGED <<mission, gateway, refunds, dispute, ledger, scheduler, crashes, late>>

(* The gateway refused (502), or the bound on rows is reached.             *)
InitiateRefused(w) ==
    /\ task[w].kind = "initiate"
    /\ Answer(w)
    /\ UNCHANGED <<database, scheduler, crashes, late>>

(* The payer settles the link at the gateway, whatever the row has become. *)
GatewaySettles(e, result) ==
    /\ escrow[e] # "ABSENT"
    /\ gateway[e] = "open"
    /\ gateway' = [gateway EXCEPT ![e] = result]
    /\ UNCHANGED <<mission, escrow, refunds, dispute, ledger, scheduler, task, crashes, late>>

(* The gateway's webhook.  On a row that is no longer INITIATED it answers *)
(* no_change.                                                              *)
WebhookRead(w, e) ==
    /\ gateway[e] # "open"
    /\ escrow[e] = "INITIATED"
    /\ Ask(w, [kind |-> "webhook", escrow |-> e])

(* The payer comes back from the gateway and asks for a check.             *)
VerifyRead(w, e) ==
    /\ escrow[e] = "INITIATED"
    /\ Ask(w, [kind |-> "verify", escrow |-> e])

Mut_PendingIsPaid(e) == IF gateway[e] = "open" THEN "paid" ELSE gateway[e]
Mut_PaidIsPending(e) == IF gateway[e] = "paid" THEN "open" ELSE gateway[e]

(* What the gateway says of a link: the webhook's status, or check_status. *)
GatewaySays(e) == gateway[e]

(* Both then save the row they read with the status the gateway gave.      *)
CallbackSave(w) ==
    LET e == task[w].escrow IN
    /\ task[w].kind \in {"webhook", "verify"}
    /\ \/ /\ GatewaySays(e) = "paid"
          /\ ~Locked(e)
          /\ escrow' = [escrow EXCEPT ![e] = "HELD"]
          /\ Serve(w, [kind |-> "activate", escrow |-> e])
       \/ /\ GatewaySays(e) = "failed"
          /\ ~Locked(e)
          /\ escrow' = [escrow EXCEPT ![e] = "FAILED"]
          /\ Answer(w)
       \/ /\ GatewaySays(e) = "open"
          /\ Answer(w)
          /\ UNCHANGED escrow
    /\ UNCHANGED <<mission, gateway, refunds, dispute, ledger, scheduler, crashes, late>>

(* The gateway could not be asked: check_status reports the link pending.  *)
VerifyUnanswered(w) ==
    /\ task[w].kind = "verify"
    /\ Answer(w)
    /\ UNCHANGED <<database, scheduler, crashes, late>>

(* activate_job_on_payment, a transaction of its own on the locked mission.*)
Activate(w) ==
    LET j == EscrowJob[task[w].escrow] IN
    /\ task[w].kind = "activate"
    /\ job' = [job EXCEPT ![j] = IF @ = "MATCHED" THEN "IN_PROGRESS" ELSE @]
    /\ Answer(w)
    /\ UNCHANGED <<offer, booking, escrow, gateway, refunds, dispute, ledger, scheduler, crashes, late>>

-----------------------------------------------------------------------------
(* Delivery and release.                                                   *)

CompleteRead(w, j) ==
    /\ AcceptedBids(j) # {}
    /\ job[j] = "IN_PROGRESS"
    /\ Ask(w, [kind |-> "complete", job |-> j, method |-> booking[j]])

Mut_DigitalOwes(method) == method = "DIGITAL"

(* Cash never passes through the escrow: the commission becomes a debt.    *)
OwesCommission(method) == method = "COD"

CompleteSave(w) ==
    LET j == task[w].job IN
    /\ task[w].kind = "complete"
    /\ job' = [job EXCEPT ![j] = "COMPLETED"]
    /\ IF OwesCommission(task[w].method)
         THEN Serve(w, [kind |-> "recordDebt", job |-> j])
         ELSE Answer(w)
    /\ UNCHANGED <<offer, booking, escrow, gateway, refunds, dispute, ledger, scheduler, crashes, late>>

(* create_commission_debt_on_cod; a second row for the mission is refused. *)
RecordDebt(w) ==
    /\ task[w].kind = "recordDebt"
    /\ ledger' = ledger \cup {task[w].job}
    /\ Answer(w)
    /\ UNCHANGED <<mission, escrow, gateway, refunds, dispute, scheduler, crashes, late>>

(* The paying client confirms the delivery.                                *)
ConfirmCompletion(w, j) ==
    /\ Free(w)
    /\ job[j] = "COMPLETED"
    /\ BeginRelease(w, j, dispute, {})
    /\ UNCHANGED <<database, scheduler, crashes, late>>

(* An administrator releases; only the service's guards apply.             *)
AdminRelease(w, j) ==
    /\ Free(w)
    /\ BeginRelease(w, j, dispute, {})
    /\ UNCHANGED <<database, scheduler, crashes, late>>

(* The row is saved, whatever disputes have become, and the transaction is *)
(* committed, with the ruling that asked for it if there is one.           *)
ReleaseSave(w) ==
    /\ task[w].kind = "release"
    /\ escrow' = [escrow EXCEPT ![task[w].escrow] = "RELEASED"]
    /\ dispute' = [d \in Disputes |->
                      IF d \in task[w].ruling
                        THEN [status |-> "RESOLVED", outcome |-> "RELEASE_TRANSPORTER"]
                        ELSE dispute[d]]
    /\ Answer(w)
    /\ UNCHANGED <<mission, gateway, refunds, ledger, scheduler, crashes, late>>

(* The rulings that must keep the timer from paying the transporter.  The  *)
(* two conditions of exclude() reach the disputes through a reverse key,   *)
(* so each may be met by a dispute of its own; a rejected one has outcome  *)
(* NONE.                                                                   *)
RuledAgainstRelease(j) ==
    LET opened == {d \in Disputes : DisputeJob[d] = j /\ dispute[d].status # "ABSENT"} IN
    /\ \E d \in opened : dispute[d].status = "RESOLVED"
    /\ \E d \in opened : dispute[d].outcome \in {"REFUND_CLIENT", "SPLIT", "NONE"}

Mut_TimerWaitsForStart(e) ==
    /\ escrow[e] = "HELD"
    /\ job[EscrowJob[e]] = "IN_PROGRESS"
    /\ ActiveOn(EscrowJob[e], dispute) = {}
    /\ ~RuledAgainstRelease(EscrowJob[e])

EligibleForAutoRelease(e) ==
    /\ escrow[e] = "HELD"
    /\ job[EscrowJob[e]] = "COMPLETED"
    /\ ActiveOn(EscrowJob[e], dispute) = {}
    /\ ~RuledAgainstRelease(EscrowJob[e])

(* The pass lists the eligible rows, old enough by now, once ...           *)
ListDue(e) ==
    /\ EligibleForAutoRelease(e)
    /\ e \notin due
    /\ due' = due \cup {e}
    /\ UNCHANGED <<database, paying, task, crashes, late>>

(* ... and releases the mission of each in a transaction of its own, whose *)
(* failure is counted and skipped.                                         *)
AutoRelease(e) ==
    LET found == Releasable(EscrowJob[e], dispute) IN
    /\ e \in due
    /\ due' = due \ {e}
    /\ \/ e \in found /\ ~Locked(e) /\ paying' = paying \cup {e}
       \/ e \notin found /\ UNCHANGED paying
    /\ UNCHANGED <<database, task, crashes, late>>

AutoReleaseSave(e) ==
    /\ e \in paying
    /\ paying' = paying \ {e}
    /\ escrow' = [escrow EXCEPT ![e] = "RELEASED"]
    /\ UNCHANGED <<mission, gateway, refunds, dispute, ledger, due, task, crashes, late>>

-----------------------------------------------------------------------------
(* Cancelling.                                                             *)

TransporterCancelRead(w, o) ==
    /\ offer[o] = "ACCEPTED"
    /\ job[OfferJob[o]] \in {"MATCHED", "IN_PROGRESS"}
    /\ Ask(w, [kind |-> "transporterCancel", job |-> OfferJob[o], bids |-> {o}])

(* The first accepted bid, if there is one.                                *)
ClientCancelRead(w, j) ==
    /\ job[j] \in {"MATCHED", "IN_PROGRESS"}
    /\ \/ \E o \in AcceptedBids(j) :
             Ask(w, [kind |-> "clientCancel", job |-> j, bids |-> {o}])
       \/ /\ AcceptedBids(j) = {}
          /\ Ask(w, [kind |-> "clientCancel", job |-> j, bids |-> {}])

Mut_ReopensAsDraft(kind, j) == IF kind = "clientCancel" THEN "CANCELLED" ELSE "DRAFT"
Mut_StaysMatched(kind, j) ==
    IF kind = "clientCancel" /\ j \notin ReturnTrips THEN "CANCELLED" ELSE "MATCHED"

(* A cancelled classic mission is over when its client left, and open      *)
(* again when its transporter did; a return trip is open again.            *)
StatusAfterCancel(kind, j) ==
    IF kind = "clientCancel" /\ j \notin ReturnTrips THEN "CANCELLED" ELSE "PUBLISHED"

(* The transaction of either cancellation.                                 *)
CancelSave(w) ==
    LET j == task[w].job IN
    /\ task[w].kind \in {"clientCancel", "transporterCancel"}
    /\ offer' = Voided(task[w].bids)
    /\ job' = [job EXCEPT ![j] = StatusAfterCancel(task[w].kind, j)]
    /\ RefundEscrow(j)
    /\ booking' = [booking EXCEPT ![j] = "NONE"]
    /\ Answer(w)
    /\ UNCHANGED <<gateway, dispute, ledger, scheduler, crashes, late>>

(* The owner withdraws a mission nobody was accepted on: no transaction,   *)
(* the mission is saved first and its bids expire in a second statement.   *)
OwnerCancelRead(w, j) ==
    /\ j \notin ReturnTrips
    /\ job[j] = "PUBLISHED"
    /\ Ask(w, [kind |-> "ownerCancel", job |-> j])

OwnerCancelSave(w) ==
    /\ task[w].kind = "ownerCancel"
    /\ job' = [job EXCEPT ![task[w].job] = "CANCELLED"]
    /\ Serve(w, [kind |-> "expireOffers", job |-> task[w].job])
    /\ UNCHANGED <<offer, booking, escrow, gateway, refunds, dispute, ledger, scheduler, crashes, late>>

ExpireOffers(w) ==
    /\ task[w].kind = "expireOffers"
    /\ offer' = Voided(BidsOf(task[w].job))
    /\ Answer(w)
    /\ UNCHANGED <<job, booking, escrow, gateway, refunds, dispute, ledger, scheduler, crashes, late>>

-----------------------------------------------------------------------------
(* Disputes.                                                               *)

(* For the history: d becomes active.                                      *)
NoteActive(d) ==
    late' = IF \E e \in Escrows : EscrowJob[e] = DisputeJob[d] /\ Locked(e)
              THEN late \cup {d}
              ELSE late \ {d}

(* The partial unique index allows one active dispute per mission.  No     *)
(* lock is taken that a release would wait for.                            *)
OpenDispute(w, d) ==
    /\ Free(w)
    /\ dispute[d].status = "ABSENT"
    /\ ActiveOn(DisputeJob[d], dispute) = {}
    /\ dispute' = [dispute EXCEPT ![d].status = "OPEN"]
    /\ NoteActive(d)
    /\ UNCHANGED <<mission, escrow, gateway, refunds, ledger, scheduler, task, crashes>>

InvestigateRead(w, d) ==
    /\ dispute[d].status = "OPEN"
    /\ Ask(w, [kind |-> "investigate", dispute |-> d])

(* The whole stale row is saved, its outcome as it was read; the index     *)
(* refuses a second active dispute.                                        *)
InvestigateSave(w) ==
    LET d == task[w].dispute IN
    /\ task[w].kind = "investigate"
    /\ ~BeingRuled(d)
    /\ IF ActiveOn(DisputeJob[d], dispute) \ {d} = {}
         THEN /\ dispute' = [dispute EXCEPT ![d] =
                                 [status |-> "INVESTIGATING", outcome |-> "NONE"]]
              /\ IF dispute[d].status \in ActiveStatuses THEN UNCHANGED late ELSE NoteActive(d)
         ELSE UNCHANGED <<dispute, late>>
    /\ Answer(w)
    /\ UNCHANGED <<mission, escrow, gateway, refunds, ledger, scheduler, crashes>>

(* ALLOWED_TRANSITIONS: RESOLVED and REJECTED are reached from here only.  *)
MayBeRuled(d) == dispute[d].status = "INVESTIGATING"

RejectRead(w, d) ==
    /\ MayBeRuled(d)
    /\ Ask(w, [kind |-> "reject", dispute |-> d])

RejectSave(w) ==
    /\ task[w].kind = "reject"
    /\ ~BeingRuled(task[w].dispute)
    /\ dispute' = [dispute EXCEPT ![task[w].dispute] =
                       [status |-> "REJECTED", outcome |-> "NONE"]]
    /\ Answer(w)
    /\ UNCHANGED <<mission, escrow, gateway, refunds, ledger, scheduler, crashes, late>>

ResolveRead(w, d, outcome) ==
    /\ MayBeRuled(d)
    /\ Ask(w, [kind |-> "resolve", dispute |-> d, outcome |-> outcome])

(* The movements that raise, and so abort the ruling.                      *)
MoveFails(outcome, j, disputes) ==
    \/ outcome = "RELEASE_TRANSPORTER" /\ Releasable(j, disputes) = {}
    \/ outcome = "SPLIT" /\ Refundable(j) = {}

Mut_ErrorSwallowed(outcome, j) ==
    \/ outcome \in {"NONE", "RELEASE_TRANSPORTER", "SPLIT"} /\ UNCHANGED money
    \/ outcome = "REFUND_CLIENT" /\ RefundEscrow(j)

(* What the other rulings move, in one step under the lock of the row.     *)
MoveMoney(outcome, j) ==
    \/ outcome = "NONE" /\ UNCHANGED money
    \/ outcome = "REFUND_CLIENT" /\ RefundEscrow(j)
    \/ outcome = "SPLIT" /\ SplitEscrow(j)

(* A ruling and the money it moves are one transaction.  The release is    *)
(* tested with the disputes as the ruling leaves them.                     *)
ResolveSave(w) ==
    LET d == task[w].dispute
        j == DisputeJob[d]
        outcome == task[w].outcome
        ruled == [dispute EXCEPT ![d] = [status |-> "RESOLVED", outcome |-> outcome]]
    IN
    /\ task[w].kind = "resolve"
    /\ ~BeingRuled(d)
    /\ \/ MoveMoney(outcome, j) /\ dispute' = ruled /\ Answer(w)
       \/ /\ outcome = "RELEASE_TRANSPORTER"
          /\ BeginRelease(w, j, ruled, {d})
          /\ UNCHANGED <<money, dispute>>
       \/ MoveFails(outcome, j, ruled) /\ Answer(w) /\ UNCHANGED <<money, dispute>>
    /\ UNCHANGED <<mission, gateway, ledger, scheduler, crashes, late>>

-----------------------------------------------------------------------------
(* A worker is killed: what it has written stays, the rest never happens.  *)
Crash(w) ==
    /\ ~Free(w)
    /\ crashes < MaxCrashes
    /\ crashes' = crashes + 1
    /\ Answer(w)
    /\ UNCHANGED <<mission, escrow, gateway, refunds, dispute, ledger, scheduler, late>>

(* A request comes in. *)
Receive(w) ==
    \/ \E o \in Offers, m \in PaymentMethod : AcceptOffer(w, o, m) \/ AcceptTripRequest(w, o, m)
    \/ \E o \in Offers : TransporterCancelRead(w, o)
    \/ \E j \in Jobs :
          \/ ConfirmStart(w, j) \/ InitiateCheck(w, j) \/ CompleteRead(w, j)
          \/ ConfirmCompletion(w, j) \/ AdminRelease(w, j)
          \/ ClientCancelRead(w, j) \/ OwnerCancelRead(w, j)
    \/ \E e \in Escrows : WebhookRead(w, e) \/ VerifyRead(w, e)
    \/ \E d \in Disputes :
          \/ OpenDispute(w, d) \/ InvestigateRead(w, d) \/ RejectRead(w, d)
          \/ \E outcome \in Outcome : ResolveRead(w, d, outcome)

(* A request in flight goes on. *)
Proceed(w) ==
    \/ InitiateCreate(w) \/ InitiateRefused(w) \/ CallbackSave(w)
    \/ VerifyUnanswered(w) \/ Activate(w)
    \/ CompleteSave(w) \/ RecordDebt(w) \/ ReleaseSave(w) \/ CancelSave(w)
    \/ OwnerCancelSave(w) \/ ExpireOffers(w)
    \/ InvestigateSave(w) \/ RejectSave(w) \/ ResolveSave(w)

Next ==
    \/ \E w \in Workers : Receive(w) \/ Proceed(w) \/ Crash(w)
    \/ \E e \in Escrows :
          \/ \E result \in {"paid", "failed"} : GatewaySettles(e, result)
          \/ ListDue(e) \/ AutoRelease(e) \/ AutoReleaseSave(e)

Spec == Init /\ [][Next]_vars

(* A worker that is alive goes on with its request; the scheduler runs     *)
(* every few minutes; the gateway repeats a webhook until a worker takes   *)
(* it, and the listening socket hands requests out in order, so that no    *)
(* webhook waits for ever behind other requests.  Nothing forces a user,   *)
(* a moderator or an administrator to act.                                 *)
Fairness ==
    /\ \A w \in Workers : WF_vars(Proceed(w))
    /\ \A e \in Escrows :
          /\ SF_vars(\E w \in Workers : WebhookRead(w, e))
          /\ WF_vars(ListDue(e))
          /\ WF_vars(AutoRelease(e))
          /\ WF_vars(AutoReleaseSave(e))

FairSpec == Spec /\ Fairness
-----------------------------------------------------------------------------
(* Properties that hold for any number of workers.                         *)

(* Money is held for the transporter, or released to him, only for a row   *)
(* whose payment link was really paid, however callbacks, cancellations    *)
(* and rulings overwrite one another.                                      *)
ReleasedWasPaid ==
    \A e \in Escrows : escrow[e] \in {"HELD", "RELEASED"} => gateway[e] = "paid"

(* Escrow strict (D3): a DIGITAL mission is in progress only if some       *)
(* payment of it was made at the gateway.                                  *)
DigitalStartIsPaid ==
    \A j \in Jobs : job[j] = "IN_PROGRESS" /\ booking[j] = "DIGITAL" =>
        \E e \in Escrows : EscrowJob[e] = j /\ gateway[e] = "paid"

(* A mission that is matched or in progress has its Booking, the contract  *)
(* that holds the payment method and the delivery PIN: without one,        *)
(* JobCompleteView asks for no PIN.  Stale saves of the mission and the    *)
(* deletion of the booking may not part the two.                           *)
ActiveIsBooked ==
    \A j \in Jobs : job[j] \in {"MATCHED", "IN_PROGRESS"} => booking[j] # "NONE"

(* A row marked REFUNDED has its rows in the back-office queue:            *)
(* "a due refund can never be silently lost" (_create_refund_request).     *)
RefundIsQueued ==
    \A e \in Escrows : escrow[e] = "REFUNDED" => refunds[e] # <<>>

(* The hard block of release_escrow_on_completion, as far as it goes.  No  *)
(* step of a client, an administrator, a moderator or the scheduler pays   *)
(* the transporter while the mission has an active dispute after the step, *)
(* be it one opened since the scheduler made its list, or one that a stale *)
(* save of a moderator has made active again.  The exception is in the     *)
(* code: the test reads the disputes without a lock, so a dispute that     *)
(* becomes active between the test and the save (late) does not block.     *)
ReleaseBlockedByDispute ==
    [][\A e \in Escrows :
          escrow[e] # "RELEASED" /\ escrow'[e] = "RELEASED" =>
              ActiveOn(EscrowJob[e], dispute') \subseteq late]_vars

-----------------------------------------------------------------------------
(* Properties that hold when one worker serves the requests one by one.    *)

(* The mission, its accepted bid and its booking agree: a mission that is  *)
(* matched, in progress or delivered has one accepted bid and a contract,  *)
(* and any other mission has neither.                                      *)
EngagedHasContract ==
    \A j \in Jobs :
        LET engaged == job[j] \in {"MATCHED", "IN_PROGRESS", "COMPLETED"} IN
        /\ (booking[j] # "NONE") <=> engaged
        /\ (\E o \in Offers : AcceptedBids(j) = {o}) <=> engaged
        /\ AcceptedBids(j) = {} <=> ~engaged

(* A ruling that pays the transporter or shares the sum has moved money of *)
(* its mission: a released row, or a row with the client's part queued.    *)
RulingMovedMoney ==
    \A d \in Disputes : dispute[d].status = "RESOLVED" =>
        /\ dispute[d].outcome = "RELEASE_TRANSPORTER" =>
              \E e \in RowsOf(DisputeJob[d]) : escrow[e] = "RELEASED"
        /\ dispute[d].outcome = "SPLIT" =>
              \E e \in RowsOf(DisputeJob[d]) :
                  escrow[e] = "REFUNDED" /\ refunds[e] # <<>> /\ refunds[e][1].share = "PART"

(* Whom the sum of a row has been promised to, as EscrowContract sees it,  *)
(* from the row's status and its rows of the refund queue.                 *)
ClientShares(queued) == {i \in DOMAIN queued : queued[i].type = "CLIENT"}
Payees(status, queued) ==
    LET refunded(share, parts) ==
            /\ status = "REFUNDED"
            /\ Len(queued) = parts
            /\ ClientShares(queued) = {1}
            /\ queued[1].share = share
    IN  CASE queued = <<>> /\ status = "RELEASED" -> "transporter"
          [] queued = <<>> /\ status # "RELEASED" -> "nobody"
          [] refunded("FULL", 1) -> "client"
          [] refunded("PART", 2) -> "both"
          [] refunded("PART", 1) -> "clientPart"
          [] OTHER -> "wrong"

Contract == INSTANCE EscrowContract
    WITH stage <- escrow, payees <- [e \in Escrows |-> Payees(escrow[e], refunds[e])]

(* The escrow rows live by the documented machine: each row moves forward  *)
(* only, one at a time, and its sum goes out once.                         *)
ImplementsContract == Contract!Spec

-----------------------------------------------------------------------------
(* Liveness, under FairSpec.                                               *)

(* A paid link does not leave its row INITIATED for ever, whatever else    *)
(* the workers are asked to do and even if they die.                       *)
PaidIsRecorded ==
    \A e \in Escrows : (escrow[e] = "INITIATED" /\ gateway[e] = "paid") ~> escrow[e] # "INITIATED"

(* The sum held for a delivered mission reaches the transporter, if the    *)
(* row is the only one of its mission and nobody opens a dispute.          *)
DeliveredIsPaidOut ==
    \A e \in Escrows :
        LET j == EscrowJob[e] IN
        (job[j] = "COMPLETED" /\ escrow[e] = "HELD") ~>
            \/ escrow[e] \in {"RELEASED", "REFUNDED"}
            \/ RowsOf(j) # {e}
            \/ \E d \in Disputes : DisputeJob[d] = j /\ dispute[d].status # "ABSENT"
            \/ job[j] # "COMPLETED"

(* Unless a worker dies, the commission of a mission whose delivery has    *)
(* found it booked for cash is booked as a debt.  The booking is the one   *)
(* the request has read: a delivery that is saved after its mission was    *)
(* cancelled and booked again for cash by two other requests books none.   *)
DebtIsRecorded ==
    \A j \in Jobs :
        (\E w \in Workers : task[w] = [kind |-> "complete", job |-> j, method |-> "COD"])
            ~> (j \in ledger \/ crashes > 0)

-----------------------------------------------------------------------------
(* What a comment or a docstring of the code says and the code does not    *)
(* keep; each is checked by a run that finds the counterexample.           *)

(* "State Machine: INITIATED -> HELD -> RELEASED/REFUNDED" and "Escrow is  *)
(* immutable after RELEASED": the last two statuses are never left.        *)
SettledRowIsFinal ==
    [][\A e \in Escrows : escrow[e] \in {"RELEASED", "REFUNDED"} => escrow'[e] = escrow[e]]_vars

=============================================================================
