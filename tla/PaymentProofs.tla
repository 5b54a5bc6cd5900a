---------------------------- MODULE PaymentProofs ----------------------------
(***************************************************************************)
(* Theorems about Payment for every set of missions, bids, rows, disputes  *)
(* and workers, and any number of crashes: first those of any number of    *)
(* workers, then those of one.                                             *)
(*                                                                         *)
(* With one worker, Payment implements EscrowContract: while a callback is  *)
(* between its read and its save nothing else writes its row, so every      *)
(* write of the row is one move of the contract.  With one worker a mission *)
(* and its contract agree, and a ruling has moved money.                   *)
(***************************************************************************)
EXTENDS Payment, TLAPS

-----------------------------------------------------------------------------
(* Lemmas about the requests in flight.                                    *)

(* A request in flight carries the fields its kind calls for.              *)
LEMMA TaskFields ==
    ASSUME TypeOK, NEW w \in Workers
    PROVE  /\ task[w].kind \in {"initiate", "ownerCancel", "expireOffers", "recordDebt",
                                "complete", "clientCancel", "transporterCancel"}
                  => task[w].job \in Jobs
           /\ task[w].kind \in {"clientCancel", "transporterCancel"} => task[w].bids \subseteq Offers
           /\ task[w].kind \in {"webhook", "verify", "activate"} => task[w].escrow \in Escrows
           /\ task[w].kind \in {"investigate", "reject", "resolve"}
                  => task[w].dispute \in Disputes
           /\ task[w].kind = "resolve" => task[w].outcome \in Outcome
           /\ task[w].kind = "release" =>
                  task[w].escrow \in Escrows /\ task[w].ruling \subseteq Disputes
<1>1. task[w] \in Task
  BY DEF TypeOK
<1>2. QED
  BY <1>1 DEF Task, Idle

(* Each request a handler may start, or go on with, is a Task.             *)
LEMMA RequestsAreTasks ==
    /\ Idle \in Task
    /\ \A j \in Jobs :
          /\ \A k \in {"initiate", "ownerCancel", "expireOffers", "recordDebt"} :
                [kind |-> k, job |-> j] \in Task
          /\ \A m \in PaymentMethod \cup {"NONE"} :
                [kind |-> "complete", job |-> j, method |-> m] \in Task
          /\ \A k \in {"clientCancel", "transporterCancel"}, bids \in SUBSET Offers :
                [kind |-> k, job |-> j, bids |-> bids] \in Task
    /\ \A e \in Escrows, k \in {"webhook", "verify", "activate"} :
          [kind |-> k, escrow |-> e] \in Task
    /\ \A e \in Escrows, R \in SUBSET Disputes :
          [kind |-> "release", escrow |-> e, ruling |-> R] \in Task
    /\ \A d \in Disputes :
          /\ \A k \in {"investigate", "reject"} : [kind |-> k, dispute |-> d] \in Task
          /\ \A out \in Outcome : [kind |-> "resolve", dispute |-> d, outcome |-> out] \in Task
BY DEF Task

LEMMA ServeType ==
    ASSUME TypeOK, NEW w \in Workers, NEW request \in Task, Serve(w, request)
    PROVE  task' \in [Workers -> Task]
BY DEF TypeOK, Serve

LEMMA AnswerType ==
    ASSUME TypeOK, NEW w \in Workers, Answer(w)
    PROVE  task' \in [Workers -> Task]
BY ServeType, RequestsAreTasks DEF Answer

-----------------------------------------------------------------------------
(* Lemmas about the services that move money.                              *)

(* A refund marks one row and queues something for it.                     *)
LEMMA SendBackMoves ==
    ASSUME TypeOK, NEW e \in Escrows, NEW rows \in Seq(RefundRow), rows # <<>>,
           SendBack(e, rows)
    PROVE  /\ escrow' \in [Escrows -> EscrowStatus]
           /\ refunds' \in [Escrows -> Seq(RefundRow)]
           /\ \A f \in Escrows :
                 \/ escrow'[f] = escrow[f] /\ refunds'[f] = refunds[f]
                 \/ escrow'[f] = "REFUNDED" /\ refunds'[f] # <<>>
<1>1. /\ refunds[e] \o rows \in Seq(RefundRow)
      /\ refunds[e] \o rows # <<>>
  BY DEF TypeOK
<1>2. QED
  BY <1>1 DEF TypeOK, SendBack, EscrowStatus

LEMMA RowsToQueue ==
    ASSUME PaymentAssumption, TypeOK, NEW j \in Jobs
    PROVE  /\ <<ClientRow("FULL", j)>> \in Seq(RefundRow)
           /\ <<ClientRow("FULL", j)>> # <<>>
           /\ SplitRows(j) \in Seq(RefundRow)
           /\ SplitRows(j) # <<>>
<1>1. /\ ClientRow("FULL", j) \in RefundRow
      /\ ClientRow("PART", j) \in RefundRow
      /\ TransporterRow \in RefundRow
  BY DEF ClientRow, TransporterRow, RefundRow, Party
<1>2. QED
  BY <1>1 DEF SplitRows

LEMMA RefundMoves ==
    ASSUME PaymentAssumption, TypeOK, NEW j \in Jobs, RefundEscrow(j) \/ SplitEscrow(j)
    PROVE  /\ escrow' \in [Escrows -> EscrowStatus]
           /\ refunds' \in [Escrows -> Seq(RefundRow)]
           /\ \A f \in Escrows :
                 \/ escrow'[f] = escrow[f] /\ refunds'[f] = refunds[f]
                 \/ escrow'[f] = "REFUNDED" /\ refunds'[f] # <<>>
<1>1. CASE Refundable(j) = {} /\ UNCHANGED money
  BY <1>1 DEF TypeOK, money
<1>2. CASE \E e \in Refundable(j) : SendBack(e, <<ClientRow("FULL", j)>>)
  BY <1>2, SendBackMoves, RowsToQueue DEF Refundable, RowsOf
<1>3. CASE \E e \in Refundable(j) : SendBack(e, SplitRows(j))
  BY <1>3, SendBackMoves, RowsToQueue DEF Refundable, RowsOf
<1>4. QED
  BY <1>1, <1>2, <1>3 DEF RefundEscrow, SplitEscrow

(* A release that begins has found one held row, free of locks, of a       *)
(* mission without an active dispute.                                      *)
LEMMA BeginFinds ==
    ASSUME NEW w \in Workers, NEW j, NEW disputes, NEW ruling \in SUBSET Disputes,
           BeginRelease(w, j, disputes, ruling)
    PROVE  \E e \in Escrows :
              /\ escrow[e] = "HELD"
              /\ EscrowJob[e] = j
              /\ ActiveOn(j, disputes) = {}
              /\ ~Locked(e)
              /\ [kind |-> "release", escrow |-> e, ruling |-> ruling] \in Task
              /\ Serve(w, [kind |-> "release", escrow |-> e, ruling |-> ruling])
BY RequestsAreTasks DEF BeginRelease, Releasable, RowsOf

LEMMA BeginType ==
    ASSUME TypeOK, NEW w \in Workers, NEW j, NEW disputes, NEW ruling \in SUBSET Disputes,
           BeginRelease(w, j, disputes, ruling)
    PROVE  task' \in [Workers -> Task]
<1>1. PICK e \in Escrows :
          /\ [kind |-> "release", escrow |-> e, ruling |-> ruling] \in Task
          /\ Serve(w, [kind |-> "release", escrow |-> e, ruling |-> ruling])
  BY BeginFinds
<1>2. QED
  BY <1>1, ServeType

LEMMA NoteType ==
    ASSUME TypeOK, NEW d \in Disputes, NoteActive(d)
    PROVE  late' \subseteq Disputes
<1>1. late' = late \cup {d} \/ late' = late \ {d}
  BY DEF NoteActive
<1>2. QED
  BY <1>1 DEF TypeOK

-----------------------------------------------------------------------------
(* Typing.                                                                 *)

LEMMA InitType == Init => TypeOK
BY PaymentAssumption, RequestsAreTasks
   DEF Init, TypeOK, JobStatus, OfferStatus, EscrowStatus, LinkStatus, DisputeStatus, Outcome

(* The first half of a handler changes nothing but its worker's request.   *)
LEMMA AskType ==
    ASSUME TypeOK, NEW w \in Workers, NEW request \in Task, Ask(w, request)
    PROVE  TypeOK'
BY ServeType DEF TypeOK, Ask, database, mission, money, scheduler

LEMMA ReceiveType ==
    ASSUME TypeOK, NEW w \in Workers, Receive(w)
    PROVE  TypeOK'
<1> USE PaymentAssumption
<1>1. CASE \E o \in Offers, m \in PaymentMethod : AcceptOffer(w, o, m)
  BY <1>1 DEF TypeOK, AcceptOffer, Voided, OfferStatus, JobStatus, scheduler
<1>2. CASE \E o \in Offers, m \in PaymentMethod : AcceptTripRequest(w, o, m)
  BY <1>2 DEF TypeOK, AcceptTripRequest, OfferStatus, JobStatus, scheduler
<1>3. CASE \E o \in Offers : TransporterCancelRead(w, o)
  <2>1. PICK o \in Offers : TransporterCancelRead(w, o)
    BY <1>3
  <2>2. OfferJob[o] \in Jobs /\ {o} \in SUBSET Offers
    OBVIOUS
  <2>3. QED
    BY <2>1, <2>2, AskType, RequestsAreTasks DEF TransporterCancelRead
<1>4. CASE \E j \in Jobs : ConfirmStart(w, j)
  BY <1>4 DEF TypeOK, ConfirmStart, JobStatus, scheduler
<1>5. CASE \E j \in Jobs : InitiateCheck(w, j) \/ OwnerCancelRead(w, j)
  BY <1>5, AskType, RequestsAreTasks DEF InitiateCheck, OwnerCancelRead
<1>6. CASE \E j \in Jobs : CompleteRead(w, j)
  <2>1. PICK j \in Jobs : CompleteRead(w, j)
    BY <1>6
  <2>2. booking[j] \in PaymentMethod \cup {"NONE"}
    BY DEF TypeOK
  <2>3. QED
    BY <2>1, <2>2, AskType, RequestsAreTasks DEF CompleteRead
<1>7. CASE \E j \in Jobs : ConfirmCompletion(w, j) \/ AdminRelease(w, j)
  <2>1. task' \in [Workers -> Task] /\ UNCHANGED <<database, scheduler, crashes, late>>
    BY <1>7, BeginType DEF ConfirmCompletion, AdminRelease
  <2>2. QED
    BY <2>1 DEF TypeOK, database, mission, money, scheduler
<1>8. CASE \E j \in Jobs : ClientCancelRead(w, j)
  <2>1. PICK j \in Jobs : ClientCancelRead(w, j)
    BY <1>8
  <2>2. \A o \in AcceptedBids(j) : {o} \in SUBSET Offers
    BY DEF AcceptedBids, BidsOf
  <2>3. QED
    BY <2>1, <2>2, AskType, RequestsAreTasks DEF ClientCancelRead
<1>9. CASE \E e \in Escrows : WebhookRead(w, e) \/ VerifyRead(w, e)
  BY <1>9, AskType, RequestsAreTasks DEF WebhookRead, VerifyRead
<1>10. CASE \E d \in Disputes : OpenDispute(w, d)
  <2>1. PICK d \in Disputes : OpenDispute(w, d)
    BY <1>10
  <2>2. late' \subseteq Disputes
    BY <2>1, NoteType DEF OpenDispute
  <2>3. dispute' \in [Disputes -> [status : DisputeStatus, outcome : Outcome]]
    BY <2>1 DEF TypeOK, OpenDispute, DisputeStatus
  <2>4. QED
    BY <2>1, <2>2, <2>3 DEF TypeOK, OpenDispute, mission, scheduler
<1>11. CASE \E d \in Disputes :
               \/ InvestigateRead(w, d) \/ RejectRead(w, d)
               \/ \E outcome \in Outcome : ResolveRead(w, d, outcome)
  BY <1>11, AskType, RequestsAreTasks DEF InvestigateRead, RejectRead, ResolveRead
<1>12. QED
  BY <1>1, <1>2, <1>3, <1>4, <1>5, <1>6, <1>7, <1>8, <1>9, <1>10, <1>11 DEF Receive

LEMMA ProceedType ==
    ASSUME TypeOK, NEW w \in Workers, Proceed(w)
    PROVE  TypeOK'
<1> USE PaymentAssumption
<1>1. CASE InitiateCreate(w)
  BY <1>1, AnswerType DEF TypeOK, InitiateCreate, EscrowStatus, First, mission, scheduler
<1>2. CASE InitiateRefused(w) \/ VerifyUnanswered(w)
  BY <1>2, AnswerType DEF TypeOK, InitiateRefused, VerifyUnanswered, database, mission, money, scheduler
<1>3. CASE CallbackSave(w)
  <2>1. task[w].escrow \in Escrows
    BY <1>3, TaskFields DEF CallbackSave
  <2>2. task' \in [Workers -> Task]
    BY <1>3, <2>1, AnswerType, ServeType, RequestsAreTasks DEF CallbackSave
  <2>3. QED
    BY <1>3, <2>1, <2>2 DEF TypeOK, CallbackSave, EscrowStatus, mission, scheduler
<1>4. CASE Activate(w)
  BY <1>4, AnswerType DEF TypeOK, Activate, JobStatus, scheduler
<1>5. CASE CompleteSave(w)
  <2>1. task[w].job \in Jobs
    BY <1>5, TaskFields DEF CompleteSave
  <2>2. task' \in [Workers -> Task]
    BY <1>5, <2>1, AnswerType, ServeType, RequestsAreTasks DEF CompleteSave
  <2>3. QED
    BY <1>5, <2>2 DEF TypeOK, CompleteSave, JobStatus, scheduler
<1>6. CASE RecordDebt(w)
  BY <1>6, TaskFields, AnswerType DEF TypeOK, RecordDebt, mission, scheduler
<1>7. CASE CancelSave(w)
  <2>1. task[w].job \in Jobs
    BY <1>7, TaskFields DEF CancelSave
  <2>2. /\ escrow' \in [Escrows -> EscrowStatus]
        /\ refunds' \in [Escrows -> Seq(RefundRow)]
    BY <1>7, <2>1, RefundMoves DEF CancelSave
  <2>3. StatusAfterCancel(task[w].kind, task[w].job) \in JobStatus
    BY DEF StatusAfterCancel, JobStatus
  <2>4. QED
    BY <1>7, <2>2, <2>3, AnswerType DEF TypeOK, CancelSave, Voided, OfferStatus, scheduler
<1>8. CASE OwnerCancelSave(w)
  <2>1. task[w].job \in Jobs
    BY <1>8, TaskFields DEF OwnerCancelSave
  <2>2. task' \in [Workers -> Task]
    BY <1>8, <2>1, ServeType, RequestsAreTasks DEF OwnerCancelSave
  <2>3. QED
    BY <1>8, <2>2 DEF TypeOK, OwnerCancelSave, JobStatus, scheduler
<1>9. CASE ExpireOffers(w)
  BY <1>9, AnswerType DEF TypeOK, ExpireOffers, Voided, OfferStatus, scheduler
<1>10. CASE InvestigateSave(w)
  <2>1. task[w].dispute \in Disputes
    BY <1>10, TaskFields DEF InvestigateSave
  <2>2. late' \subseteq Disputes
    BY <1>10, <2>1, NoteType DEF InvestigateSave, TypeOK
  <2>3. QED
    BY <1>10, <2>1, <2>2, AnswerType
       DEF TypeOK, InvestigateSave, DisputeStatus, Outcome, mission, scheduler
<1>11. CASE RejectSave(w)
  BY <1>11, AnswerType DEF TypeOK, RejectSave, DisputeStatus, Outcome, mission, scheduler
<1>12. CASE ResolveSave(w)
  <2> DEFINE d == task[w].dispute
             ruled == [dispute EXCEPT ![d] = [status |-> "RESOLVED",
                                              outcome |-> task[w].outcome]]
  <2>1. /\ d \in Disputes
        /\ DisputeJob[d] \in Jobs
        /\ task[w].outcome \in Outcome
    BY <1>12, TaskFields DEF ResolveSave
  <2>2. CASE MoveMoney(task[w].outcome, DisputeJob[d]) /\ dispute' = ruled /\ Answer(w)
    <3>1. /\ escrow' \in [Escrows -> EscrowStatus]
          /\ refunds' \in [Escrows -> Seq(RefundRow)]
      BY <2>1, <2>2, RefundMoves DEF MoveMoney, TypeOK, money
    <3>2. dispute' \in [Disputes -> [status : DisputeStatus, outcome : Outcome]]
      BY <2>1, <2>2 DEF TypeOK, DisputeStatus
    <3>3. QED
      BY <1>12, <2>2, <3>1, <3>2, AnswerType DEF TypeOK, ResolveSave, mission, scheduler
  <2>3. CASE BeginRelease(w, DisputeJob[d], ruled, {d}) /\ UNCHANGED <<money, dispute>>
    <3>1. {d} \in SUBSET Disputes /\ BeginRelease(w, DisputeJob[d], ruled, {d})
      BY <2>1, <2>3
    <3> HIDE DEF d, ruled
    <3>2. task' \in [Workers -> Task]
      BY <3>1, BeginType
    <3>3. QED
      BY <1>12, <2>3, <3>2 DEF TypeOK, ResolveSave, mission, money, scheduler
  <2>4. CASE Answer(w) /\ UNCHANGED <<money, dispute>>
    BY <1>12, <2>4, AnswerType DEF TypeOK, ResolveSave, mission, money, scheduler
  <2>5. QED
    BY <1>12, <2>2, <2>3, <2>4 DEF ResolveSave
<1>13. CASE ReleaseSave(w)
  BY <1>13, AnswerType
     DEF TypeOK, ReleaseSave, EscrowStatus, DisputeStatus, Outcome, mission, scheduler
<1>14. QED
  BY <1>1, <1>2, <1>3, <1>4, <1>5, <1>6, <1>7, <1>8, <1>9, <1>10, <1>11, <1>12, <1>13
     DEF Proceed

LEMMA ExternalType ==
    ASSUME TypeOK, NEW e \in Escrows,
           \/ \E result \in {"paid", "failed"} : GatewaySettles(e, result)
           \/ ListDue(e)
           \/ AutoRelease(e)
           \/ AutoReleaseSave(e)
    PROVE  TypeOK'
<1>1. CASE \E result \in {"paid", "failed"} : GatewaySettles(e, result)
  BY <1>1 DEF TypeOK, GatewaySettles, LinkStatus, mission, scheduler
<1>2. CASE ListDue(e)
  BY <1>2 DEF TypeOK, ListDue, database, mission, money
<1>3. CASE AutoRelease(e)
  BY <1>3 DEF TypeOK, AutoRelease, database, mission, money
<1>4. CASE AutoReleaseSave(e)
  BY <1>4 DEF TypeOK, AutoReleaseSave, EscrowStatus, mission
<1>5. QED
  BY <1>1, <1>2, <1>3, <1>4

LEMMA TypeStep == TypeOK /\ [Next]_vars => TypeOK'
<1> SUFFICES ASSUME TypeOK, [Next]_vars PROVE TypeOK'
  OBVIOUS
<1>1. CASE \E w \in Workers : Receive(w) \/ Proceed(w)
  BY <1>1, ReceiveType, ProceedType
<1>2. CASE \E w \in Workers : Crash(w)
  BY <1>2, AnswerType, PaymentAssumption DEF TypeOK, Crash, mission, scheduler
<1>3. CASE \E e \in Escrows :
              \/ \E result \in {"paid", "failed"} : GatewaySettles(e, result)
              \/ ListDue(e)
              \/ AutoRelease(e)
              \/ AutoReleaseSave(e)
  BY <1>3, ExternalType
<1>4. CASE UNCHANGED vars
  BY <1>4 DEF TypeOK, vars, database, mission, money, scheduler
<1>5. QED
  BY <1>1, <1>2, <1>3, <1>4 DEF Next

(* Every column and every request in flight keeps a value of its type.     *)
THEOREM TypeCorrect == Spec => []TypeOK
<1>1. QED
  BY InitType, TypeStep, PTL DEF Spec

-----------------------------------------------------------------------------
(* Releases under way: between its test and its save, a release holds the  *)
(* lock of a row.                                                          *)

(* A locked row is HELD, and one release holds it.                         *)
LockedIsHeld == \A e \in Escrows : Locked(e) => escrow[e] = "HELD"
OneRelease ==
    \A e \in Escrows :
        /\ e \in paying => \A w \in Workers : ~Releasing(w, e)
        /\ \A w, x \in Workers : Releasing(w, e) /\ Releasing(x, e) => w = x

(* The active disputes of its mission are those it rules, and those that   *)
(* have become active since its test.                                      *)
Tested(e, ruling) ==
    /\ ActiveOn(EscrowJob[e], dispute) \subseteq ruling \cup late
    /\ \A d \in ruling : DisputeJob[d] = EscrowJob[e]
DisputesTested ==
    \A e \in Escrows :
        /\ e \in paying => Tested(e, {})
        /\ \A w \in Workers : Releasing(w, e) => Tested(e, task[w].ruling)

ReleaseInv == LockedIsHeld /\ OneRelease /\ DisputesTested

(* A release of the row begins.                                            *)
Begins(e, ruling) ==
    /\ escrow[e] = "HELD"
    /\ ~Locked(e)
    /\ Tested(e, ruling)
    /\ UNCHANGED <<escrow, dispute, late>>

StartsRelease(x) ==
    \E e \in Escrows, ruling \in SUBSET Disputes :
        /\ Serve(x, [kind |-> "release", escrow |-> e, ruling |-> ruling])
        /\ Begins(e, ruling)
        /\ UNCHANGED paying

(* A worker goes on to another request, which starts neither a mission nor *)
(* a release.                                                              *)
OtherRequest(x) ==
    /\ \A y \in Workers : y # x => task'[y] = task[y]
    /\ task'[x].kind \notin {"activate", "release"}

LEMMA ServeOther ==
    ASSUME TypeOK, NEW x \in Workers, NEW request, Serve(x, request),
           request.kind \notin {"activate", "release"}
    PROVE  OtherRequest(x)
BY DEF TypeOK, Serve, OtherRequest

LEMMA AnswerOther ==
    ASSUME TypeOK, NEW x \in Workers, Answer(x)
    PROVE  OtherRequest(x)
BY ServeOther DEF Answer, Idle

LEMMA BeginStarts ==
    ASSUME NEW x \in Workers, NEW j, NEW ruling \in SUBSET Disputes, NEW disputes,
           \A d \in Disputes : d \notin ruling => disputes[d] = dispute[d],
           \A d \in ruling : DisputeJob[d] = j,
           BeginRelease(x, j, disputes, ruling),
           UNCHANGED <<escrow, dispute, late, paying>>
    PROVE  StartsRelease(x)
<1>1. PICK e \in Escrows :
          /\ escrow[e] = "HELD"
          /\ EscrowJob[e] = j
          /\ ActiveOn(j, disputes) = {}
          /\ ~Locked(e)
          /\ Serve(x, [kind |-> "release", escrow |-> e, ruling |-> ruling])
  BY BeginFinds
<1>2. ActiveOn(j, dispute) \subseteq ruling
  BY <1>1 DEF ActiveOn
<1>3. QED
  BY <1>1, <1>2 DEF StartsRelease, Begins, Tested

(* What a step does to the requests in flight.                             *)
LEMMA TaskCases ==
    ASSUME TypeOK, Next
    PROVE  \/ UNCHANGED task
           \/ \E x \in Workers : OtherRequest(x) \/ CallbackSave(x) \/ StartsRelease(x)
<1>1. ASSUME NEW x \in Workers, Receive(x)
      PROVE  UNCHANGED task \/ OtherRequest(x) \/ StartsRelease(x)
  <2>1. CASE \E o \in Offers : TransporterCancelRead(x, o)
    BY <2>1, ServeOther DEF TransporterCancelRead, Ask
  <2>2. CASE \E j \in Jobs :
                InitiateCheck(x, j) \/ CompleteRead(x, j) \/ OwnerCancelRead(x, j)
    BY <2>2, ServeOther DEF InitiateCheck, CompleteRead, OwnerCancelRead, Ask
  <2>3. CASE \E j \in Jobs : ClientCancelRead(x, j)
    BY <2>3, ServeOther DEF ClientCancelRead, Ask
  <2>4. CASE \E e \in Escrows : WebhookRead(x, e) \/ VerifyRead(x, e)
    BY <2>4, ServeOther DEF WebhookRead, VerifyRead, Ask
  <2>5. CASE \E d \in Disputes :
                \/ InvestigateRead(x, d) \/ RejectRead(x, d)
                \/ \E outcome \in Outcome : ResolveRead(x, d, outcome)
    BY <2>5, ServeOther DEF InvestigateRead, RejectRead, ResolveRead, Ask
  <2>6. CASE \E j \in Jobs : ConfirmCompletion(x, j) \/ AdminRelease(x, j)
    <3>1. PICK j \in Jobs : BeginRelease(x, j, dispute, {})
      BY <2>6 DEF ConfirmCompletion, AdminRelease
    <3>2. UNCHANGED <<escrow, dispute, late, paying>>
      BY <2>6 DEF ConfirmCompletion, AdminRelease, database, money, scheduler
    <3>3. QED
      BY <3>1, <3>2, BeginStarts
  <2>7. QED
    BY <1>1, <2>1, <2>2, <2>3, <2>4, <2>5, <2>6
       DEF Receive, AcceptOffer, AcceptTripRequest, ConfirmStart, OpenDispute
<1>2. ASSUME NEW x \in Workers, Proceed(x), ~CallbackSave(x)
      PROVE  OtherRequest(x) \/ StartsRelease(x)
  <2>1. CASE CompleteSave(x)
    BY <2>1, ServeOther, AnswerOther DEF CompleteSave
  <2>2. CASE OwnerCancelSave(x)
    BY <2>2, ServeOther DEF OwnerCancelSave
  <2>3. CASE Answer(x)
    BY <2>3, AnswerOther
  <2>4. CASE ResolveSave(x) /\ ~Answer(x)
    <3> DEFINE d == task[x].dispute
               ruled == [dispute EXCEPT ![d] = [status |-> "RESOLVED",
                                                outcome |-> task[x].outcome]]
    <3>1. d \in Disputes
      BY <2>4, TaskFields DEF ResolveSave
    <3>2. /\ BeginRelease(x, DisputeJob[d], ruled, {d})
          /\ UNCHANGED <<escrow, dispute, late, paying>>
      BY <2>4 DEF ResolveSave, money, scheduler
    <3>3. \A c \in Disputes : c \notin {d} => ruled[c] = dispute[c]
      BY <3>1 DEF TypeOK
    <3> HIDE DEF d, ruled
    <3>4. QED
      BY <3>1, <3>2, <3>3, BeginStarts
  <2>5. QED
    BY <1>2, <2>1, <2>2, <2>3, <2>4
       DEF Proceed, InitiateCreate, InitiateRefused, VerifyUnanswered, Activate, RecordDebt,
           ReleaseSave, CancelSave, ExpireOffers, InvestigateSave, RejectSave
<1>3. ASSUME NEW x \in Workers, Crash(x)
      PROVE  OtherRequest(x)
  BY <1>3, AnswerOther DEF Crash
<1>4. ASSUME NEW e \in Escrows,
             \/ \E result \in {"paid", "failed"} : GatewaySettles(e, result)
             \/ ListDue(e) \/ AutoRelease(e) \/ AutoReleaseSave(e)
      PROVE  UNCHANGED task
  BY <1>4 DEF GatewaySettles, ListDue, AutoRelease, AutoReleaseSave
<1>5. QED
  BY <1>1, <1>2, <1>3, <1>4 DEF Next

(* A worker that releases a row did so before, or begins now.              *)
LEMMA WorkerHolds ==
    ASSUME TypeOK, Next, NEW w \in Workers, NEW e \in Escrows, Releasing(w, e)'
    PROVE  \/ task'[w] = task[w]
           \/ /\ Begins(e, task'[w].ruling)
              /\ UNCHANGED paying
              /\ \A x \in Workers : x # w => task'[x] = task[x]
<1>1. CASE \E x \in Workers : OtherRequest(x)
  BY <1>1 DEF OtherRequest, Releasing
<1>2. ASSUME NEW x \in Workers, CallbackSave(x) PROVE task'[w] = task[w]
  BY <1>2 DEF CallbackSave, Serve, Answer, TypeOK, Releasing, Idle
<1>3. ASSUME NEW x \in Workers, StartsRelease(x), task'[w] # task[w]
      PROVE  /\ Begins(e, task'[w].ruling)
             /\ UNCHANGED paying
             /\ \A y \in Workers : y # w => task'[y] = task[y]
  <2>1. PICK f \in Escrows, ruling \in SUBSET Disputes :
            /\ Serve(x, [kind |-> "release", escrow |-> f, ruling |-> ruling])
            /\ Begins(f, ruling)
            /\ UNCHANGED paying
    BY <1>3 DEF StartsRelease
  <2>2. /\ x = w
        /\ task'[w] = [kind |-> "release", escrow |-> f, ruling |-> ruling]
        /\ \A y \in Workers : y # w => task'[y] = task[y]
    BY <1>3, <2>1 DEF Serve, TypeOK
  <2>3. f = e /\ task'[w].ruling = ruling
    BY <2>2 DEF Releasing
  <2>4. QED
    BY <2>1, <2>2, <2>3
<1>4. QED
  BY <1>1, <1>2, <1>3, TaskCases

(* And so is a row the pass holds.                                         *)
LEMMA PassHolds ==
    ASSUME TypeOK, Next, NEW e \in Escrows, e \in paying'
    PROVE  e \in paying \/ (Begins(e, {}) /\ UNCHANGED task)
<1>1. CASE \E f \in Escrows : AutoRelease(f)
  <2>1. PICK f \in Escrows : AutoRelease(f)
    BY <1>1
  <2>2. CASE f \in Releasable(EscrowJob[f], dispute) /\ ~Locked(f) /\ paying' = paying \cup {f}
    <3>1. UNCHANGED <<escrow, dispute, late, task>>
      BY <2>1 DEF AutoRelease, database, money
    <3>2. Begins(f, {})
      BY <2>2, <3>1 DEF Begins, Tested, Releasable
    <3>3. QED
      BY <2>2, <3>1, <3>2
  <2>3. CASE UNCHANGED paying
    BY <2>3
  <2>4. QED
    BY <2>1, <2>2, <2>3 DEF AutoRelease
<1>2. CASE \E f \in Escrows : AutoReleaseSave(f)
  BY <1>2 DEF AutoReleaseSave
<1>3. CASE UNCHANGED paying
  BY <1>3
<1>4. ASSUME NEW w \in Workers, Receive(w) PROVE UNCHANGED paying
  BY <1>4
     DEF Receive, AcceptOffer, AcceptTripRequest, TransporterCancelRead, ConfirmStart,
         InitiateCheck, CompleteRead, ConfirmCompletion, AdminRelease, ClientCancelRead,
         OwnerCancelRead, WebhookRead, VerifyRead, OpenDispute, InvestigateRead, RejectRead,
         ResolveRead, Ask, scheduler
<1>5. ASSUME NEW w \in Workers, Proceed(w) \/ Crash(w) PROVE UNCHANGED paying
  BY <1>5
     DEF Proceed, Crash, InitiateCreate, InitiateRefused, CallbackSave, VerifyUnanswered,
         Activate, CompleteSave, RecordDebt, ReleaseSave, CancelSave, OwnerCancelSave,
         ExpireOffers, InvestigateSave, RejectSave, ResolveSave, scheduler
<1>6. ASSUME NEW f \in Escrows,
             \/ \E result \in {"paid", "failed"} : GatewaySettles(f, result)
             \/ ListDue(f)
      PROVE  UNCHANGED paying
  BY <1>6 DEF GatewaySettles, ListDue, scheduler
<1>7. QED
  BY <1>1, <1>2, <1>3, <1>4, <1>5, <1>6 DEF Next

(* A save of a release pays one held row, and the disputes of its mission  *)
(* that are active are late ones.                                          *)
LEMMA ReleaseMoves ==
    ASSUME TypeOK, ReleaseInv,
           (\E w \in Workers : ReleaseSave(w)) \/ (\E e \in Escrows : AutoReleaseSave(e))
    PROVE  \E e \in Escrows :
              /\ escrow[e] = "HELD"
              /\ escrow' = [escrow EXCEPT ![e] = "RELEASED"]
              /\ UNCHANGED <<gateway, refunds>>
              /\ ActiveOn(EscrowJob[e], dispute') \subseteq late
              /\ ~Locked(e)'
<1>1. ASSUME NEW w \in Workers, ReleaseSave(w)
      PROVE  \E e \in Escrows :
                /\ escrow[e] = "HELD"
                /\ escrow' = [escrow EXCEPT ![e] = "RELEASED"]
                /\ UNCHANGED <<gateway, refunds>>
                /\ ActiveOn(EscrowJob[e], dispute') \subseteq late
                /\ ~Locked(e)'
  <2>1. PICK e \in Escrows : e = task[w].escrow
    BY <1>1, TaskFields DEF ReleaseSave
  <2>2. Releasing(w, e) /\ Locked(e)
    BY <1>1, <2>1 DEF ReleaseSave, Releasing, Locked
  <2>3. escrow[e] = "HELD" /\ Tested(e, task[w].ruling)
    BY <2>2 DEF ReleaseInv, LockedIsHeld, DisputesTested
  <2>4. ActiveOn(EscrowJob[e], dispute') \subseteq late
    BY <1>1, <2>3 DEF ReleaseSave, Tested, ActiveOn, ActiveStatuses, TypeOK
  <2>5. ~Locked(e)'
    <3>1. paying' = paying /\ e \notin paying
      BY <1>1, <2>2 DEF ReleaseSave, scheduler, ReleaseInv, OneRelease
    <3>2. \A x \in Workers : Releasing(x, e)' => x # w /\ Releasing(x, e)
      BY <1>1 DEF ReleaseSave, Answer, Serve, Idle, Releasing, TypeOK
    <3>3. \A x \in Workers : Releasing(x, e) => x = w
      BY <2>2 DEF ReleaseInv, OneRelease
    <3>4. QED
      BY <3>1, <3>2, <3>3 DEF Locked
  <2>6. escrow' = [escrow EXCEPT ![e] = "RELEASED"] /\ UNCHANGED <<gateway, refunds>>
    BY <1>1, <2>1 DEF ReleaseSave
  <2>7. QED
    BY <2>3, <2>4, <2>5, <2>6
<1>2. ASSUME NEW e \in Escrows, AutoReleaseSave(e)
      PROVE  /\ escrow[e] = "HELD"
             /\ escrow' = [escrow EXCEPT ![e] = "RELEASED"]
             /\ UNCHANGED <<gateway, refunds>>
             /\ ActiveOn(EscrowJob[e], dispute') \subseteq late
             /\ ~Locked(e)'
  <2>1. Locked(e) /\ e \in paying /\ e \notin paying' /\ task' = task
    BY <1>2 DEF AutoReleaseSave, Locked
  <2>2. escrow[e] = "HELD" /\ Tested(e, {}) /\ \A w \in Workers : ~Releasing(w, e)
    BY <2>1 DEF ReleaseInv, LockedIsHeld, OneRelease, DisputesTested
  <2>3. ~Locked(e)'
    BY <2>1, <2>2 DEF Locked, Releasing
  <2>4. QED
    BY <1>2, <2>2, <2>3 DEF AutoReleaseSave, Tested
<1>3. QED
  BY <1>1, <1>2

(* While a row is locked only the release that holds it writes it.         *)
LEMMA LockedRow ==
    ASSUME TypeOK, ReleaseInv, Next, NEW e \in Escrows, Locked(e), Locked(e)'
    PROVE  escrow'[e] = escrow[e]
<1> USE PaymentAssumption
<1>0. escrow[e] = "HELD"
  BY DEF ReleaseInv, LockedIsHeld
<1>1. CASE UNCHANGED escrow
  BY <1>1
<1>2. ASSUME NEW f \in Escrows, NEW rows, SendBack(f, rows)
      PROVE  escrow'[e] = escrow[e]
  BY <1>2 DEF SendBack, TypeOK
<1>3. ASSUME NEW j \in Jobs, RefundEscrow(j) \/ SplitEscrow(j)
      PROVE  escrow'[e] = escrow[e]
  BY <1>1, <1>2, <1>3 DEF RefundEscrow, SplitEscrow, Refundable, RowsOf, money
<1>4. CASE (\E w \in Workers : ReleaseSave(w)) \/ (\E f \in Escrows : AutoReleaseSave(f))
  BY <1>4, ReleaseMoves DEF TypeOK
<1>5. ASSUME NEW w \in Workers, InitiateCreate(w)
      PROVE  escrow'[e] = escrow[e]
  BY <1>0, <1>5 DEF InitiateCreate, First, TypeOK
<1>6. ASSUME NEW w \in Workers, CallbackSave(w)
      PROVE  escrow'[e] = escrow[e]
  BY <1>6 DEF CallbackSave, TypeOK
<1>7. ASSUME NEW w \in Workers, CancelSave(w)
      PROVE  escrow'[e] = escrow[e]
  BY <1>3, <1>7, TaskFields DEF CancelSave
<1>8. ASSUME NEW w \in Workers, ResolveSave(w)
      PROVE  escrow'[e] = escrow[e]
  BY <1>1, <1>3, <1>8, TaskFields DEF ResolveSave, MoveMoney, money
<1>9. ASSUME NEW w \in Workers, Receive(w)
      PROVE  UNCHANGED escrow
  BY <1>9
     DEF Receive, AcceptOffer, AcceptTripRequest, TransporterCancelRead, ConfirmStart,
         InitiateCheck, CompleteRead, ConfirmCompletion, AdminRelease, ClientCancelRead,
         OwnerCancelRead, WebhookRead, VerifyRead, OpenDispute, InvestigateRead, RejectRead,
         ResolveRead, Ask, database, money
<1>10. ASSUME NEW w \in Workers, Proceed(w) \/ Crash(w),
              ~(InitiateCreate(w) \/ CallbackSave(w) \/ CancelSave(w) \/ ResolveSave(w)
                  \/ ReleaseSave(w))
       PROVE  UNCHANGED escrow
  BY <1>10
     DEF Proceed, Crash, InitiateRefused, VerifyUnanswered, Activate, CompleteSave,
         RecordDebt, OwnerCancelSave, ExpireOffers, InvestigateSave, RejectSave,
         database, money
<1>11. ASSUME NEW f \in Escrows,
              \/ \E result \in {"paid", "failed"} : GatewaySettles(f, result)
              \/ ListDue(f) \/ AutoRelease(f)
       PROVE  UNCHANGED escrow
  BY <1>11 DEF GatewaySettles, ListDue, AutoRelease, database, money
<1>12. QED
  BY <1>1, <1>4, <1>5, <1>6, <1>7, <1>8, <1>9, <1>10, <1>11 DEF Next

(* A dispute that becomes active while a row of its mission is locked is a *)
(* late one.                                                               *)
DisputesKept(e) ==
    /\ ActiveOn(EscrowJob[e], dispute') \subseteq ActiveOn(EscrowJob[e], dispute) \cup late'
    /\ \A d \in late : DisputeJob[d] = EscrowJob[e] => d \in late'

LEMMA NoteKeeps ==
    ASSUME TypeOK, NEW e \in Escrows, Locked(e), NEW d \in Disputes, NoteActive(d),
           \A c \in Disputes : c # d => dispute'[c] = dispute[c]
    PROVE  DisputesKept(e)
<1>1. DisputeJob[d] = EscrowJob[e] => late' = late \cup {d}
  BY DEF NoteActive
<1>2. late' = late \cup {d} \/ late' = late \ {d}
  BY DEF NoteActive
<1>3. QED
  BY <1>1, <1>2 DEF DisputesKept, ActiveOn

LEMMA DisputeStep ==
    ASSUME TypeOK, Next, NEW e \in Escrows, Locked(e)
    PROVE  DisputesKept(e)
<1> USE PaymentAssumption
<1>1. CASE UNCHANGED <<dispute, late>>
  BY <1>1 DEF DisputesKept
<1>2. ASSUME UNCHANGED late,
             \A d \in Disputes : dispute'[d] = dispute[d] \/ dispute'[d].status \notin ActiveStatuses
      PROVE  DisputesKept(e)
  BY <1>2 DEF DisputesKept, ActiveOn
<1>3. ASSUME NEW w \in Workers, Receive(w)
      PROVE  DisputesKept(e)
  <2>1. ASSUME NEW d \in Disputes, OpenDispute(w, d)
        PROVE  DisputesKept(e)
    <3>1. NoteActive(d) /\ \A c \in Disputes : c # d => dispute'[c] = dispute[c]
      BY <2>1 DEF OpenDispute, TypeOK
    <3>2. QED
      BY <3>1, NoteKeeps
  <2>2. CASE ~\E d \in Disputes : OpenDispute(w, d)
    BY <1>1, <1>3, <2>2
       DEF Receive, AcceptOffer, AcceptTripRequest, TransporterCancelRead, ConfirmStart,
           InitiateCheck, CompleteRead, ConfirmCompletion, AdminRelease, ClientCancelRead,
           OwnerCancelRead, WebhookRead, VerifyRead, InvestigateRead, RejectRead,
           ResolveRead, Ask, database
  <2>3. QED
    BY <2>1, <2>2
<1>4. ASSUME NEW w \in Workers, Proceed(w) \/ Crash(w)
      PROVE  DisputesKept(e)
  <2>1. CASE InvestigateSave(w)
    <3>1. PICK d \in Disputes : d = task[w].dispute
      BY <2>1, TaskFields DEF InvestigateSave
    <3>2. CASE UNCHANGED <<dispute, late>>
      BY <1>1, <3>2
    <3>3. CASE dispute' = [dispute EXCEPT ![d] = [status |-> "INVESTIGATING", outcome |-> "NONE"]]
      <4>1. \A c \in Disputes : c # d => dispute'[c] = dispute[c]
        BY <3>3 DEF TypeOK
      <4>2. CASE NoteActive(d)
        BY <4>1, <4>2, NoteKeeps
      <4>3. CASE dispute[d].status \in ActiveStatuses /\ UNCHANGED late
        BY <4>1, <4>3 DEF DisputesKept, ActiveOn
      <4>4. QED
        BY <2>1, <3>1, <3>2, <4>2, <4>3 DEF InvestigateSave
    <3>4. QED
      BY <2>1, <3>1, <3>2, <3>3 DEF InvestigateSave
  <2>2. CASE RejectSave(w)
    BY <1>2, <2>2, TaskFields DEF RejectSave, TypeOK, ActiveStatuses
  <2>3. CASE ReleaseSave(w)
    BY <1>2, <2>3 DEF ReleaseSave, ActiveStatuses
  <2>4. CASE ResolveSave(w)
    <3>1. PICK c \in Disputes, out \in Outcome : c = task[w].dispute /\ out = task[w].outcome
      BY <2>4, TaskFields DEF ResolveSave
    <3>2. CASE UNCHANGED dispute
      BY <1>1, <2>4, <3>2 DEF ResolveSave
    <3>3. CASE dispute' = [dispute EXCEPT ![c] = [status |-> "RESOLVED", outcome |-> out]]
      BY <1>2, <2>4, <3>3 DEF ResolveSave, TypeOK, ActiveStatuses
    <3>4. QED
      BY <2>4, <3>1, <3>2, <3>3 DEF ResolveSave
  <2>5. CASE ~(InvestigateSave(w) \/ RejectSave(w) \/ ReleaseSave(w) \/ ResolveSave(w))
    BY <1>1, <1>4, <2>5
       DEF Proceed, Crash, InitiateCreate, InitiateRefused, CallbackSave, VerifyUnanswered,
           Activate, CompleteSave, RecordDebt, CancelSave, OwnerCancelSave, ExpireOffers,
           database
  <2>6. QED
    BY <2>1, <2>2, <2>3, <2>4, <2>5
<1>5. ASSUME NEW f \in Escrows,
             \/ \E result \in {"paid", "failed"} : GatewaySettles(f, result)
             \/ ListDue(f) \/ AutoRelease(f) \/ AutoReleaseSave(f)
      PROVE  DisputesKept(e)
  BY <1>1, <1>5 DEF GatewaySettles, ListDue, AutoRelease, AutoReleaseSave, database
<1>6. QED
  BY <1>3, <1>4, <1>5 DEF Next

LEMMA ReleaseInit == Init => ReleaseInv
BY DEF Init, ReleaseInv, LockedIsHeld, OneRelease, DisputesTested, Locked, Releasing, Idle

LEMMA ReleaseStep == TypeOK /\ ReleaseInv /\ Next => ReleaseInv'
<1> SUFFICES ASSUME TypeOK, ReleaseInv, Next PROVE ReleaseInv'
  OBVIOUS
<1>1. ASSUME NEW e \in Escrows, e \in paying'
      PROVE  \/ e \in paying /\ Locked(e)
             \/ Begins(e, {}) /\ UNCHANGED task
  BY <1>1, PassHolds DEF Locked
<1>2. ASSUME NEW e \in Escrows, NEW w \in Workers, Releasing(w, e)'
      PROVE  \/ task'[w] = task[w] /\ Releasing(w, e) /\ Locked(e)
             \/ /\ Begins(e, task'[w].ruling)
                /\ UNCHANGED paying
                /\ \A x \in Workers : x # w => task'[x] = task[x]
  BY <1>2, WorkerHolds DEF Locked, Releasing
<1>3. LockedIsHeld'
  <2> SUFFICES ASSUME NEW e \in Escrows, Locked(e)' PROVE escrow'[e] = "HELD"
    BY DEF LockedIsHeld
  <2>1. Locked(e) \/ (escrow[e] = "HELD" /\ UNCHANGED escrow)
    BY <1>1, <1>2 DEF Locked, Begins
  <2>2. QED
    BY <2>1, LockedRow DEF ReleaseInv, LockedIsHeld
<1>4. OneRelease'
  <2>1. ASSUME NEW e \in Escrows, e \in paying', NEW w \in Workers, Releasing(w, e)'
        PROVE  FALSE
    BY <1>1, <1>2, <2>1 DEF ReleaseInv, OneRelease, Begins, Locked, Releasing
  <2>2. ASSUME NEW e \in Escrows, NEW w \in Workers, NEW x \in Workers,
               Releasing(w, e)', Releasing(x, e)'
        PROVE  w = x
    BY <1>2, <2>2 DEF ReleaseInv, OneRelease, Begins, Locked, Releasing
  <2>3. QED
    BY <2>1, <2>2 DEF OneRelease
<1>5. ASSUME NEW e \in Escrows, NEW R, Locked(e), Tested(e, R)
      PROVE  Tested(e, R)'
  <2>1. DisputesKept(e)
    BY <1>5, DisputeStep
  <2>2. ActiveOn(EscrowJob[e], dispute') \subseteq R \cup late'
    BY <1>5, <2>1 DEF DisputesKept, Tested, ActiveOn
  <2>3. QED
    BY <1>5, <2>2 DEF Tested
<1>6. ASSUME NEW e \in Escrows, NEW R, Begins(e, R)
      PROVE  Tested(e, R)'
  BY <1>6 DEF Begins, Tested
<1>7. DisputesTested'
  <2>1. ASSUME NEW e \in Escrows, e \in paying' PROVE Tested(e, {})'
    BY <1>1, <1>5, <1>6, <2>1 DEF ReleaseInv, DisputesTested
  <2>2. ASSUME NEW e \in Escrows, NEW w \in Workers, Releasing(w, e)'
        PROVE  Tested(e, task[w].ruling)'
    <3>1. CASE task'[w] = task[w] /\ Releasing(w, e) /\ Locked(e)
      <4>1. Tested(e, task[w].ruling)
        BY <3>1 DEF ReleaseInv, DisputesTested
      <4>2. QED
        BY <3>1, <4>1, <1>5 DEF Tested
    <3>2. CASE Begins(e, task'[w].ruling)
      BY <3>2 DEF Begins, Tested
    <3>3. QED
      BY <1>2, <2>2, <3>1, <3>2
  <2>3. QED
    BY <2>1, <2>2 DEF DisputesTested
<1>8. QED
  BY <1>3, <1>4, <1>7 DEF ReleaseInv

LEMMA ReleaseKept == ReleaseInv /\ UNCHANGED vars => ReleaseInv'
BY DEF ReleaseInv, LockedIsHeld, OneRelease, DisputesTested, Tested, Locked, Releasing,
       vars, database, money, scheduler

-----------------------------------------------------------------------------
(* What one step does to a row, to a mission and to a request, whichever   *)
(* action it is.  The invariants follow from these three.                  *)

RowMoves(e) ==
    /\ gateway[e] = "paid" => gateway'[e] = "paid"
    /\ refunds[e] # <<>> => refunds'[e] # <<>>
    /\ \/ escrow'[e] = escrow[e]
       \/ escrow'[e] \in {"INITIATED", "FAILED"}
       \/ escrow'[e] = "HELD" /\ gateway[e] = "paid"
       \/ /\ escrow[e] = "HELD"
          /\ escrow'[e] = "RELEASED"
          /\ ActiveOn(EscrowJob[e], dispute') \subseteq late
       \/ escrow'[e] = "REFUNDED" /\ refunds'[e] # <<>>

DigitalStart(j) == job[j] = "IN_PROGRESS" /\ booking[j] = "DIGITAL"
SomePaid(j) == \E e \in Escrows : EscrowJob[e] = j /\ gateway[e] = "paid"

LEMMA RowStep ==
    ASSUME TypeOK, ReleaseInv, Next, NEW e \in Escrows
    PROVE  RowMoves(e)
<1> USE PaymentAssumption
<1>1. CASE UNCHANGED <<escrow, gateway, refunds>>
  BY <1>1 DEF RowMoves
<1>2. CASE (\E w \in Workers : ReleaseSave(w)) \/ (\E f \in Escrows : AutoReleaseSave(f))
  BY <1>2, ReleaseMoves DEF RowMoves, TypeOK
<1>3. ASSUME NEW w \in Workers, Receive(w)
      PROVE  UNCHANGED <<escrow, gateway, refunds>>
  BY <1>3
     DEF Receive, AcceptOffer, AcceptTripRequest, TransporterCancelRead, ConfirmStart,
         InitiateCheck, CompleteRead, ConfirmCompletion, AdminRelease, ClientCancelRead,
         OwnerCancelRead, WebhookRead, VerifyRead, OpenDispute, InvestigateRead, RejectRead,
         ResolveRead, Ask, database, money
<1>4. ASSUME NEW w \in Workers, Proceed(w)
      PROVE  RowMoves(e)
  <2>1. CASE InitiateCreate(w)
    BY <2>1 DEF InitiateCreate, RowMoves, TypeOK
  <2>2. CASE CallbackSave(w)
    BY <2>2 DEF CallbackSave, GatewaySays, RowMoves, TypeOK
  <2>3. CASE CancelSave(w)
    <3>1. task[w].job \in Jobs
      BY <2>3, TaskFields DEF CancelSave
    <3>2. QED
      BY <2>3, <3>1, RefundMoves DEF CancelSave, RowMoves
  <2>4. CASE ResolveSave(w)
    <3> DEFINE j == DisputeJob[task[w].dispute]
    <3>1. j \in Jobs /\ gateway' = gateway
      BY <2>4, TaskFields DEF ResolveSave
    <3>2. CASE UNCHANGED money
      BY <3>1, <3>2, <1>1 DEF money
    <3>3. CASE RefundEscrow(j) \/ SplitEscrow(j)
      BY <3>1, <3>3, RefundMoves DEF RowMoves
    <3>4. QED
      BY <2>4, <3>2, <3>3 DEF ResolveSave, MoveMoney, money
  <2>5. CASE ~(InitiateCreate(w) \/ CallbackSave(w) \/ CancelSave(w) \/ ResolveSave(w)
                 \/ ReleaseSave(w))
    <3>1. UNCHANGED <<escrow, gateway, refunds>>
      BY <1>4, <2>5
         DEF Proceed, InitiateRefused, VerifyUnanswered, Activate, CompleteSave, RecordDebt,
             OwnerCancelSave, ExpireOffers, InvestigateSave, RejectSave, database, money
    <3>2. QED
      BY <3>1, <1>1
  <2>6. QED
    BY <1>2, <2>1, <2>2, <2>3, <2>4, <2>5
<1>5. ASSUME NEW w \in Workers, Crash(w)
      PROVE  RowMoves(e)
  BY <1>1, <1>5 DEF Crash
<1>6. ASSUME NEW f \in Escrows, NEW result \in {"paid", "failed"}, GatewaySettles(f, result)
      PROVE  RowMoves(e)
  BY <1>6 DEF GatewaySettles, RowMoves, TypeOK
<1>7. ASSUME NEW f \in Escrows, ListDue(f) \/ AutoRelease(f)
      PROVE  RowMoves(e)
  BY <1>1, <1>7 DEF ListDue, AutoRelease, database, money
<1>8. QED
  BY <1>1, <1>2, <1>3, <1>4, <1>5, <1>6, <1>7 DEF Next

(* A request that goes on to start the mission has seen the link paid.     *)
ActivationIsPaid ==
    \A w \in Workers : task[w].kind = "activate" => gateway[task[w].escrow] = "paid"

LEMMA TaskStep ==
    ASSUME TypeOK, Next, NEW w \in Workers, task'[w].kind = "activate"
    PROVE  task'[w] = task[w] \/ gateway[task'[w].escrow] = "paid"
<1>1. ASSUME NEW x \in Workers, CallbackSave(x)
      PROVE  task'[w] = task[w] \/ gateway[task'[w].escrow] = "paid"
  <2>1. CASE x # w
    BY <1>1, <2>1 DEF CallbackSave, Serve, Answer, TypeOK
  <2>2. CASE x = w
    BY <1>1, <2>2 DEF CallbackSave, GatewaySays, Serve, Answer, TypeOK, Idle
  <2>3. QED
    BY <2>1, <2>2
<1>2. CASE \E x \in Workers : OtherRequest(x)
  BY <1>2 DEF OtherRequest
<1>3. CASE \E x \in Workers : StartsRelease(x)
  BY <1>3 DEF StartsRelease, Serve, TypeOK
<1>4. QED
  BY <1>1, <1>2, <1>3, TaskCases

LEMMA JobStep ==
    ASSUME TypeOK, ActivationIsPaid, Next, NEW j \in Jobs, DigitalStart(j)'
    PROVE  DigitalStart(j) \/ SomePaid(j)
<1> USE PaymentAssumption
<1>1. CASE UNCHANGED <<job, booking>>
  BY <1>1 DEF DigitalStart
<1>2. ASSUME NEW w \in Workers, Receive(w)
      PROVE  DigitalStart(j) \/ SomePaid(j)
  <2>1. CASE \E o \in Offers, m \in PaymentMethod :
                AcceptOffer(w, o, m) \/ AcceptTripRequest(w, o, m)
    BY <2>1 DEF AcceptOffer, AcceptTripRequest, DigitalStart, TypeOK
  <2>2. CASE \E k \in Jobs : ConfirmStart(w, k)
    BY <2>2 DEF ConfirmStart, DigitalStart, TypeOK
  <2>3. CASE UNCHANGED <<job, booking>>
    BY <2>3, <1>1
  <2>4. QED
    BY <1>2, <2>1, <2>2, <2>3
       DEF Receive, TransporterCancelRead, InitiateCheck, CompleteRead, ConfirmCompletion,
           AdminRelease, ClientCancelRead, OwnerCancelRead, WebhookRead, VerifyRead,
           OpenDispute, InvestigateRead, RejectRead, ResolveRead, Ask, database, mission
<1>3. ASSUME NEW w \in Workers, Proceed(w)
      PROVE  DigitalStart(j) \/ SomePaid(j)
  <2>1. CASE Activate(w)
    <3>1. /\ task[w].escrow \in Escrows
          /\ gateway[task[w].escrow] = "paid"
      BY <2>1, TaskFields DEF Activate, ActivationIsPaid
    <3>2. QED
      BY <2>1, <3>1 DEF Activate, DigitalStart, SomePaid, TypeOK
  <2>2. CASE CompleteSave(w)
    BY <2>2 DEF CompleteSave, DigitalStart, TypeOK
  <2>3. CASE CancelSave(w)
    BY <2>3 DEF CancelSave, StatusAfterCancel, DigitalStart, TypeOK
  <2>4. CASE OwnerCancelSave(w)
    BY <2>4 DEF OwnerCancelSave, DigitalStart, TypeOK
  <2>5. CASE UNCHANGED <<job, booking>>
    BY <2>5, <1>1
  <2>6. QED
    BY <1>3, <2>1, <2>2, <2>3, <2>4, <2>5
       DEF Proceed, InitiateCreate, InitiateRefused, CallbackSave, VerifyUnanswered,
           RecordDebt, ReleaseSave, ExpireOffers, InvestigateSave, RejectSave, ResolveSave,
           database, mission
<1>4. ASSUME NEW w \in Workers, Crash(w)
      PROVE  DigitalStart(j) \/ SomePaid(j)
  BY <1>1, <1>4 DEF Crash, database, mission
<1>5. ASSUME NEW e \in Escrows,
             \/ \E result \in {"paid", "failed"} : GatewaySettles(e, result)
             \/ ListDue(e) \/ AutoRelease(e) \/ AutoReleaseSave(e)
      PROVE  DigitalStart(j) \/ SomePaid(j)
  BY <1>1, <1>5 DEF GatewaySettles, ListDue, AutoRelease, AutoReleaseSave, database, mission
<1>6. QED
  BY <1>2, <1>3, <1>4, <1>5 DEF Next

(* Whoever writes a mission or deletes a booking keeps the two together:   *)
(* the one action that deletes a booking closes or reopens its mission.    *)
LEMMA BookedStep == TypeOK /\ ActiveIsBooked /\ Next => ActiveIsBooked'
<1> SUFFICES ASSUME TypeOK, ActiveIsBooked, Next PROVE ActiveIsBooked'
  OBVIOUS
<1> USE PaymentAssumption
<1>1. CASE UNCHANGED <<job, booking>>
  BY <1>1 DEF ActiveIsBooked
<1>2. ASSUME NEW w \in Workers, Receive(w)
      PROVE  ActiveIsBooked'
  <2>1. CASE \E o \in Offers, m \in PaymentMethod :
                AcceptOffer(w, o, m) \/ AcceptTripRequest(w, o, m)
    BY <2>1 DEF AcceptOffer, AcceptTripRequest, ActiveIsBooked, TypeOK, PaymentMethod
  <2>2. CASE \E k \in Jobs : ConfirmStart(w, k)
    BY <2>2 DEF ConfirmStart, ActiveIsBooked, TypeOK
  <2>3. CASE UNCHANGED <<job, booking>>
    BY <2>3, <1>1
  <2>4. QED
    BY <1>2, <2>1, <2>2, <2>3
       DEF Receive, TransporterCancelRead, InitiateCheck, CompleteRead, ConfirmCompletion,
           AdminRelease, ClientCancelRead, OwnerCancelRead, WebhookRead, VerifyRead,
           OpenDispute, InvestigateRead, RejectRead, ResolveRead, Ask, database, mission
<1>3. ASSUME NEW w \in Workers, Proceed(w)
      PROVE  ActiveIsBooked'
  <2>1. CASE Activate(w)
    BY <2>1 DEF Activate, ActiveIsBooked, TypeOK
  <2>2. CASE CompleteSave(w) \/ OwnerCancelSave(w)
    BY <2>2 DEF CompleteSave, OwnerCancelSave, ActiveIsBooked, TypeOK
  <2>3. CASE CancelSave(w)
    BY <2>3 DEF CancelSave, StatusAfterCancel, ActiveIsBooked, TypeOK
  <2>4. CASE UNCHANGED <<job, booking>>
    BY <2>4, <1>1
  <2>5. QED
    BY <1>3, <2>1, <2>2, <2>3, <2>4
       DEF Proceed, InitiateCreate, InitiateRefused, CallbackSave, VerifyUnanswered,
           RecordDebt, ReleaseSave, ExpireOffers, InvestigateSave, RejectSave, ResolveSave,
           database, mission
<1>4. ASSUME NEW w \in Workers, Crash(w)
      PROVE  ActiveIsBooked'
  BY <1>1, <1>4 DEF Crash, database, mission
<1>5. ASSUME NEW e \in Escrows,
             \/ \E result \in {"paid", "failed"} : GatewaySettles(e, result)
             \/ ListDue(e) \/ AutoRelease(e) \/ AutoReleaseSave(e)
      PROVE  ActiveIsBooked'
  BY <1>1, <1>5 DEF GatewaySettles, ListDue, AutoRelease, AutoReleaseSave, database, mission
<1>6. QED
  BY <1>2, <1>3, <1>4, <1>5 DEF Next

-----------------------------------------------------------------------------
(* The inductive invariant and the safety theorems.                        *)

IInv ==
    /\ TypeOK
    /\ ReleaseInv
    /\ ActivationIsPaid
    /\ ReleasedWasPaid
    /\ DigitalStartIsPaid
    /\ RefundIsQueued
    /\ ActiveIsBooked

LEMMA InitIInv == Init => IInv
<1> SUFFICES ASSUME Init PROVE IInv
  OBVIOUS
<1>1. TypeOK
  BY InitType
<1>2. ReleaseInv
  BY ReleaseInit
<1>3. QED
  BY <1>1, <1>2 DEF Init, IInv, ActivationIsPaid, ReleasedWasPaid, DigitalStartIsPaid,
              RefundIsQueued, ActiveIsBooked, Idle

LEMMA NextIInv == IInv /\ [Next]_vars => IInv'
<1> SUFFICES ASSUME IInv, [Next]_vars PROVE IInv'
  OBVIOUS
<1>1. TypeOK'
  BY TypeStep DEF IInv
<1>2. CASE Next
  <2>1. \A e \in Escrows : RowMoves(e)
    BY <1>2, RowStep DEF IInv
  <2>2. ActivationIsPaid'
    <3> SUFFICES ASSUME NEW w \in Workers, task'[w].kind = "activate"
                 PROVE  gateway'[task'[w].escrow] = "paid"
      BY DEF ActivationIsPaid
    <3>1. task'[w].escrow \in Escrows
      <4>1. task'[w] \in Task
        BY <1>1 DEF TypeOK
      <4>2. QED
        BY <4>1 DEF Task, Idle
    <3>2. gateway[task'[w].escrow] = "paid"
      BY <1>2, TaskStep DEF IInv, ActivationIsPaid
    <3>3. QED
      BY <2>1, <3>1, <3>2 DEF RowMoves
  <2>3. ReleasedWasPaid'
    BY <2>1 DEF IInv, ReleasedWasPaid, RowMoves
  <2>4. DigitalStartIsPaid'
    <3> SUFFICES ASSUME NEW j \in Jobs, DigitalStart(j)'
                 PROVE  SomePaid(j)'
      BY DEF DigitalStartIsPaid, DigitalStart, SomePaid
    <3>1. SomePaid(j)
      BY <1>2, JobStep DEF IInv, DigitalStartIsPaid, DigitalStart, SomePaid
    <3>2. QED
      BY <2>1, <3>1 DEF SomePaid, RowMoves
  <2>5. RefundIsQueued'
    BY <2>1 DEF IInv, RefundIsQueued, RowMoves
  <2>6. ActiveIsBooked'
    BY <1>2, BookedStep DEF IInv
  <2>7. ReleaseInv'
    BY <1>2, ReleaseStep DEF IInv
  <2>8. QED
    BY <1>1, <2>2, <2>3, <2>4, <2>5, <2>6, <2>7 DEF IInv
<1>3. CASE UNCHANGED vars
  BY <1>1, <1>3, ReleaseKept DEF IInv, ActivationIsPaid, ReleasedWasPaid, DigitalStartIsPaid,
                    RefundIsQueued, ActiveIsBooked, vars, database, mission, money
<1>4. QED
  BY <1>2, <1>3

(* Money is held or released only for links that were paid.                *)
THEOREM OnlyPaidIsReleased == Spec => []ReleasedWasPaid
<1>1. IInv => ReleasedWasPaid
  BY DEF IInv
<1>2. QED
  BY <1>1, InitIInv, NextIInv, PTL DEF Spec

(* No digital mission starts before some payment of it was made.           *)
THEOREM EscrowStrict == Spec => []DigitalStartIsPaid
<1>1. IInv => DigitalStartIsPaid
  BY DEF IInv
<1>2. QED
  BY <1>1, InitIInv, NextIInv, PTL DEF Spec

(* No row is marked REFUNDED without its rows in the back-office queue.    *)
THEOREM RefundNotLost == Spec => []RefundIsQueued
<1>1. IInv => RefundIsQueued
  BY DEF IInv
<1>2. QED
  BY <1>1, InitIInv, NextIInv, PTL DEF Spec

(* No interleaving leaves a matched or running mission without its booking.*)
THEOREM BookedWhileActive == Spec => []ActiveIsBooked
<1>1. IInv => ActiveIsBooked
  BY DEF IInv
<1>2. QED
  BY <1>1, InitIInv, NextIInv, PTL DEF Spec

(* By none of the four ways to release an escrow is the transporter paid   *)
(* over a dispute that was active when the release tested it.              *)
THEOREM HardBlock == Spec => ReleaseBlockedByDispute
<1>1. IInv /\ [Next]_vars =>
          [\A e \in Escrows :
              escrow[e] # "RELEASED" /\ escrow'[e] = "RELEASED" =>
                  ActiveOn(EscrowJob[e], dispute') \subseteq late]_vars
  <2> SUFFICES ASSUME IInv, Next, NEW e \in Escrows,
                      escrow[e] # "RELEASED", escrow'[e] = "RELEASED"
               PROVE  ActiveOn(EscrowJob[e], dispute') \subseteq late
    OBVIOUS
  <2>1. QED
    BY RowStep DEF RowMoves, IInv
<1>2. QED
  BY <1>1, InitIInv, NextIInv, PTL DEF Spec, ReleaseBlockedByDispute

-----------------------------------------------------------------------------
(* One worker.                                                             *)

(* A callback that has read its row INITIATED still finds it so, and only  *)
(* a refunded row has rows in the refund queue.                            *)
CallbackFindsInitiated ==
    \A w \in Workers :
        task[w].kind \in {"webhook", "verify"} => escrow[task[w].escrow] = "INITIATED"
QueuedIsRefunded ==
    \A e \in Escrows : escrow[e] # "REFUNDED" => refunds[e] = <<>>

SInv == TypeOK /\ ReleaseInv /\ CallbackFindsInitiated /\ QueuedIsRefunded

(* What a step may do to the money of one row.                             *)
RowTo(e, from, to, queued) ==
    /\ escrow[e] \in from
    /\ escrow' = [escrow EXCEPT ![e] = to]
    /\ refunds' = [refunds EXCEPT ![e] = queued]

Forward ==
    \E e \in Escrows :
        \/ RowTo(e, {"ABSENT"}, "INITIATED", <<>>)
        \/ RowTo(e, {"INITIATED"}, "HELD", <<>>)
        \/ RowTo(e, {"INITIATED"}, "FAILED", <<>>)
        \/ RowTo(e, {"HELD"}, "RELEASED", <<>>)
        \/ RowTo(e, {"INITIATED", "HELD"}, "REFUNDED", <<ClientRow("FULL", EscrowJob[e])>>)
        \/ RowTo(e, {"INITIATED", "HELD"}, "REFUNDED", <<ClientRow("PART", EscrowJob[e])>>)
        \/ RowTo(e, {"INITIATED", "HELD"}, "REFUNDED",
                 <<ClientRow("PART", EscrowJob[e]), TransporterRow>>)

-----------------------------------------------------------------------------
(* A row whose sum is promised to nobody can be written without its queue. *)
LEMMA NothingQueued ==
    ASSUME SInv, NEW e \in Escrows, escrow[e] # "REFUNDED"
    PROVE  refunds = [refunds EXCEPT ![e] = <<>>]
BY DEF SInv, TypeOK, QueuedIsRefunded

LEMMA ReleaseForward ==
    ASSUME SInv,
           (\E w \in Workers : ReleaseSave(w)) \/ (\E e \in Escrows : AutoReleaseSave(e))
    PROVE  Forward
<1>1. PICK e \in Escrows :
          /\ escrow[e] = "HELD"
          /\ escrow' = [escrow EXCEPT ![e] = "RELEASED"]
          /\ UNCHANGED <<gateway, refunds>>
  BY ReleaseMoves DEF SInv
<1>2. RowTo(e, {"HELD"}, "RELEASED", <<>>)
  BY <1>1, NothingQueued DEF RowTo
<1>3. QED
  BY <1>2 DEF Forward

LEMMA SendBackForward ==
    ASSUME SInv, NEW j \in Jobs, NEW e \in Refundable(j), NEW queued \in Seq(RefundRow),
           SendBack(e, queued)
    PROVE  RowTo(e, {"INITIATED", "HELD"}, "REFUNDED", queued)
<1>1. e \in Escrows /\ escrow[e] \in {"INITIATED", "HELD"}
  BY DEF Refundable, RowsOf
<1>2. refunds[e] = <<>>
  BY <1>1 DEF SInv, QueuedIsRefunded
<1>3. refunds[e] \o queued = queued
  BY <1>2
<1>4. QED
  BY <1>1, <1>3 DEF SendBack, RowTo

LEMMA RowsOfMission ==
    ASSUME NEW j \in Jobs, NEW e \in Refundable(j)
    PROVE  e \in Escrows /\ EscrowJob[e] = j
BY DEF Refundable, RowsOf

LEMMA RefundForward ==
    ASSUME SInv, NEW j \in Jobs, RefundEscrow(j)
    PROVE  Forward \/ UNCHANGED money
<1>1. CASE Refundable(j) = {} /\ UNCHANGED money
  BY <1>1
<1>2. ASSUME NEW e \in Refundable(j), SendBack(e, <<ClientRow("FULL", j)>>)
      PROVE  Forward
  <2>1. <<ClientRow("FULL", j)>> \in Seq(RefundRow)
    BY DEF ClientRow, RefundRow, Party
  <2>2. RowTo(e, {"INITIATED", "HELD"}, "REFUNDED", <<ClientRow("FULL", j)>>)
    BY <1>2, <2>1, SendBackForward
  <2>3. QED
    BY <2>2, RowsOfMission DEF Forward
<1>3. QED
  BY <1>1, <1>2 DEF RefundEscrow

LEMMA SplitForward ==
    ASSUME SInv, NEW j \in Jobs, SplitEscrow(j)
    PROVE  Forward
<1>1. PICK e \in Refundable(j) : SendBack(e, SplitRows(j))
  BY DEF SplitEscrow
<1>2. ClientRow("PART", j) \in RefundRow /\ TransporterRow \in RefundRow
  BY DEF ClientRow, TransporterRow, RefundRow, Party
<1>3. CASE SplitRows(j) = <<ClientRow("PART", j)>>
  <2>1. <<ClientRow("PART", j)>> \in Seq(RefundRow)
    BY <1>2
  <2>2. RowTo(e, {"INITIATED", "HELD"}, "REFUNDED", <<ClientRow("PART", j)>>)
    BY <1>1, <1>3, <2>1, SendBackForward
  <2>3. QED
    BY <2>2, RowsOfMission DEF Forward
<1>4. CASE SplitRows(j) = <<ClientRow("PART", j), TransporterRow>>
  <2>1. <<ClientRow("PART", j), TransporterRow>> \in Seq(RefundRow)
    BY <1>2
  <2>2. RowTo(e, {"INITIATED", "HELD"}, "REFUNDED",
              <<ClientRow("PART", j), TransporterRow>>)
    BY <1>1, <1>4, <2>1, SendBackForward
  <2>3. QED
    BY <2>2, RowsOfMission DEF Forward
<1>5. QED
  BY <1>3, <1>4 DEF SplitRows

(* Every step leaves the money alone or makes one forward move.            *)
LEMMA MoneyStep ==
    ASSUME SInv, Next
    PROVE  Forward \/ UNCHANGED money
<1> USE PaymentAssumption
<1>1. ASSUME NEW w \in Workers, Receive(w)
      PROVE  UNCHANGED money
  BY <1>1
     DEF Receive, AcceptOffer, AcceptTripRequest, TransporterCancelRead, ConfirmStart,
         InitiateCheck, CompleteRead, ConfirmCompletion, AdminRelease, ClientCancelRead,
         OwnerCancelRead, WebhookRead, VerifyRead, OpenDispute, InvestigateRead, RejectRead,
         ResolveRead, Ask, database, money
<1>2. ASSUME NEW w \in Workers, Proceed(w)
      PROVE  Forward \/ UNCHANGED money
  <2>0. TypeOK
    BY DEF SInv
  <2>1. CASE InitiateCreate(w)
    <3>1. PICK e \in Escrows : /\ escrow[e] = "ABSENT"
                               /\ escrow' = [escrow EXCEPT ![e] = "INITIATED"]
      BY <2>1 DEF InitiateCreate, First
    <3>2. escrow[e] \in {"ABSENT"} /\ escrow[e] # "REFUNDED"
      BY <3>1
    <3>3. refunds' = refunds
      BY <2>1 DEF InitiateCreate
    <3>4. RowTo(e, {"ABSENT"}, "INITIATED", <<>>)
      BY <3>1, <3>2, <3>3, NothingQueued DEF RowTo
    <3>5. QED
      BY <3>4 DEF Forward
  <2>2. CASE CallbackSave(w)
    <3> DEFINE e == task[w].escrow
    <3>1. e \in Escrows /\ escrow[e] = "INITIATED"
      BY <2>0, <2>2, TaskFields DEF CallbackSave, SInv, CallbackFindsInitiated
    <3>2. CASE UNCHANGED escrow
      BY <2>2, <3>2 DEF CallbackSave, money
    <3>3. ASSUME NEW to \in {"HELD", "FAILED"}, escrow' = [escrow EXCEPT ![e] = to]
          PROVE  RowTo(e, {"INITIATED"}, to, <<>>)
      <4>1. escrow[e] \in {"INITIATED"} /\ escrow[e] # "REFUNDED"
        BY <3>1
      <4>2. refunds' = refunds
        BY <2>2 DEF CallbackSave
      <4> HIDE DEF e
      <4>3. QED
        BY <3>1, <3>3, <4>1, <4>2, NothingQueued DEF RowTo
    <3>4. QED
      BY <2>2, <3>1, <3>2, <3>3 DEF CallbackSave, Forward
  <2>3. CASE CancelSave(w)
    <3>1. task[w].job \in Jobs
      BY <2>0, <2>3, TaskFields DEF CancelSave
    <3>2. QED
      BY <2>3, <3>1, RefundForward DEF CancelSave
  <2>4. CASE ResolveSave(w)
    <3>1. DisputeJob[task[w].dispute] \in Jobs
      BY <2>0, <2>4, TaskFields DEF ResolveSave
    <3>2. QED
      BY <2>4, <3>1, RefundForward, SplitForward
         DEF ResolveSave, MoveMoney, money
  <2>5. CASE ReleaseSave(w)
    BY <2>5, ReleaseForward
  <2>6. CASE ~(InitiateCreate(w) \/ CallbackSave(w) \/ CancelSave(w) \/ ResolveSave(w)
                 \/ ReleaseSave(w))
    BY <1>2, <2>6
       DEF Proceed, InitiateRefused, VerifyUnanswered, Activate, CompleteSave, RecordDebt,
           OwnerCancelSave, ExpireOffers, InvestigateSave, RejectSave, database, money
  <2>7. QED
    BY <2>1, <2>2, <2>3, <2>4, <2>5, <2>6
<1>3. ASSUME NEW w \in Workers, Crash(w)
      PROVE  UNCHANGED money
  BY <1>3 DEF Crash, money
<1>4. ASSUME NEW e \in Escrows,
             \/ \E result \in {"paid", "failed"} : GatewaySettles(e, result)
             \/ ListDue(e) \/ AutoRelease(e) \/ AutoReleaseSave(e)
      PROVE  Forward \/ UNCHANGED money
  BY <1>4, ReleaseForward DEF GatewaySettles, ListDue, AutoRelease, database, money
<1>5. QED
  BY <1>1, <1>2, <1>3, <1>4 DEF Next

-----------------------------------------------------------------------------
(* A forward move of a row is a move of the contract.                      *)

LEMMA PayeesOf ==
    ASSUME NEW j
    PROVE  /\ Payees("INITIATED", <<>>) = "nobody"
           /\ Payees("HELD", <<>>) = "nobody"
           /\ Payees("FAILED", <<>>) = "nobody"
           /\ Payees("RELEASED", <<>>) = "transporter"
           /\ Payees("REFUNDED", <<ClientRow("FULL", j)>>) = "client"
           /\ Payees("REFUNDED", <<ClientRow("PART", j)>>) = "clientPart"
           /\ Payees("REFUNDED", <<ClientRow("PART", j), TransporterRow>>) = "both"
<1>1. ASSUME NEW share \in {"FULL", "PART"}
      PROVE  ClientShares(<<ClientRow(share, j)>>) = {1}
  BY DEF ClientShares, ClientRow
<1>2. ClientShares(<<ClientRow("PART", j), TransporterRow>>) = {1}
  BY DEF ClientShares, ClientRow, TransporterRow
<1>3. QED
  BY <1>1, <1>2 DEF Payees, ClientRow, TransporterRow

LEMMA RowMovesContract ==
    ASSUME TypeOK, NEW e \in Escrows, NEW from, NEW to, NEW queued, NEW party,
           RowTo(e, from, to, queued), Payees(to, queued) = party
    PROVE  Contract!Move(e, from, to, party)
<1>1. \A f \in Escrows : /\ escrow'[f] = IF f = e THEN to ELSE escrow[f]
                         /\ refunds'[f] = IF f = e THEN queued ELSE refunds[f]
  BY DEF RowTo, TypeOK
<1> DEFINE before == [f \in Escrows |-> Payees(escrow[f], refunds[f])]
           after  == [f \in Escrows |-> Payees(escrow'[f], refunds'[f])]
<1>2. after = [before EXCEPT ![e] = party]
  <2>1. \A f \in Escrows : after[f] = IF f = e THEN party ELSE before[f]
    BY <1>1
  <2>2. QED
    BY <2>1
<1>3. QED
  BY <1>2 DEF Contract!Move, RowTo

LEMMA ForwardIsMove == TypeOK /\ Forward => Contract!Next
<1> SUFFICES ASSUME TypeOK, Forward PROVE Contract!Next
  OBVIOUS
<1>1. PICK e \in Escrows :
          \/ RowTo(e, {"ABSENT"}, "INITIATED", <<>>)
          \/ RowTo(e, {"INITIATED"}, "HELD", <<>>)
          \/ RowTo(e, {"INITIATED"}, "FAILED", <<>>)
          \/ RowTo(e, {"HELD"}, "RELEASED", <<>>)
          \/ RowTo(e, {"INITIATED", "HELD"}, "REFUNDED", <<ClientRow("FULL", EscrowJob[e])>>)
          \/ RowTo(e, {"INITIATED", "HELD"}, "REFUNDED", <<ClientRow("PART", EscrowJob[e])>>)
          \/ RowTo(e, {"INITIATED", "HELD"}, "REFUNDED",
                   <<ClientRow("PART", EscrowJob[e]), TransporterRow>>)
  BY DEF Forward
<1>2. \/ Contract!Move(e, {"ABSENT"}, "INITIATED", "nobody")
      \/ Contract!Move(e, {"INITIATED"}, "HELD", "nobody")
      \/ Contract!Move(e, {"INITIATED"}, "FAILED", "nobody")
      \/ Contract!Move(e, {"HELD"}, "RELEASED", "transporter")
      \/ Contract!Move(e, {"INITIATED", "HELD"}, "REFUNDED", "client")
      \/ Contract!Move(e, {"INITIATED", "HELD"}, "REFUNDED", "clientPart")
      \/ Contract!Move(e, {"INITIATED", "HELD"}, "REFUNDED", "both")
  BY <1>1, PayeesOf, RowMovesContract
<1>3. QED
  BY <1>2 DEF Contract!Next, Contract!Initiate, Contract!Hold, Contract!Fail,
              Contract!Release, Contract!Refund, Contract!Split, Contract!SplitAlone

-----------------------------------------------------------------------------
(* The invariant of one worker.                                            *)

LEMMA QueueStep ==
    ASSUME SInv, Next
    PROVE  QueuedIsRefunded'
<1>1. CASE UNCHANGED money
  BY <1>1 DEF SInv, QueuedIsRefunded, money
<1>2. CASE Forward
  BY <1>2 DEF SInv, QueuedIsRefunded, Forward, RowTo, TypeOK
<1>3. QED
  BY <1>1, <1>2, MoneyStep

LEMMA CallbackStep ==
    ASSUME NEW w, Workers = {w}, SInv, Next
    PROVE  CallbackFindsInitiated'
<1> USE PaymentAssumption
<1>1. w \in Workers /\ TypeOK
  BY DEF SInv
<1>2. CASE task'[w].kind \notin {"webhook", "verify"}
  BY <1>2 DEF CallbackFindsInitiated
<1>3. CASE Receive(w)
  <2>0. Free(w)
    BY <1>3
       DEF Receive, AcceptOffer, AcceptTripRequest, ConfirmStart, ConfirmCompletion,
           AdminRelease, OpenDispute, TransporterCancelRead, InitiateCheck, CompleteRead,
           ClientCancelRead, OwnerCancelRead, WebhookRead, VerifyRead, InvestigateRead,
           RejectRead, ResolveRead, Ask
  <2>1. CASE UNCHANGED task
    BY <1>2, <2>0, <2>1 DEF Free, Idle
  <2>2. CASE \E e \in Escrows : WebhookRead(w, e) \/ VerifyRead(w, e)
    <3>1. PICK e \in Escrows : WebhookRead(w, e) \/ VerifyRead(w, e)
      BY <2>2
    <3>2. task'[w].escrow = e /\ escrow[e] = "INITIATED" /\ escrow' = escrow
      BY <1>1, <3>1 DEF WebhookRead, VerifyRead, Ask, Serve, TypeOK, database, money
    <3>3. QED
      BY <3>2 DEF CallbackFindsInitiated
  <2>3. QED
    BY <1>1, <1>2, <1>3, <2>1, <2>2
       DEF Receive, AcceptOffer, AcceptTripRequest, ConfirmStart, ConfirmCompletion,
           AdminRelease, BeginRelease, OpenDispute, TransporterCancelRead, InitiateCheck,
           CompleteRead, ClientCancelRead, OwnerCancelRead, InvestigateRead, RejectRead,
           ResolveRead, Ask, Serve, TypeOK
<1>4. CASE Proceed(w) \/ Crash(w)
  BY <1>1, <1>2, <1>4
     DEF Proceed, Crash, InitiateCreate, InitiateRefused, CallbackSave, VerifyUnanswered,
         Activate, CompleteSave, RecordDebt, ReleaseSave, CancelSave, OwnerCancelSave,
         ExpireOffers, InvestigateSave, RejectSave, ResolveSave, BeginRelease, Answer, Serve,
         Idle, TypeOK
<1>5. ASSUME NEW e \in Escrows,
             \/ \E result \in {"paid", "failed"} : GatewaySettles(e, result)
             \/ ListDue(e) \/ AutoRelease(e) \/ AutoReleaseSave(e)
      PROVE  CallbackFindsInitiated'
  <2>1. /\ task' = task
        /\ \A f \in Escrows : escrow'[f] = escrow[f] \/ escrow[f] = "HELD"
    <3>1. CASE AutoReleaseSave(e)
      BY <1>1, <3>1, ReleaseMoves DEF AutoReleaseSave, SInv, TypeOK
    <3>2. CASE ~AutoReleaseSave(e)
      BY <1>5, <3>2 DEF GatewaySettles, ListDue, AutoRelease, database, money
    <3>3. QED
      BY <3>1, <3>2
  <2>2. ASSUME task[w].kind \in {"webhook", "verify"}
        PROVE  task[w].escrow \in Escrows /\ escrow[task[w].escrow] = "INITIATED"
    BY <1>1, <2>2, TaskFields DEF SInv, CallbackFindsInitiated
  <2>3. QED
    BY <1>1, <2>1, <2>2 DEF CallbackFindsInitiated
<1>6. QED
  BY <1>1, <1>3, <1>4, <1>5 DEF Next

LEMMA SerialInit == Init => SInv
BY InitType, ReleaseInit DEF Init, SInv, CallbackFindsInitiated, QueuedIsRefunded, Idle

LEMMA SerialStep ==
    ASSUME NEW w, Workers = {w}, SInv, [Next]_vars
    PROVE  SInv'
<1>1. CASE Next
  BY <1>1, TypeStep, ReleaseStep, QueueStep, CallbackStep DEF SInv
<1>2. CASE UNCHANGED vars
  BY <1>2, TypeStep, ReleaseKept DEF SInv, CallbackFindsInitiated, QueuedIsRefunded, vars, database, money
<1>3. QED
  BY <1>1, <1>2

-----------------------------------------------------------------------------
(* With one worker, every row of the escrow table lives by the documented  *)
(* machine: it only moves forward and its sum is promised once.            *)
THEOREM Refinement ==
    ASSUME NEW CONSTANT w, Workers = {w}
    PROVE  Spec => ImplementsContract
<1>1. Init => SInv /\ Contract!Init
  <2> SUFFICES ASSUME Init PROVE SInv /\ Contract!Init
    OBVIOUS
  <2>1. Payees("ABSENT", <<>>) = "nobody"
    BY DEF Payees
  <2>2. Contract!Init
    BY <2>1 DEF Init, Contract!Init
  <2>3. QED
    BY <2>2, SerialInit
<1>2. SInv /\ [Next]_vars => SInv'
  BY SerialStep
<1>3. SInv /\ [Next]_vars => [Contract!Next]_(Contract!contractVars)
  <2> SUFFICES ASSUME SInv, [Next]_vars
               PROVE  Contract!Next \/ UNCHANGED Contract!contractVars
    OBVIOUS
  <2>1. CASE UNCHANGED money
    BY <2>1 DEF money, Contract!contractVars
  <2>2. CASE Forward
    BY <2>2, ForwardIsMove DEF SInv
  <2>3. QED
    BY <2>1, <2>2, MoneyStep DEF vars, database
<1>4. QED
  BY <1>1, <1>2, <1>3, PTL DEF Spec, ImplementsContract, Contract!Spec

(* A row that is settled, and its rows of the refund queue, are never      *)
(* written again.                                                          *)
SettledForGood ==
    [][\A e \in Escrows : escrow[e] \in {"RELEASED", "REFUNDED"} =>
           escrow'[e] = escrow[e] /\ refunds'[e] = refunds[e]]_vars

(* With one worker, "State Machine: INITIATED -> HELD ->                   *)
(* RELEASED/REFUNDED" and "Escrow is immutable after RELEASED" are kept:   *)
(* the overwritten settlement of the run SettledRowOverwritten takes two   *)
(* requests at once.                                                       *)
THEOREM SerialSettlesForGood ==
    ASSUME NEW CONSTANT w, Workers = {w}
    PROVE  Spec => SettledRowIsFinal /\ SettledForGood
<1>1. SInv /\ [Next]_vars =>
          \A e \in Escrows : escrow[e] \in {"RELEASED", "REFUNDED"} =>
              escrow'[e] = escrow[e] /\ refunds'[e] = refunds[e]
  <2> SUFFICES ASSUME SInv, [Next]_vars, NEW e \in Escrows,
                      escrow[e] \in {"RELEASED", "REFUNDED"}
               PROVE  escrow'[e] = escrow[e] /\ refunds'[e] = refunds[e]
    OBVIOUS
  <2>1. CASE UNCHANGED money
    BY <2>1 DEF money
  <2>2. CASE Forward
    BY <2>2 DEF Forward, RowTo, SInv, TypeOK
  <2>3. QED
    BY <2>1, <2>2, MoneyStep DEF vars, database
<1>2. SInv /\ [Next]_vars =>
          [\A e \in Escrows : escrow[e] \in {"RELEASED", "REFUNDED"} =>
              escrow'[e] = escrow[e] /\ refunds'[e] = refunds[e]]_vars
  BY <1>1
<1>3. SInv /\ [Next]_vars =>
          [\A e \in Escrows :
              escrow[e] \in {"RELEASED", "REFUNDED"} => escrow'[e] = escrow[e]]_vars
  BY <1>1
<1>4. SInv /\ [Next]_vars => SInv'
  BY SerialStep
<1>5. Spec => SettledForGood
  BY <1>2, <1>4, SerialInit, PTL DEF Spec, SettledForGood
<1>6. Spec => SettledRowIsFinal
  BY <1>3, <1>4, SerialInit, PTL DEF Spec, SettledRowIsFinal
<1>7. QED
  BY <1>5, <1>6

-----------------------------------------------------------------------------
(* A mission and its contract.                                             *)

Engaged(j) == job[j] \in {"MATCHED", "IN_PROGRESS", "COMPLETED"}

HasContract(j) ==
    /\ Engaged(j) => booking[j] # "NONE" /\ \E o \in Offers : AcceptedBids(j) = {o}
    /\ ~Engaged(j) => booking[j] = "NONE" /\ AcceptedBids(j) = {}

(* What a request has read of its mission still holds when it saves: no    *)
(* other request runs, and the scheduler and the gateway leave missions,   *)
(* bids and bookings alone.                                                *)
Reads(t) ==
    /\ t.kind = "initiate" => job[t.job] = "MATCHED"
    /\ t.kind = "complete" => job[t.job] = "IN_PROGRESS" /\ booking[t.job] = t.method
    /\ t.kind = "recordDebt" => job[t.job] = "COMPLETED" /\ booking[t.job] = "COD"
    /\ t.kind \in {"clientCancel", "transporterCancel"} =>
          job[t.job] \in {"MATCHED", "IN_PROGRESS"} /\ AcceptedBids(t.job) = t.bids
    /\ t.kind = "ownerCancel" => job[t.job] = "PUBLISHED"
    /\ t.kind = "expireOffers" => job[t.job] = "CANCELLED"

ContractInv ==
    /\ TypeOK
    /\ \A j \in Jobs : HasContract(j)
    /\ \A w \in Workers : Reads(task[w])

LEMMA ContractForm == (\A j \in Jobs : HasContract(j)) <=> EngagedHasContract
<1>1. ASSUME NEW j \in Jobs, HasContract(j)
      PROVE  /\ (booking[j] # "NONE") <=> Engaged(j)
             /\ (\E o \in Offers : AcceptedBids(j) = {o}) <=> Engaged(j)
             /\ AcceptedBids(j) = {} <=> ~Engaged(j)
  BY <1>1 DEF HasContract
<1>2. ASSUME EngagedHasContract, NEW j \in Jobs PROVE HasContract(j)
  BY <1>2 DEF EngagedHasContract, HasContract, Engaged
<1>3. QED
  BY <1>1, <1>2 DEF EngagedHasContract, Engaged

LEMMA AloneInit == Init => ContractInv
<1> SUFFICES ASSUME Init PROVE ContractInv
  OBVIOUS
<1>1. TypeOK
  BY InitType
<1>2. ASSUME NEW j \in Jobs PROVE HasContract(j)
  <2>1. job[j] = "PUBLISHED" /\ booking[j] = "NONE" /\ \A o \in Offers : offer[o] = "OPEN"
    BY DEF Init
  <2>2. QED
    BY <2>1 DEF HasContract, Engaged, AcceptedBids, BidsOf
<1>3. ASSUME NEW w \in Workers PROVE Reads(task[w])
  <2>1. task[w].kind = "idle"
    BY DEF Init, Idle
  <2>2. QED
    BY <2>1 DEF Reads
<1>4. QED
  BY <1>1, <1>2, <1>3 DEF ContractInv

(* A bid changes the accepted bids of its own mission only.                *)
LEMMA OtherMission ==
    ASSUME NEW j \in Jobs, NEW k \in Jobs, k # j,
           \A o \in Offers : OfferJob[o] # j => (offer'[o] = "ACCEPTED" <=> offer[o] = "ACCEPTED"),
           job'[k] = job[k], booking'[k] = booking[k], HasContract(k)
    PROVE  HasContract(k)'
<1>1. AcceptedBids(k)' = AcceptedBids(k)
  BY DEF AcceptedBids, BidsOf
<1>2. QED
  BY <1>1 DEF HasContract, Engaged

LEMMA MissionKept ==
    ASSUME ContractInv, UNCHANGED mission
    PROVE  \A j \in Jobs : HasContract(j)'
BY DEF ContractInv, mission, HasContract, Engaged, AcceptedBids, BidsOf

(* Accepting a bid of a published mission.                                 *)
LEMMA AcceptKeeps ==
    ASSUME ContractInv, NEW w \in Workers, NEW o \in Offers, NEW m \in PaymentMethod,
           AcceptOffer(w, o, m) \/ AcceptTripRequest(w, o, m)
    PROVE  \A k \in Jobs : HasContract(k)'
<1> USE PaymentAssumption
<1> DEFINE j == OfferJob[o]
<1>1. /\ j \in Jobs /\ job[j] = "PUBLISHED" /\ offer[o] = "OPEN"
      /\ job' = [job EXCEPT ![j] = "MATCHED"]
      /\ booking' = [booking EXCEPT ![j] = IF @ = "NONE" THEN m ELSE @]
      /\ \/ offer' = [offer EXCEPT ![o] = "ACCEPTED"]
         \/ offer' = [Voided(BidsOf(j)) EXCEPT ![o] = "ACCEPTED"]
  BY DEF AcceptOffer, AcceptTripRequest
<1>2. job \in [Jobs -> JobStatus] /\ booking \in [Jobs -> PaymentMethod \cup {"NONE"}]
      /\ offer \in [Offers -> OfferStatus]
  BY DEF ContractInv, TypeOK
<1>3. booking[j] = "NONE" /\ AcceptedBids(j) = {}
  BY <1>1 DEF ContractInv, HasContract, Engaged
<1> HIDE DEF j
<1>4. \A x \in Offers : OfferJob[x] # j => (offer'[x] = "ACCEPTED" <=> offer[x] = "ACCEPTED")
  BY <1>1, <1>2 DEF Voided, BidsOf, j
<1>5. \A x \in Offers : OfferJob[x] = j => (offer'[x] = "ACCEPTED" <=> x = o)
  BY <1>1, <1>2, <1>3 DEF Voided, AcceptedBids, BidsOf
<1>6. HasContract(j)'
  <2>1. AcceptedBids(j)' = {o}
    BY <1>5 DEF AcceptedBids, BidsOf, j
  <2>2. booking'[j] # "NONE" /\ job'[j] = "MATCHED"
    BY <1>1, <1>2, <1>3 DEF PaymentMethod
  <2>3. QED
    BY <2>1, <2>2 DEF HasContract, Engaged
<1>7. ASSUME NEW k \in Jobs, k # j PROVE HasContract(k)'
  <2>1. job'[k] = job[k] /\ booking'[k] = booking[k]
    BY <1>1, <1>2, <1>7
  <2>2. QED
    BY <1>1, <1>4, <1>7, <2>1, OtherMission DEF ContractInv
<1>8. QED
  BY <1>6, <1>7

(* A step that moves one mission from one engaged status to another.       *)
LEMMA AdvanceKeeps ==
    ASSUME ContractInv, NEW j \in Jobs, NEW to, UNCHANGED <<offer, booking>>,
           job' = [job EXCEPT ![j] = to],
           Engaged(j) <=> to \in {"MATCHED", "IN_PROGRESS", "COMPLETED"}
    PROVE  \A k \in Jobs : HasContract(k)'
<1>1. \A k \in Jobs : job'[k] = IF k = j THEN to ELSE job[k]
  BY DEF ContractInv, TypeOK
<1>2. \A k \in Jobs : AcceptedBids(k)' = AcceptedBids(k) /\ (Engaged(k)' <=> Engaged(k))
  BY <1>1 DEF AcceptedBids, BidsOf, Engaged
<1>3. QED
  BY <1>2 DEF ContractInv, HasContract

LEMMA CancelKeeps ==
    ASSUME ContractInv, NEW w \in Workers, CancelSave(w)
    PROVE  \A k \in Jobs : HasContract(k)'
<1> USE PaymentAssumption
<1>0. PICK j \in Jobs, b \in SUBSET Offers : j = task[w].job /\ b = task[w].bids
  BY TaskFields DEF ContractInv, CancelSave
<1>1. AcceptedBids(j) = b
  BY <1>0 DEF ContractInv, CancelSave, Reads
<1>2. /\ offer' = Voided(b)
      /\ job' = [job EXCEPT ![j] = StatusAfterCancel(task[w].kind, j)]
      /\ booking' = [booking EXCEPT ![j] = "NONE"]
  BY <1>0 DEF CancelSave
<1>3. StatusAfterCancel(task[w].kind, j) \in {"CANCELLED", "PUBLISHED"}
  BY DEF StatusAfterCancel
<1>4. \A k \in Jobs : HasContract(k)
  BY DEF ContractInv
<1>5. /\ \A k \in Jobs : k # j => job'[k] = job[k] /\ booking'[k] = booking[k]
      /\ job'[j] \in {"CANCELLED", "PUBLISHED"} /\ booking'[j] = "NONE"
  BY <1>1, <1>2, <1>3 DEF ContractInv, TypeOK
<1>6. \A o \in Offers : offer'[o] = "ACCEPTED" <=> offer[o] = "ACCEPTED" /\ OfferJob[o] # j
  BY <1>1, <1>2 DEF Voided, AcceptedBids, BidsOf
<1>7. HasContract(j)'
  BY <1>5, <1>6 DEF HasContract, Engaged, AcceptedBids, BidsOf
<1>8. ASSUME NEW k \in Jobs, k # j PROVE HasContract(k)'
  BY <1>1, <1>4, <1>5, <1>6, <1>8, OtherMission
<1>9. QED
  BY <1>7, <1>8

LEMMA ExpireKeeps ==
    ASSUME ContractInv, NEW w \in Workers, ExpireOffers(w)
    PROVE  \A k \in Jobs : HasContract(k)'
<1> DEFINE j == task[w].job
<1>1. j \in Jobs /\ job[j] = "CANCELLED" /\ offer' = Voided(BidsOf(j)) /\ UNCHANGED <<job, booking>>
  BY TaskFields DEF ContractInv, ExpireOffers, Reads
<1>2. AcceptedBids(j) = {}
  BY <1>1 DEF ContractInv, HasContract, Engaged
<1> HIDE DEF j
<1>3. \A o \in Offers : offer'[o] = "ACCEPTED" <=> offer[o] = "ACCEPTED"
  BY <1>1, <1>2 DEF Voided, AcceptedBids, BidsOf
<1>4. \A k \in Jobs : AcceptedBids(k)' = AcceptedBids(k)
  BY <1>3 DEF AcceptedBids, BidsOf
<1>5. QED
  BY <1>1, <1>4 DEF ContractInv, HasContract, Engaged

(* Every step keeps missions and contracts together.                       *)
LEMMA ContractStep ==
    ASSUME ContractInv, Next
    PROVE  \A k \in Jobs : HasContract(k)'
<1> USE PaymentAssumption
<1>1. ASSUME NEW w \in Workers, Receive(w)
      PROVE  \A k \in Jobs : HasContract(k)'
  <2>1. CASE \E o \in Offers, m \in PaymentMethod :
                AcceptOffer(w, o, m) \/ AcceptTripRequest(w, o, m)
    BY <2>1, AcceptKeeps
  <2>2. ASSUME NEW j \in Jobs, ConfirmStart(w, j)
        PROVE  \A k \in Jobs : HasContract(k)'
    BY <2>2, AdvanceKeeps DEF ConfirmStart, Engaged
  <2>3. CASE UNCHANGED mission
    BY <2>3, MissionKept
  <2>4. QED
    BY <1>1, <2>1, <2>2, <2>3
       DEF Receive, TransporterCancelRead, InitiateCheck, CompleteRead, ConfirmCompletion,
           AdminRelease, ClientCancelRead, OwnerCancelRead, WebhookRead, VerifyRead,
           OpenDispute, InvestigateRead, RejectRead, ResolveRead, Ask, database
<1>2. ASSUME NEW w \in Workers, Proceed(w)
      PROVE  \A k \in Jobs : HasContract(k)'
  <2>0. TypeOK /\ Reads(task[w])
    BY DEF ContractInv
  <2>1. CASE Activate(w)
    <3> DEFINE j == EscrowJob[task[w].escrow]
    <3>1. j \in Jobs
      BY <2>0, <2>1, TaskFields DEF Activate
    <3>2. /\ job' = [job EXCEPT ![j] = IF job[j] = "MATCHED" THEN "IN_PROGRESS" ELSE job[j]]
          /\ UNCHANGED <<offer, booking>>
      BY <2>0, <2>1, <3>1 DEF Activate, TypeOK
    <3> HIDE DEF j
    <3>3. QED
      BY <3>1, <3>2, AdvanceKeeps DEF Engaged
  <2>2. CASE CompleteSave(w)
    BY <2>0, <2>2, TaskFields, AdvanceKeeps DEF CompleteSave, Reads, Engaged
  <2>3. CASE OwnerCancelSave(w)
    BY <2>0, <2>3, TaskFields, AdvanceKeeps DEF OwnerCancelSave, Reads, Engaged
  <2>4. CASE CancelSave(w)
    BY <2>4, CancelKeeps
  <2>5. CASE ExpireOffers(w)
    BY <2>5, ExpireKeeps
  <2>6. CASE UNCHANGED mission
    BY <2>6, MissionKept
  <2>7. QED
    BY <1>2, <2>1, <2>2, <2>3, <2>4, <2>5, <2>6
       DEF Proceed, InitiateCreate, InitiateRefused, CallbackSave, VerifyUnanswered,
           RecordDebt, ReleaseSave, InvestigateSave, RejectSave, ResolveSave, database
<1>3. ASSUME NEW w \in Workers, Crash(w)
      PROVE  \A k \in Jobs : HasContract(k)'
  BY <1>3, MissionKept DEF Crash
<1>4. ASSUME NEW e \in Escrows,
             \/ \E result \in {"paid", "failed"} : GatewaySettles(e, result)
             \/ ListDue(e) \/ AutoRelease(e) \/ AutoReleaseSave(e)
      PROVE  \A k \in Jobs : HasContract(k)'
  BY <1>4, MissionKept DEF GatewaySettles, ListDue, AutoRelease, AutoReleaseSave, database
<1>5. QED
  BY <1>1, <1>2, <1>3, <1>4 DEF Next

-----------------------------------------------------------------------------
(* With one worker, what its request has read stays true.                  *)
LEMMA ReadsStep ==
    ASSUME NEW w, Workers = {w}, ContractInv, Next
    PROVE  Reads(task[w])'
<1> USE PaymentAssumption
<1>1. w \in Workers /\ TypeOK /\ Reads(task[w]) /\ \A j \in Jobs : HasContract(j)
  BY DEF ContractInv
<1>2. CASE task'[w].kind \notin {"initiate", "complete", "recordDebt", "clientCancel",
                                 "transporterCancel", "ownerCancel", "expireOffers"}
  BY <1>2 DEF Reads
<1>3. CASE UNCHANGED <<mission, task>>
  BY <1>1, <1>3 DEF Reads, mission, AcceptedBids, BidsOf
<1>4. CASE Receive(w)
  <2>0. Free(w)
    BY <1>4
       DEF Receive, AcceptOffer, AcceptTripRequest, ConfirmStart, ConfirmCompletion,
           AdminRelease, OpenDispute, TransporterCancelRead, InitiateCheck, CompleteRead,
           ClientCancelRead, OwnerCancelRead, WebhookRead, VerifyRead, InvestigateRead,
           RejectRead, ResolveRead, Ask
  <2>1. CASE UNCHANGED task
    BY <1>2, <2>0, <2>1 DEF Free, Idle
  <2>2. ASSUME NEW t, Ask(w, t)
        PROVE  task'[w] = t /\ UNCHANGED mission
    BY <1>1, <2>2 DEF Ask, Serve, TypeOK, database
  <2>3. ASSUME NEW t, Ask(w, t), Reads(t)
        PROVE  Reads(task[w])'
    BY <2>2, <2>3 DEF Reads, mission, AcceptedBids, BidsOf
  <2>4. ASSUME NEW o \in Offers, TransporterCancelRead(w, o)
        PROVE  Reads(task[w])'
    <3>1. OfferJob[o] \in Jobs /\ o \in AcceptedBids(OfferJob[o])
      BY <2>4 DEF TransporterCancelRead, AcceptedBids, BidsOf
    <3>2. AcceptedBids(OfferJob[o]) = {o}
      BY <1>1, <3>1 DEF HasContract
    <3>3. QED
      BY <2>3, <2>4, <3>2 DEF TransporterCancelRead, Reads
  <2>5. ASSUME NEW j \in Jobs, ClientCancelRead(w, j)
        PROVE  Reads(task[w])'
    <3>1. ASSUME NEW o \in AcceptedBids(j)
          PROVE  AcceptedBids(j) = {o}
      BY <1>1 DEF HasContract
    <3>2. QED
      BY <2>3, <2>5, <3>1 DEF ClientCancelRead, Reads
  <2>6. ASSUME NEW j \in Jobs, InitiateCheck(w, j) \/ CompleteRead(w, j) \/ OwnerCancelRead(w, j)
        PROVE  Reads(task[w])'
    BY <2>3, <2>6 DEF InitiateCheck, CompleteRead, OwnerCancelRead, Reads
  <2>7. ASSUME NEW t, Ask(w, t), t.kind \in {"webhook", "verify", "investigate", "reject", "resolve"}
        PROVE  Reads(task[w])'
    BY <1>2, <2>2, <2>7
  <2>8. ASSUME NEW j \in Jobs, ConfirmCompletion(w, j) \/ AdminRelease(w, j)
        PROVE  Reads(task[w])'
    BY <1>1, <1>2, <2>8 DEF ConfirmCompletion, AdminRelease, BeginRelease, Serve, TypeOK
  <2>9. QED
    BY <1>4, <2>1, <2>4, <2>5, <2>6, <2>7, <2>8
       DEF Receive, AcceptOffer, AcceptTripRequest, ConfirmStart, OpenDispute,
           WebhookRead, VerifyRead, InvestigateRead, RejectRead, ResolveRead
<1>5. CASE Proceed(w) \/ Crash(w)
  <2>1. CASE OwnerCancelSave(w)
    <3>1. task[w].job \in Jobs
      BY <1>1, <2>1, TaskFields DEF OwnerCancelSave
    <3>2. /\ task'[w] = [kind |-> "expireOffers", job |-> task[w].job]
          /\ job'[task[w].job] = "CANCELLED"
      BY <1>1, <2>1, <3>1 DEF OwnerCancelSave, Serve, TypeOK
    <3>3. QED
      BY <3>2 DEF Reads
  <2>2. CASE CompleteSave(w)
    <3>1. /\ task[w].job \in Jobs
          /\ task[w].method = booking[task[w].job]
      BY <1>1, <2>2, TaskFields DEF CompleteSave, Reads
    <3>2. job'[task[w].job] = "COMPLETED" /\ booking' = booking
      BY <1>1, <2>2, <3>1 DEF CompleteSave, TypeOK
    <3>3. CASE task[w].method = "COD"
      <4>1. task'[w] = [kind |-> "recordDebt", job |-> task[w].job]
        BY <1>1, <2>2, <3>3 DEF CompleteSave, OwesCommission, Serve, TypeOK
      <4>2. task'[w].kind = "recordDebt" /\ task'[w].job = task[w].job
        BY <4>1
      <4>3. job'[task'[w].job] = "COMPLETED" /\ booking'[task'[w].job] = "COD"
        BY <3>1, <3>2, <3>3, <4>2
      <4>4. QED
        BY <4>2, <4>3 DEF Reads
    <3>4. CASE task[w].method # "COD"
      BY <1>1, <1>2, <2>2, <3>4 DEF CompleteSave, OwesCommission, Answer, Serve, Idle, TypeOK
    <3>5. QED
      BY <3>3, <3>4
  <2>3. CASE ~OwnerCancelSave(w) /\ ~CompleteSave(w)
    BY <1>1, <1>2, <1>5, <2>3
       DEF Proceed, Crash, InitiateCreate, InitiateRefused, CallbackSave, VerifyUnanswered,
           Activate, RecordDebt, ReleaseSave, CancelSave, ExpireOffers, InvestigateSave,
           RejectSave, ResolveSave, BeginRelease, Answer, Serve, Idle, TypeOK
  <2>4. QED
    BY <2>1, <2>2, <2>3
<1>6. ASSUME NEW e \in Escrows,
             \/ \E result \in {"paid", "failed"} : GatewaySettles(e, result)
             \/ ListDue(e) \/ AutoRelease(e) \/ AutoReleaseSave(e)
      PROVE  UNCHANGED <<mission, task>>
  BY <1>6 DEF GatewaySettles, ListDue, AutoRelease, AutoReleaseSave, database
<1>7. QED
  BY <1>1, <1>3, <1>4, <1>5, <1>6 DEF Next

LEMMA AloneStep ==
    ASSUME NEW w, Workers = {w}, ContractInv, [Next]_vars
    PROVE  ContractInv'
<1>0. TypeOK'
  BY TypeStep DEF ContractInv
<1>1. CASE Next
  BY <1>0, <1>1, ContractStep, ReadsStep DEF ContractInv
<1>2. CASE UNCHANGED vars
  <2>1. \A x \in Workers : Reads(task[x])'
    BY <1>2 DEF ContractInv, Reads, vars, database, mission, AcceptedBids, BidsOf
  <2>2. QED
    BY <1>0, <1>2, <2>1, MissionKept DEF ContractInv, vars, database
<1>3. QED
  BY <1>1, <1>2

(* With one worker, a mission, its accepted bid and its booking agree.     *)
THEOREM ContractKept ==
    ASSUME NEW CONSTANT w, Workers = {w}
    PROVE  Spec => []EngagedHasContract
<1>1. ContractInv /\ [Next]_vars => ContractInv'
  BY AloneStep
<1>2. ContractInv => EngagedHasContract
  BY ContractForm DEF ContractInv
<1>3. QED
  BY <1>1, <1>2, AloneInit, PTL DEF Spec

-----------------------------------------------------------------------------
(* A ruling and the money it has moved.                                    *)

Paid(j) == \E e \in RowsOf(j) : escrow[e] = "RELEASED"
Shared(j) ==
    \E e \in RowsOf(j) :
        escrow[e] = "REFUNDED" /\ refunds[e] # <<>> /\ refunds[e][1].share = "PART"

(* A ruling that pays or shares is backed by a row.                        *)
Backed(d, ruling) ==
    ruling.status = "RESOLVED" =>
        /\ ruling.outcome = "RELEASE_TRANSPORTER" => Paid(DisputeJob[d])
        /\ ruling.outcome = "SPLIT" => Shared(DisputeJob[d])

LEMMA BackedForm == RulingMovedMoney <=> \A d \in Disputes : Backed(d, dispute[d])
BY DEF RulingMovedMoney, Backed, Paid, Shared

(* A settled row is never written again by one worker.                     *)
LEMMA SettledStays ==
    ASSUME SInv, Next, NEW j \in Jobs
    PROVE  (Paid(j) => Paid(j)') /\ (Shared(j) => Shared(j)')
<1>1. CASE UNCHANGED money
  BY <1>1 DEF money, Paid, Shared, RowsOf
<1>2. CASE Forward
  <2>1. ASSUME NEW e \in Escrows, escrow[e] \in {"RELEASED", "REFUNDED"}
        PROVE  escrow'[e] = escrow[e] /\ refunds'[e] = refunds[e]
    BY <1>2, <2>1 DEF Forward, RowTo, SInv, TypeOK
  <2>2. QED
    BY <2>1 DEF Paid, Shared, RowsOf
<1>3. QED
  BY <1>1, <1>2, MoneyStep

(* What a ruling moves backs it.                                           *)
LEMMA RulingPays ==
    ASSUME SInv, NEW w \in Workers, ReleaseSave(w), NEW d \in Disputes, d \in task[w].ruling
    PROVE  Paid(DisputeJob[d])'
<1>1. PICK e \in Escrows : e = task[w].escrow
  BY TaskFields DEF SInv, ReleaseSave
<1>2. Releasing(w, e)
  BY <1>1 DEF ReleaseSave, Releasing
<1>3. DisputeJob[d] = EscrowJob[e]
  BY <1>2 DEF SInv, ReleaseInv, DisputesTested, Tested
<1>4. escrow'[e] = "RELEASED"
  BY <1>1 DEF ReleaseSave, SInv, TypeOK
<1>5. QED
  BY <1>3, <1>4 DEF Paid, RowsOf

LEMMA RulingShares ==
    ASSUME SInv, NEW j \in Jobs, SplitEscrow(j)
    PROVE  Shared(j)'
<1>1. PICK e \in Refundable(j) : SendBack(e, SplitRows(j))
  BY DEF SplitEscrow
<1>2. e \in Escrows /\ EscrowJob[e] = j /\ escrow[e] # "REFUNDED"
  BY DEF Refundable, RowsOf
<1>3. escrow'[e] = "REFUNDED" /\ refunds'[e] = refunds[e] \o SplitRows(j) /\ refunds[e] = <<>>
  BY <1>1, <1>2 DEF SendBack, SInv, TypeOK, QueuedIsRefunded
<1>4. ClientRow("PART", j) \in RefundRow /\ TransporterRow \in RefundRow
  BY DEF ClientRow, TransporterRow, RefundRow, Party
<1>5. /\ SplitRows(j) \in Seq(RefundRow) /\ SplitRows(j) # <<>>
      /\ SplitRows(j)[1] = ClientRow("PART", j)
  BY <1>4 DEF SplitRows
<1>6. refunds'[e] = SplitRows(j)
  BY <1>3, <1>5
<1>7. ClientRow("PART", j).share = "PART"
  BY DEF ClientRow
<1>8. QED
  BY <1>2, <1>3, <1>5, <1>6, <1>7 DEF Shared, RowsOf

(* A step rules at most one dispute, and backs it.                         *)
LEMMA RulingStep ==
    ASSUME SInv, Next, NEW d \in Disputes
    PROVE  dispute'[d] = dispute[d] \/ Backed(d, dispute[d])'
<1> USE PaymentAssumption
<1>0. TypeOK /\ DisputeJob[d] \in Jobs
  BY DEF SInv
<1>1. CASE UNCHANGED dispute
  BY <1>1
<1>2. CASE dispute'[d].status # "RESOLVED"
  BY <1>2 DEF Backed
<1>3. ASSUME NEW w \in Workers, Receive(w)
      PROVE  dispute'[d] = dispute[d] \/ Backed(d, dispute[d])'
  <2>1. CASE \E c \in Disputes : OpenDispute(w, c)
    BY <1>0, <1>2, <2>1 DEF OpenDispute, TypeOK
  <2>2. CASE ~\E c \in Disputes : OpenDispute(w, c)
    BY <1>1, <1>3, <2>2
       DEF Receive, AcceptOffer, AcceptTripRequest, TransporterCancelRead, ConfirmStart,
           InitiateCheck, CompleteRead, ConfirmCompletion, AdminRelease, ClientCancelRead,
           OwnerCancelRead, WebhookRead, VerifyRead, InvestigateRead, RejectRead,
           ResolveRead, Ask, database
  <2>3. QED
    BY <2>1, <2>2
<1>4. ASSUME NEW w \in Workers, Proceed(w)
      PROVE  dispute'[d] = dispute[d] \/ Backed(d, dispute[d])'
  <2>1. CASE InvestigateSave(w) \/ RejectSave(w)
    BY <1>0, <1>2, <2>1 DEF InvestigateSave, RejectSave, TypeOK
  <2>2. CASE ResolveSave(w)
    <3>1. PICK c \in Disputes, ruling \in Outcome :
              c = task[w].dispute /\ ruling = task[w].outcome
      BY <1>0, <2>2, TaskFields DEF ResolveSave
    <3> DEFINE ruled == [dispute EXCEPT ![c] = [status |-> "RESOLVED", outcome |-> ruling]]
    <3>2. CASE UNCHANGED dispute
      BY <1>1, <3>2
    <3>3. CASE MoveMoney(ruling, DisputeJob[c]) /\ dispute' = ruled
      <4>1. CASE c # d
        BY <1>0, <3>3, <4>1 DEF TypeOK
      <4>2. CASE c = d
        <5>1. dispute'[d] = [status |-> "RESOLVED", outcome |-> ruling]
          BY <1>0, <3>3, <4>2 DEF TypeOK
        <5> HIDE DEF ruled
        <5>2. ruling # "RELEASE_TRANSPORTER"
          BY <3>3 DEF MoveMoney
        <5>3. ruling = "SPLIT" => Shared(DisputeJob[d])'
          BY <1>0, <3>3, <4>2, RulingShares DEF MoveMoney
        <5>4. QED
          BY <5>1, <5>2, <5>3 DEF Backed
      <4>3. QED
        BY <4>1, <4>2
    <3>4. QED
      BY <2>2, <3>1, <3>2, <3>3 DEF ResolveSave
  <2>3. CASE ReleaseSave(w)
    <3>1. CASE d \in task[w].ruling
      <4>1. dispute'[d] = [status |-> "RESOLVED", outcome |-> "RELEASE_TRANSPORTER"]
        BY <2>3, <3>1 DEF ReleaseSave
      <4>2. Paid(DisputeJob[d])'
        BY <2>3, <3>1, RulingPays
      <4>3. QED
        BY <4>1, <4>2 DEF Backed
    <3>2. CASE d \notin task[w].ruling
      BY <2>3, <3>2 DEF ReleaseSave
    <3>3. QED
      BY <3>1, <3>2
  <2>4. QED
    BY <1>1, <1>4, <2>1, <2>2, <2>3
       DEF Proceed, InitiateCreate, InitiateRefused, CallbackSave, VerifyUnanswered,
           Activate, CompleteSave, RecordDebt, CancelSave, OwnerCancelSave, ExpireOffers,
           database
<1>5. ASSUME NEW w \in Workers, Crash(w)
      PROVE  UNCHANGED dispute
  BY <1>5 DEF Crash
<1>6. ASSUME NEW e \in Escrows,
             \/ \E result \in {"paid", "failed"} : GatewaySettles(e, result)
             \/ ListDue(e) \/ AutoRelease(e) \/ AutoReleaseSave(e)
      PROVE  UNCHANGED dispute
  BY <1>6 DEF GatewaySettles, ListDue, AutoRelease, AutoReleaseSave, database
<1>7. QED
  BY <1>1, <1>3, <1>4, <1>5, <1>6 DEF Next

(* With one worker, a ruling that pays the transporter or shares the sum   *)
(* has moved money of its mission, which stays moved.                      *)
THEOREM RulingsPay ==
    ASSUME NEW CONSTANT w, Workers = {w}
    PROVE  Spec => []RulingMovedMoney
<1> USE PaymentAssumption
<1>1. Init => SInv /\ RulingMovedMoney
  <2> SUFFICES ASSUME Init PROVE SInv /\ RulingMovedMoney
    OBVIOUS
  <2>1. SInv
    BY SerialInit
  <2>2. RulingMovedMoney
    BY DEF Init, RulingMovedMoney
  <2>3. QED
    BY <2>1, <2>2
<1>2. SInv /\ RulingMovedMoney /\ [Next]_vars => (SInv /\ RulingMovedMoney)'
  <2> SUFFICES ASSUME SInv, RulingMovedMoney, [Next]_vars PROVE (SInv /\ RulingMovedMoney)'
    OBVIOUS
  <2>1. CASE Next
    <3>1. SInv'
      BY SerialStep
    <3>2. ASSUME NEW d \in Disputes PROVE Backed(d, dispute[d])'
      <4>1. Backed(d, dispute[d]) /\ DisputeJob[d] \in Jobs
        BY BackedForm
      <4>2. CASE dispute'[d] = dispute[d]
        BY <2>1, <4>1, <4>2, SettledStays DEF Backed
      <4>3. QED
        BY <2>1, <4>2, RulingStep
    <3>3. RulingMovedMoney'
      BY <3>2 DEF RulingMovedMoney, Backed, Paid, Shared
    <3>4. QED
      BY <3>1, <3>3
  <2>2. CASE UNCHANGED vars
    <3>1. SInv'
      BY SerialStep
    <3>2. UNCHANGED <<escrow, refunds, dispute>>
      BY <2>2 DEF vars, database, money
    <3>3. \A j : Paid(j)' = Paid(j) /\ Shared(j)' = Shared(j)
      BY <3>2 DEF Paid, Shared, RowsOf
    <3>4. \A d \in Disputes : Backed(d, dispute[d])'
      BY <3>2, <3>3, BackedForm DEF Backed
    <3>5. RulingMovedMoney'
      BY <3>4 DEF RulingMovedMoney, Backed, Paid, Shared
    <3>6. QED
      BY <3>1, <3>5
  <2>3. QED
    BY <2>1, <2>2
<1>3. QED
  BY <1>1, <1>2, PTL DEF Spec

-----------------------------------------------------------------------------
(* What becomes of a mission, one request at a time: nothing undoes a      *)
(* delivery, and an engagement ends in a cancellation only.                *)
LEMMA MissionMoves ==
    ASSUME NEW w, Workers = {w}, ContractInv, Next, NEW j \in Jobs
    PROVE  /\ job[j] = "COMPLETED" => job'[j] = "COMPLETED" /\ booking'[j] = booking[j]
           /\ job[j] # "COMPLETED" /\ job'[j] = "COMPLETED" => CompleteSave(w) /\ task[w].job = j
           /\ Engaged(j) /\ ~Engaged(j)' => CancelSave(w) /\ task[w].job = j
<1> USE PaymentAssumption
<1>0. TypeOK /\ w \in Workers /\ Reads(task[w])
  BY DEF ContractInv
<1>1. CASE UNCHANGED mission
  BY <1>1 DEF mission, Engaged
<1>2. ASSUME NEW o \in Offers, NEW m \in PaymentMethod,
             AcceptOffer(w, o, m) \/ AcceptTripRequest(w, o, m)
      PROVE  (job'[j] = job[j] /\ booking'[j] = booking[j]) \/ (job[j] = "PUBLISHED" /\ job'[j] = "MATCHED")
  BY <1>0, <1>2 DEF AcceptOffer, AcceptTripRequest, TypeOK
<1>3. ASSUME NEW k \in Jobs, ConfirmStart(w, k)
      PROVE  booking' = booking /\ (job'[j] = job[j] \/ (job[j] = "MATCHED" /\ job'[j] = "IN_PROGRESS"))
  BY <1>0, <1>3 DEF ConfirmStart, TypeOK
<1>4. CASE Activate(w)
  <2>1. booking' = booking /\ (job'[j] = job[j] \/ (job[j] = "MATCHED" /\ job'[j] = "IN_PROGRESS"))
    BY <1>0, <1>4, TaskFields DEF Activate, TypeOK
  <2>2. QED
    BY <2>1 DEF Engaged
<1>5. CASE CompleteSave(w)
  <2>1. booking' = booking /\ (job'[j] = job[j] \/ (task[w].job = j /\ job[j] = "IN_PROGRESS"
                                                       /\ job'[j] = "COMPLETED"))
    BY <1>0, <1>5, TaskFields DEF CompleteSave, Reads, TypeOK
  <2>2. QED
    BY <1>5, <2>1 DEF Engaged
<1>6. CASE CancelSave(w)
  <2>1. \/ job'[j] = job[j] /\ booking'[j] = booking[j]
        \/ task[w].job = j /\ job[j] # "COMPLETED" /\ job'[j] \in {"PUBLISHED", "CANCELLED"}
    BY <1>0, <1>6, TaskFields DEF CancelSave, StatusAfterCancel, Reads, TypeOK
  <2>2. QED
    BY <1>6, <2>1 DEF Engaged
<1>7. CASE OwnerCancelSave(w) \/ ExpireOffers(w)
  <2>1. booking' = booking /\ (job'[j] = job[j] \/ (job[j] = "PUBLISHED" /\ job'[j] = "CANCELLED"))
    BY <1>0, <1>7, TaskFields DEF OwnerCancelSave, ExpireOffers, Reads, TypeOK
  <2>2. QED
    BY <2>1 DEF Engaged
<1>8. ASSUME Receive(w)
      PROVE  \/ UNCHANGED mission
             \/ \E o \in Offers, m \in PaymentMethod :
                    AcceptOffer(w, o, m) \/ AcceptTripRequest(w, o, m)
             \/ \E k \in Jobs : ConfirmStart(w, k)
  BY <1>8
     DEF Receive, TransporterCancelRead, InitiateCheck, CompleteRead, ConfirmCompletion,
         AdminRelease, ClientCancelRead, OwnerCancelRead, WebhookRead, VerifyRead,
         OpenDispute, InvestigateRead, RejectRead, ResolveRead, Ask, database
<1>9. ASSUME Proceed(w) \/ Crash(w)
      PROVE  \/ UNCHANGED mission
             \/ Activate(w) \/ CompleteSave(w) \/ CancelSave(w)
             \/ OwnerCancelSave(w) \/ ExpireOffers(w)
  BY <1>9
     DEF Proceed, Crash, InitiateCreate, InitiateRefused, CallbackSave, VerifyUnanswered,
         RecordDebt, ReleaseSave, InvestigateSave, RejectSave, ResolveSave, database
<1>10. ASSUME NEW e \in Escrows,
              \/ \E result \in {"paid", "failed"} : GatewaySettles(e, result)
              \/ ListDue(e) \/ AutoRelease(e) \/ AutoReleaseSave(e)
       PROVE  UNCHANGED mission
  BY <1>10 DEF GatewaySettles, ListDue, AutoRelease, AutoReleaseSave, database
<1>11. CASE Receive(w)
  BY <1>1, <1>2, <1>3, <1>8, <1>11 DEF Engaged
<1>12. CASE Proceed(w) \/ Crash(w)
  BY <1>1, <1>4, <1>5, <1>6, <1>7, <1>9, <1>12
<1>13. QED
  BY <1>1, <1>10, <1>11, <1>12 DEF Next

-----------------------------------------------------------------------------
(* Cash on delivery and the commission it owes.                            *)

CashDelivered(j) == job[j] = "COMPLETED" /\ booking[j] = "COD"

DebtRequest(j) == [kind |-> "recordDebt", job |-> j]

(* A debt is that of a mission delivered for cash, and such a mission has  *)
(* its debt, unless the request that delivered it is still to write it or  *)
(* a worker has died.                                                      *)
CashIsOwed ==
    \A j \in Jobs :
        /\ j \in ledger => CashDelivered(j)
        /\ CashDelivered(j) =>
               \/ j \in ledger
               \/ crashes > 0
               \/ \E w \in Workers : task[w] = DebtRequest(j)

(* The ledger grows only by the debt a request has kept to write.          *)
LEMMA LedgerMoves ==
    ASSUME NEW w, Workers = {w}, Next
    PROVE  \/ ledger' = ledger
           \/ task[w].kind = "recordDebt" /\ ledger' = ledger \cup {task[w].job}
<1>1. CASE UNCHANGED ledger
  BY <1>1
<1>2. CASE RecordDebt(w)
  BY <1>2 DEF RecordDebt
<1>3. ASSUME Receive(w) PROVE UNCHANGED ledger
  BY <1>3
     DEF Receive, AcceptOffer, AcceptTripRequest, TransporterCancelRead, ConfirmStart,
         InitiateCheck, CompleteRead, ConfirmCompletion, AdminRelease, ClientCancelRead,
         OwnerCancelRead, WebhookRead, VerifyRead, OpenDispute, InvestigateRead, RejectRead,
         ResolveRead, Ask, database
<1>4. ASSUME Proceed(w) \/ Crash(w) PROVE UNCHANGED ledger \/ RecordDebt(w)
  BY <1>4
     DEF Proceed, Crash, InitiateCreate, InitiateRefused, CallbackSave, VerifyUnanswered,
         Activate, CompleteSave, ReleaseSave, CancelSave, OwnerCancelSave, ExpireOffers,
         InvestigateSave, RejectSave, ResolveSave, database
<1>5. ASSUME NEW e \in Escrows,
             \/ \E result \in {"paid", "failed"} : GatewaySettles(e, result)
             \/ ListDue(e) \/ AutoRelease(e) \/ AutoReleaseSave(e)
      PROVE  UNCHANGED ledger
  BY <1>5 DEF GatewaySettles, ListDue, AutoRelease, AutoReleaseSave, database
<1>6. QED
  BY <1>1, <1>2, <1>3, <1>4, <1>5 DEF Next

(* A debt still to be written is written, or its worker dies, or it stays. *)
LEMMA DebtToWrite ==
    ASSUME NEW w, Workers = {w}, TypeOK, Next, NEW j \in Jobs,
           crashes > 0 \/ task[w] = DebtRequest(j)
    PROVE  crashes' > 0 \/ j \in ledger' \/ task'[w] = DebtRequest(j)
<1>0. w \in Workers /\ crashes \in Nat
  BY PaymentAssumption DEF TypeOK
<1>1. CASE Crash(w)
  BY <1>0, <1>1 DEF Crash
<1>2. CASE Receive(w)
  <2>1. Free(w) /\ crashes' = crashes
    BY <1>2
       DEF Receive, AcceptOffer, AcceptTripRequest, ConfirmStart, ConfirmCompletion,
           AdminRelease, OpenDispute, TransporterCancelRead, InitiateCheck, CompleteRead,
           ClientCancelRead, OwnerCancelRead, WebhookRead, VerifyRead, InvestigateRead,
           RejectRead, ResolveRead, Ask
  <2>2. QED
    BY <2>1 DEF Free, Idle, DebtRequest
<1>3. CASE Proceed(w)
  <2>1. crashes' = crashes
    BY <1>3
       DEF Proceed, InitiateCreate, InitiateRefused, CallbackSave, VerifyUnanswered,
           Activate, CompleteSave, RecordDebt, ReleaseSave, CancelSave, OwnerCancelSave,
           ExpireOffers, InvestigateSave, RejectSave, ResolveSave
  <2>2. ASSUME task[w] = DebtRequest(j) PROVE j \in ledger'
    <3>1. task[w].kind = "recordDebt" /\ task[w].job = j
      BY <2>2 DEF DebtRequest
    <3>2. RecordDebt(w)
      BY <1>3, <3>1
         DEF Proceed, InitiateCreate, InitiateRefused, CallbackSave, VerifyUnanswered,
             Activate, CompleteSave, ReleaseSave, CancelSave, OwnerCancelSave, ExpireOffers,
             InvestigateSave, RejectSave, ResolveSave
    <3>3. QED
      BY <3>1, <3>2 DEF RecordDebt
  <2>3. QED
    BY <2>1, <2>2
<1>4. ASSUME NEW e \in Escrows,
             \/ \E result \in {"paid", "failed"} : GatewaySettles(e, result)
             \/ ListDue(e) \/ AutoRelease(e) \/ AutoReleaseSave(e)
      PROVE  UNCHANGED <<crashes, task>>
  BY <1>4 DEF GatewaySettles, ListDue, AutoRelease, AutoReleaseSave
<1>5. QED
  BY <1>1, <1>2, <1>3, <1>4 DEF Next

LEMMA CashStep ==
    ASSUME NEW w, Workers = {w}, ContractInv, CashIsOwed, Next
    PROVE  CashIsOwed'
<1> SUFFICES ASSUME NEW j \in Jobs
             PROVE  /\ j \in ledger' => CashDelivered(j)'
                    /\ CashDelivered(j)' =>
                          \/ j \in ledger' \/ crashes' > 0
                          \/ task'[w] = DebtRequest(j)
  BY DEF CashIsOwed
<1>0. w \in Workers /\ TypeOK /\ Reads(task[w])
  BY DEF ContractInv
<1>1. CashDelivered(j) => CashDelivered(j)'
  BY MissionMoves DEF CashDelivered
<1>2. ASSUME j \in ledger' PROVE CashDelivered(j)
  <2>1. CASE j \in ledger
    BY <2>1 DEF CashIsOwed
  <2>2. CASE j \notin ledger
    <3>1. task[w].kind = "recordDebt" /\ task[w].job = j
      BY <1>2, <2>2, LedgerMoves
    <3>2. QED
      BY <1>0, <3>1 DEF CashDelivered, Reads
  <2>3. QED
    BY <2>1, <2>2
<1>3. CASE CashDelivered(j)
  <2>1. j \in ledger \/ crashes > 0 \/ task[w] = DebtRequest(j)
    BY <1>3 DEF CashIsOwed
  <2>2. j \in ledger => j \in ledger'
    BY LedgerMoves
  <2>3. QED
    BY <1>0, <1>1, <1>3, <2>1, <2>2, DebtToWrite
<1>4. ASSUME ~CashDelivered(j), CashDelivered(j)'
      PROVE  task'[w] = DebtRequest(j)
  <2>1. CompleteSave(w) /\ task[w].job = j
    BY <1>4, MissionMoves DEF CashDelivered
  <2>2. task[w].method = "COD"
    BY <1>0, <1>4, <2>1 DEF CompleteSave, Reads, CashDelivered
  <2>3. QED
    BY <1>0, <2>1, <2>2 DEF CompleteSave, OwesCommission, Serve, DebtRequest, TypeOK
<1>5. QED
  BY <1>1, <1>2, <1>3, <1>4

(* With one worker, a commission is owed for exactly the missions that     *)
(* were delivered for cash: none for a mission paid online, none lost but  *)
(* by a worker that dies between the delivery and the debt.                *)
THEOREM CashOwesCommission ==
    ASSUME NEW CONSTANT w, Workers = {w}
    PROVE  Spec => []CashIsOwed
<1>1. Init => ContractInv /\ CashIsOwed
  BY AloneInit DEF Init, CashIsOwed, CashDelivered
<1>2. ContractInv /\ CashIsOwed /\ [Next]_vars => (ContractInv /\ CashIsOwed)'
  <2> SUFFICES ASSUME ContractInv, CashIsOwed, [Next]_vars PROVE (ContractInv /\ CashIsOwed)'
    OBVIOUS
  <2>1. ContractInv'
    BY AloneStep
  <2>2. CASE UNCHANGED vars
    <3>1. UNCHANGED <<job, booking, ledger, crashes, task>>
      BY <2>2 DEF vars, database, mission
    <3>2. \A j : CashDelivered(j)' <=> CashDelivered(j)
      BY <3>1 DEF CashDelivered
    <3>3. CashIsOwed'
      BY <3>1, <3>2 DEF CashIsOwed
    <3>4. QED
      BY <2>1, <3>3
  <2>3. QED
    BY <2>1, <2>2, CashStep DEF ContractInv
<1>3. QED
  BY <1>1, <1>2, PTL DEF Spec

-----------------------------------------------------------------------------
(* Money left behind by a mission that is over.                            *)

(* When a mission is not matched, in progress or delivered, a row of it    *)
(* that could still be paid or refunded stands beside a refunded row: a    *)
(* cancellation refunds the first row it finds and no other.               *)
LeftBehindBesideRefund ==
    \A j \in Jobs : ~Engaged(j) =>
        \A e \in Refundable(j) : \E f \in RowsOf(j) \ {e} : escrow[f] = "REFUNDED"

(* A row is created for a mission that is matched.                         *)
LEMMA RowOpens ==
    ASSUME NEW w, Workers = {w}, SInv, ContractInv, Next,
           NEW e \in Escrows, escrow[e] = "ABSENT", escrow'[e] # "ABSENT"
    PROVE  Engaged(EscrowJob[e])'
<1> USE PaymentAssumption
<1>0. w \in Workers /\ TypeOK /\ Reads(task[w])
  BY DEF ContractInv
<1>1. CASE InitiateCreate(w)
  <2>1. task[w].job = EscrowJob[e] /\ job' = job
    BY <1>0, <1>1 DEF InitiateCreate, First, TypeOK, mission
  <2>2. job[EscrowJob[e]] = "MATCHED"
    BY <1>0, <1>1, <2>1 DEF InitiateCreate, Reads
  <2>3. QED
    BY <2>1, <2>2 DEF Engaged
<1>2. CASE CallbackSave(w)
  BY <1>0, <1>2, TaskFields DEF CallbackSave, SInv, CallbackFindsInitiated, TypeOK
<1>3. ASSUME NEW j \in Jobs, RefundEscrow(j) \/ SplitEscrow(j)
      PROVE  FALSE
  BY <1>0, <1>3 DEF RefundEscrow, SplitEscrow, SendBack, Refundable, RowsOf, money, TypeOK
<1>4. ~ReleaseSave(w) /\ \A f \in Escrows : ~AutoReleaseSave(f)
  BY <1>0, ReleaseMoves DEF SInv, TypeOK
<1>5. ~UNCHANGED escrow /\ ~UNCHANGED money
  BY DEF money
<1>6. ~CancelSave(w)
  BY <1>0, <1>3, TaskFields DEF CancelSave
<1>7. ~ResolveSave(w)
  BY <1>0, <1>3, <1>5, TaskFields DEF ResolveSave, MoveMoney
<1>8. ~Receive(w)
  BY <1>5
     DEF Receive, AcceptOffer, AcceptTripRequest, TransporterCancelRead, ConfirmStart,
         InitiateCheck, CompleteRead, ConfirmCompletion, AdminRelease, ClientCancelRead,
         OwnerCancelRead, WebhookRead, VerifyRead, OpenDispute, InvestigateRead, RejectRead,
         ResolveRead, Ask, database, money
<1>9. Proceed(w) => InitiateCreate(w) \/ CallbackSave(w)
  BY <1>4, <1>5, <1>6, <1>7
     DEF Proceed, InitiateRefused, VerifyUnanswered, Activate, CompleteSave, RecordDebt,
         OwnerCancelSave, ExpireOffers, InvestigateSave, RejectSave, database, money
<1>10. ~Crash(w)
  BY <1>5 DEF Crash
<1>11. ASSUME NEW f \in Escrows
       PROVE  /\ ~\E result \in {"paid", "failed"} : GatewaySettles(f, result)
              /\ ~ListDue(f) /\ ~AutoRelease(f) /\ ~AutoReleaseSave(f)
  BY <1>4, <1>5 DEF GatewaySettles, ListDue, AutoRelease, database, money
<1>12. QED
  BY <1>1, <1>2, <1>8, <1>9, <1>10, <1>11 DEF Next

(* The first row refunded leaves every other row beside a refunded one.    *)
LEMMA RefundLeaves ==
    ASSUME SInv, NEW j \in Jobs, RefundEscrow(j), NEW e \in Refundable(j)'
    PROVE  \E f \in RowsOf(j)' \ {e} : escrow'[f] = "REFUNDED"
<1>1. CASE Refundable(j) = {} /\ UNCHANGED money
  BY <1>1 DEF Refundable, RowsOf, money
<1>2. ASSUME NEW g \in Refundable(j), SendBack(g, <<ClientRow("FULL", j)>>)
      PROVE  \E f \in RowsOf(j)' \ {e} : escrow'[f] = "REFUNDED"
  <2>1. g \in Escrows /\ EscrowJob[g] = j /\ escrow'[g] = "REFUNDED"
    BY <1>2 DEF SendBack, Refundable, RowsOf, SInv, TypeOK
  <2>2. g \in RowsOf(j)' /\ g # e
    BY <2>1 DEF Refundable, RowsOf
  <2>3. QED
    BY <2>1, <2>2
<1>3. QED
  BY <1>1, <1>2 DEF RefundEscrow

LEMMA LeftBehindStep ==
    ASSUME NEW w, Workers = {w}, SInv, ContractInv, LeftBehindBesideRefund, Next
    PROVE  LeftBehindBesideRefund'
<1> SUFFICES ASSUME NEW j \in Jobs, ~Engaged(j)', NEW e \in Refundable(j)'
             PROVE  \E f \in RowsOf(j)' \ {e} : escrow'[f] = "REFUNDED"
  BY DEF LeftBehindBesideRefund
<1>1. CASE Engaged(j)
  <2>1. CancelSave(w) /\ task[w].job = j
    BY <1>1, MissionMoves
  <2>2. QED
    BY <2>1, RefundLeaves DEF CancelSave
<1>2. CASE ~Engaged(j)
  <2>1. e \in Escrows /\ EscrowJob[e] = j /\ escrow'[e] \in {"HELD", "INITIATED"}
    BY DEF Refundable, RowsOf
  <2>2. escrow[e] \in {"HELD", "INITIATED"}
    <3>1. escrow[e] # "ABSENT"
      BY <2>1, RowOpens
    <3>2. UNCHANGED money \/ Forward
      BY MoneyStep
    <3>3. QED
      BY <2>1, <3>1, <3>2 DEF Forward, RowTo, SInv, TypeOK, money
  <2>3. PICK f \in RowsOf(j) \ {e} : escrow[f] = "REFUNDED"
    BY <1>2, <2>1, <2>2 DEF LeftBehindBesideRefund, Refundable, RowsOf
  <2>4. f \in Escrows /\ EscrowJob[f] = j
    BY DEF RowsOf
  <2>5. escrow'[f] = "REFUNDED"
    BY <2>3, <2>4, MoneyStep DEF Forward, RowTo, SInv, TypeOK, money
  <2>6. QED
    BY <2>3, <2>4, <2>5 DEF RowsOf
<1>3. QED
  BY <1>1, <1>2

(* With one worker, a mission that was cancelled or never started leaves   *)
(* money behind only if it had several payment links, one of which was     *)
(* refunded.                                                               *)
THEOREM OneLinkIsRefunded ==
    ASSUME NEW CONSTANT w, Workers = {w}
    PROVE  Spec => []LeftBehindBesideRefund
<1> DEFINE Inv == SInv /\ ContractInv /\ LeftBehindBesideRefund
<1>1. Init => Inv
  BY AloneInit, SerialInit DEF Init, LeftBehindBesideRefund, Refundable, RowsOf
<1>2. Inv /\ [Next]_vars => Inv'
  <2> SUFFICES ASSUME Inv, [Next]_vars PROVE Inv'
    OBVIOUS
  <2>1. SInv' /\ ContractInv'
    BY SerialStep, AloneStep
  <2>2. CASE UNCHANGED vars
    <3>1. UNCHANGED <<job, escrow>>
      BY <2>2 DEF vars, database, mission, money
    <3>2. LeftBehindBesideRefund'
      BY <3>1 DEF LeftBehindBesideRefund, Engaged, Refundable, RowsOf
    <3>3. QED
      BY <2>1, <3>2
  <2>3. CASE Next
    BY <2>1, <2>3, LeftBehindStep
  <2>4. QED
    BY <2>2, <2>3
<1>3. QED
  BY <1>1, <1>2, PTL DEF Spec
=============================================================================
