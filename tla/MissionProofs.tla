--------------------------- MODULE MissionProofs ---------------------------
(***************************************************************************)
(* Theorems about MissionScreens for any number of other people, of bids    *)
(* or requests, and of changes a screen misses.                            *)
(*                                                                         *)
(* The argument has two halves.  The mission on the server keeps its bid,   *)
(* booking, payment row and requests consistent whoever asks for what       *)
(* (Consistent); from that alone follow who may read, what a screen just    *)
(* read may offer and that somebody can always go on.  A screen then shows  *)
(* the mission of some consistent moment, and, once it has read after the   *)
(* last tap this person knows was accepted, that of now (Followed).         *)
(***************************************************************************)
EXTENDS MissionScreens, SequenceTheorems, WellFoundedInduction, TLAPS

-----------------------------------------------------------------------------
(* The mission.                                                            *)

UnderWay == {"MATCHED", "IN_PROGRESS", "COMPLETED"}
Open == {"PENDING", "COUNTERED"}

(* A mission is under way exactly when somebody carries it for a booking.   *)
Booked(s) ==
    IF s.status \in UnderWay THEN s.carrier # None /\ s.method \in Methods
    ELSE s.carrier = None /\ s.method = "none"

(* Whoever carries it is the owner of a return trip, or has bid on it.      *)
Carried(s) ==
    s.carrier # None =>
        IF s.trip THEN s.carrier = Owner /\ s.engaged
        ELSE s.carrier \in Others /\ \E k \in DOMAIN s.rows : s.rows[k].by = s.carrier

(* Money is asked for while a mission to be paid online is matched, and     *)
(* held while it is under way; such a mission starts by being paid.         *)
Funded(s) ==
    /\ s.link = "INITIATED" => s.status = "MATCHED" /\ s.method = "DIGITAL"
    /\ s.link = "HELD" => s.status \in {"IN_PROGRESS", "COMPLETED"} /\ s.method = "DIGITAL"
    /\ (s.status \in {"IN_PROGRESS", "COMPLETED"} /\ s.method = "DIGITAL")
           => s.link \in {"HELD", "RELEASED", "REFUNDED"}

(* A mission not published has no pending bid; a client has one open        *)
(* request on a trip, the last.                                            *)
Answerable(s) ==
    /\ (~s.trip /\ s.status # "PUBLISHED") =>
           \A k \in DOMAIN s.rows : s.rows[k].status # "PENDING"
    /\ s.trip =>
           \A k, l \in DOMAIN s.rows :
               (k < l /\ s.rows[k].by = s.rows[l].by) => s.rows[k].status \notin Open

Consistent(s) == s \in Mission /\ Booked(s) /\ Carried(s) /\ Funded(s) /\ Answerable(s)

-----------------------------------------------------------------------------
(* The screens.                                                            *)

(* What a view shows together.                                             *)
NumberedMine(mine) == mine.status = "none" \/ mine.k \in 1 .. MaxRows
Showable(v) == NumberedMine(v.mine) /\ (v.due => v.status = "MATCHED")

PageHolds ==
    /\ page.view # None => Showable(page.view)
    /\ page.rows # None => page.rows \in BoundedSeq(Row, MaxRows)

PhoneHolds ==
    /\ phone = [screen |-> phone.screen, entry |-> phone.entry, due |-> phone.due,
                paying |-> phone.paying]
    /\ (phone.screen = "detail" /\ phone.entry # None) => Showable(phone.entry)
    /\ (phone.screen = "mine" /\ phone.entry # None) => NumberedMine(phone.entry)
    /\ (phone.screen = "requests" /\ phone.entry # None) => srv.trip /\ me = Owner

(* What is left of a tap as long as nothing else has happened.              *)
Left(p, tap, s) ==
    CASE tap.op = "offer" -> RowsOf(s, p) # {}
      [] tap.op = "withdrawOffer" -> At(s, tap.k, "WITHDRAWN")
      [] tap.op \in {"acceptDigital", "acceptCash"} -> At(s, tap.k, "ACCEPTED")
      [] tap.op = "cancelJob" -> s.status = "CANCELLED"
      [] tap.op = "request" -> s.status = "PUBLISHED" /\ Mine(p, s).status = "PENDING"
      [] tap.op \in {"acceptRequest", "acceptCounter"} -> At(s, tap.k, "ACCEPTED")
      [] tap.op = "rejectRequest" -> At(s, tap.k, "REJECTED")
      [] tap.op = "counterRequest" -> At(s, tap.k, "COUNTERED")
      [] tap.op = "withdrawRequest" -> At(s, tap.k, "CANCELLED")
      [] tap.op \in {"bookDigital", "bookCash"} -> s.status = "MATCHED"
      [] tap.op = "unpublish" -> s.status = "CANCELLED"
      [] tap.op = "start" -> s.status = "IN_PROGRESS"
      [] tap.op = "arrived" -> s.steps = 1
      [] tap.op = "loaded" -> s.steps = 2
      [] tap.op = "deliver" -> s.status = "COMPLETED"
      [] tap.op = "leave" -> s.carrier = None
      [] tap.op = "clientCancel" -> s.status \in {"PUBLISHED", "CANCELLED"}
      [] tap.op = "confirm" -> s.link = "RELEASED"
      [] tap.op = "review" -> p \in s.wrote
      [] tap.op = "verify" -> s.link # "INITIATED"
      [] tap.op = "dispute" -> s.disputed
      [] OTHER -> TRUE

(* Once read again, a screen shows what the tap has left.                   *)
Followed ==
    done # None =>
        /\ Left(me, done, srv)
        /\ device = "web" =>
               /\ page.rows \in {None, srv.rows}
               /\ (page.at = "detail" /\ ~page.busy /\ Sees(me, srv))
                      => page.view \in {None, Show(me, srv)}
        /\ (device = "phone" /\ done.op \notin OfferedAgain /\ ~phone.due /\ Sees(me, srv))
               => phone.entry = Answered(phone.screen, me, srv, phone.entry)

Inv == TypeOK /\ Consistent(srv) /\ PageHolds /\ PhoneHolds /\ Followed

-----------------------------------------------------------------------------
(* Bids and requests.                                                      *)

RowSeqs == BoundedSeq(Row, MaxRows)

LEMMA RowsAre ==
    ASSUME NEW rows \in RowSeqs
    PROVE  /\ rows \in Seq(Row)
           /\ Len(rows) \in 0 .. MaxRows
           /\ DOMAIN rows = 1 .. Len(rows)
           /\ DOMAIN rows \subseteq 1 .. MaxRows
           /\ \A k \in DOMAIN rows :
                  rows[k] \in Row /\ rows[k].by \in Others /\ rows[k].status \in RowStatuses
<1>1. PICK m \in 0 .. MaxRows : rows \in [1 .. m -> Row]
  BY DEF RowSeqs, BoundedSeq, SeqOf
<1>2. m \in Nat /\ m <= MaxRows
  BY ServerAssumption
<1>3. rows \in Seq(Row)
  BY <1>1, <1>2, SeqDef
<1>4. Len(rows) = m /\ DOMAIN rows = 1 .. m
  BY <1>1, <1>2, <1>3
<1>5. \A k \in DOMAIN rows : rows[k] \in Row
  BY <1>1
<1>6. QED
  BY <1>2, <1>3, <1>4, <1>5, ServerAssumption DEF Row

LEMMA AreRows ==
    ASSUME NEW m \in 0 .. MaxRows, NEW f \in [1 .. m -> Row]
    PROVE  f \in RowSeqs
BY DEF RowSeqs, BoundedSeq, SeqOf

LEMMA NoRows == <<>> \in RowSeqs
<1>1. <<>> \in [1 .. 0 -> Row] /\ 0 \in 0 .. MaxRows
  BY ServerAssumption
<1>2. QED
  BY <1>1, AreRows

(* Rows changed one by one, and a row more.                                *)
LEMMA RowsMapped ==
    ASSUME NEW rows \in RowSeqs, NEW f \in [DOMAIN rows -> Row]
    PROVE  f \in RowSeqs
BY RowsAre, AreRows

LEMMA RowAdded ==
    ASSUME NEW rows \in RowSeqs, Len(rows) < MaxRows, NEW row \in Row
    PROVE  /\ Append(rows, row) \in RowSeqs
           /\ DOMAIN Append(rows, row) = 1 .. Len(rows) + 1
           /\ Append(rows, row)[Len(rows) + 1] = row
           /\ \A k \in DOMAIN rows : Append(rows, row)[k] = rows[k]
<1>1. /\ rows \in Seq(Row) /\ Len(rows) \in Nat /\ DOMAIN rows = 1 .. Len(rows)
      /\ Len(rows) + 1 \in 0 .. MaxRows
  BY RowsAre, ServerAssumption
<1>2. /\ Append(rows, row) \in Seq(Row) /\ Len(Append(rows, row)) = Len(rows) + 1
      /\ Append(rows, row)[Len(rows) + 1] = row
      /\ \A k \in 1 .. Len(rows) : Append(rows, row)[k] = rows[k]
  BY <1>1, AppendProperties
<1>3. Append(rows, row) \in [1 .. Len(rows) + 1 -> Row]
  BY <1>1, <1>2, LenProperties
<1>4. QED
  BY <1>1, <1>2, <1>3, AreRows

(* The last of a set of rows.                                              *)
LEMMA LastIsLast ==
    ASSUME NEW n \in Nat, NEW K \in SUBSET (1 .. n), K # {}
    PROVE  LastOf(K) \in K /\ \A k \in K : k <= LastOf(K)
<1> DEFINE T == {n - k : k \in K}
<1>1. T \subseteq Nat /\ T # {}
  <2>1. \A k \in K : k \in 1 .. n
    OBVIOUS
  <2>2. \A k \in K : n - k \in Nat
    BY <2>1
  <2>3. QED
    BY <2>2
<1>2. PICK t \in T : \A u \in T : <<u, t>> \notin OpToRel(<, Nat)
  BY <1>1, NatLessThanWellFounded, WFMin
<1>3. PICK k \in K : t = n - k
  OBVIOUS
<1>4. \A l \in K : l <= k
  <2> SUFFICES ASSUME NEW l \in K, k < l PROVE FALSE
    OBVIOUS
  <2>1. n - l \in T /\ n - l < t /\ n - l \in Nat /\ t \in Nat
    BY <1>3
  <2>2. <<n - l, t>> \in OpToRel(<, Nat)
    BY <2>1 DEF OpToRel
  <2>3. QED
    BY <1>2, <2>1, <2>2
<1>5. \E i \in K : \A l \in K : l <= i
  BY <1>4
<1>6. QED
  BY <1>5, Zenon DEF LastOf

(* A row marked, and rows marked all at once.                              *)
Marked(rows, k, st) == [rows EXCEPT ![k].status = st]

LEMMA RowMarked ==
    ASSUME NEW rows \in RowSeqs, NEW k \in DOMAIN rows, NEW st \in RowStatuses
    PROVE  /\ Marked(rows, k, st) \in RowSeqs
           /\ DOMAIN Marked(rows, k, st) = DOMAIN rows
           /\ \A l \in DOMAIN rows :
                  /\ Marked(rows, k, st)[l].by = rows[l].by
                  /\ Marked(rows, k, st)[l].status = IF l = k THEN st ELSE rows[l].status
<1> DEFINE R == Marked(rows, k, st)
<1>1. \A l \in DOMAIN rows : rows[l] \in Row
  BY RowsAre
<1>2. R \in [DOMAIN rows -> Row]
  BY <1>1 DEF Row, Marked
<1>3. R \in RowSeqs
  BY <1>2, RowsMapped
<1>4. QED
  BY <1>1, <1>3 DEF Row, Marked

(* What the requests make of the rows: the same rows, some of them of       *)
(* another status.                                                         *)
SameRows(rows, new) ==
    /\ new \in RowSeqs
    /\ DOMAIN new = DOMAIN rows
    /\ \A k \in DOMAIN rows : new[k].by = rows[k].by

LEMMA RowsRestated ==
    ASSUME NEW rows \in RowSeqs, NEW R, R = [l \in DOMAIN rows |-> R[l]],
           \A l \in DOMAIN rows : R[l] \in Row /\ R[l].by = rows[l].by
    PROVE  SameRows(rows, R)
<1>1. R \in [DOMAIN rows -> Row]
  OBVIOUS
<1>2. QED
  BY <1>1, RowsMapped DEF SameRows

LEMMA RowWith ==
    ASSUME NEW row \in Row, NEW st \in RowStatuses
    PROVE  /\ [row EXCEPT !.status = st] \in Row
           /\ [row EXCEPT !.status = st].by = row.by
           /\ [row EXCEPT !.status = st].status = st
BY DEF Row

-----------------------------------------------------------------------------
(* What an answer does to the mission.  First those that leave the rows     *)
(* alone.                                                                  *)

LEMMA Fields ==
    ASSUME NEW s \in Mission
    PROVE  /\ s.trip \in BOOLEAN /\ s.instant \in BOOLEAN /\ s.status \in Statuses
           /\ s.rows \in RowSeqs /\ s.carrier \in Persons \cup {None} /\ s.engaged \in BOOLEAN
           /\ s.method \in Methods \cup {"none"} /\ s.steps \in 0 .. 2
           /\ s.link \in {"none", "INITIATED", "HELD", "RELEASED", "REFUNDED"}
           /\ s.wrote \in SUBSET Persons /\ s.disputed \in BOOLEAN
BY DEF Mission, RowSeqs

Sound(s, t) == Consistent(t) /\ t.trip = s.trip

LEMMA MoneySound ==
    ASSUME NEW s, Consistent(s), NEW p, NEW t
    PROVE  /\ t \in Initiate(p, s) => Sound(s, t)
           /\ t \in Secured(s) => Sound(s, t)
           /\ t \in Verify(p, s) => Sound(s, t)
           /\ t \in ConfirmCompletion(p, s) => Sound(s, t)
           /\ t \in AutoRelease(s) => Sound(s, t)
           /\ t \in Ruled(s) => Sound(s, t)
<1> USE DEF Sound, Consistent, Booked, Carried, Funded, Answerable, UnderWay, If
<1> s \in Mission
  OBVIOUS
<1>1. ASSUME t \in Initiate(p, s) PROVE Sound(s, t)
  BY <1>1, Fields DEF Initiate, Mission
<1>2. ASSUME t \in Secured(s) PROVE Sound(s, t)
  <2>1. /\ s.link = "INITIATED" /\ s.status = "MATCHED"
        /\ t = [s EXCEPT !.link = "HELD", !.status = IF @ = "MATCHED" THEN "IN_PROGRESS" ELSE @]
    BY <1>2 DEF Secured
  <2>2. t = [s EXCEPT !.link = "HELD", !.status = "IN_PROGRESS"]
    BY <2>1
  <2>3. t \in Mission
    BY <2>2 DEF Mission, Statuses
  <2>4. QED
    BY <2>1, <2>2, <2>3 DEF Mission
<1>3. ASSUME t \in Verify(p, s) PROVE Sound(s, t)
  BY <1>2, <1>3 DEF Verify
<1>4. ASSUME t \in ConfirmCompletion(p, s) PROVE Sound(s, t)
  BY <1>4 DEF ConfirmCompletion, Mission
<1>5. ASSUME t \in AutoRelease(s) PROVE Sound(s, t)
  BY <1>5 DEF AutoRelease, Mission
<1>6. ASSUME t \in Ruled(s) PROVE Sound(s, t)
  <2>1. PICK l \in IF s.link = "HELD" THEN {"HELD", "RELEASED", "REFUNDED"} ELSE {s.link} :
            t = [s EXCEPT !.disputed = FALSE, !.link = l]
    BY <1>6 DEF Ruled
  <2>2. t \in Mission
    BY <2>1, Fields DEF Mission
  <2>3. t.link = l /\ t.status = s.status /\ t.method = s.method
    BY <2>1 DEF Mission
  <2>4. QED
    BY <2>1, <2>2, <2>3 DEF Mission
<1>7. QED
  BY <1>1, <1>2, <1>3, <1>4, <1>5, <1>6

LEMMA CarriageSound ==
    ASSUME NEW s, Consistent(s), NEW p \in Persons, NEW t
    PROVE  /\ t \in ConfirmStart(p, s) => Sound(s, t)
           /\ \A step \in 1 .. 2 : t \in LogEvent(p, step, s) => Sound(s, t)
           /\ t \in Complete(p, s) => Sound(s, t)
           /\ t \in WriteReview(p, s) => Sound(s, t)
           /\ t \in OpenDispute(p, s) => Sound(s, t)
<1> USE DEF Sound, Consistent, Booked, Carried, Funded, Answerable, UnderWay, If
<1> s \in Mission
  OBVIOUS
<1>1. ASSUME t \in ConfirmStart(p, s) PROVE Sound(s, t)
  BY <1>1, Fields DEF ConfirmStart, Mission, Statuses
<1>2. ASSUME NEW step \in 1 .. 2, t \in LogEvent(p, step, s) PROVE Sound(s, t)
  BY <1>2 DEF LogEvent, Mission
<1>3. ASSUME t \in Complete(p, s) PROVE Sound(s, t)
  BY <1>3, Fields DEF Complete, Mission, Statuses
<1>4. ASSUME t \in WriteReview(p, s) PROVE Sound(s, t)
  <2>1. t = [s EXCEPT !.wrote = @ \cup {p}]
    BY <1>4 DEF WriteReview
  <2>2. s.wrote \cup {p} \in SUBSET Persons
    BY Fields
  <2>3. t \in Mission
    BY <2>1, <2>2 DEF Mission
  <2>4. QED
    BY <2>1, <2>3 DEF Mission
<1>5. ASSUME t \in OpenDispute(p, s) PROVE Sound(s, t)
  BY <1>5, ZenonT(40) DEF OpenDispute, Mission
<1>6. QED
  BY <1>1, <1>2, <1>3, <1>4, <1>5

LEMMA TripSound ==
    ASSUME NEW s, Consistent(s), NEW p \in Persons, NEW t
    PROVE  /\ \A method \in Methods : t \in BookTrip(p, method, s) => Sound(s, t)
           /\ t \in EditTrip(p, s) => Sound(s, t)
           /\ t \in ExtendTrip(p, s) => Sound(s, t)
<1> USE DEF Sound, Consistent, Booked, Carried, Funded, Answerable, UnderWay, If
<1> s \in Mission
  OBVIOUS
<1>1. ASSUME NEW method \in Methods, t \in BookTrip(p, method, s) PROVE Sound(s, t)
  <2>1. /\ t = [s EXCEPT !.carrier = Owner, !.engaged = TRUE, !.method = method,
                         !.status = "MATCHED"]
        /\ s.trip /\ s.status = "PUBLISHED"
    BY <1>1 DEF BookTrip
  <2>2. t \in Mission
    BY <2>1, Fields DEF Mission, Statuses, Persons
  <2>3. QED
    BY <2>1, <2>2, ServerAssumption DEF Mission
<1>2. ASSUME t \in EditTrip(p, s) PROVE Sound(s, t)
  BY <1>2, ZenonT(40) DEF EditTrip, Mission
<1>3. ASSUME t \in ExtendTrip(p, s) PROVE Sound(s, t)
  BY <1>3 DEF ExtendTrip
<1>4. QED
  BY <1>1, <1>2, <1>3

(* Then those that change one row.                                         *)
LEMMA MarkSound ==
    ASSUME NEW s, Consistent(s), NEW k \in DOMAIN s.rows, NEW st \in RowStatuses,
           (s.trip /\ st \in Open) => s.rows[k].status \in Open,
           ~s.trip => st # "PENDING"
    PROVE  Sound(s, Mark(s, k, st))
<1> DEFINE R == Marked(s.rows, k, st)
           t == Mark(s, k, st)
<1>1. s \in Mission /\ s.rows \in RowSeqs
  BY Fields DEF Consistent
<1>2. /\ R \in RowSeqs /\ DOMAIN R = DOMAIN s.rows
      /\ \A l \in DOMAIN s.rows :
             R[l].by = s.rows[l].by /\ R[l].status = IF l = k THEN st ELSE s.rows[l].status
  BY <1>1, RowMarked
<1> HIDE DEF R
<1>3. t = [s EXCEPT !.rows = R]
  BY <1>1 DEF Mark, R, Marked, Mission
<1> HIDE DEF t
<1>4. t \in Mission
  BY <1>1, <1>2, <1>3 DEF Mission, RowSeqs
<1>5. /\ t.rows = R /\ t.trip = s.trip /\ t.status = s.status /\ t.carrier = s.carrier
      /\ t.engaged = s.engaged /\ t.method = s.method /\ t.link = s.link
  BY <1>1, <1>3 DEF Mission
<1>6. Booked(t) /\ Carried(t) /\ Funded(t)
  BY <1>2, <1>5 DEF Consistent, Booked, Carried, Funded
<1>7. Answerable(t)
  BY <1>2, <1>5 DEF Consistent, Answerable
<1>8. QED
  BY <1>4, <1>5, <1>6, <1>7 DEF Sound, Consistent, t

LEMMA AddSound ==
    ASSUME NEW s, Consistent(s), NEW p \in Persons, p # Owner,
           s.status = "PUBLISHED", Len(s.rows) < MaxRows,
           s.trip => \A k \in RowsOf(s, p) : s.rows[k].status \notin Open
    PROVE  /\ Sound(s, AddRow(s, p))
           /\ AddRow(s, p).status = "PUBLISHED"
           /\ Len(s.rows) + 1 \in RowsOf(AddRow(s, p), p)
           /\ \A k \in RowsOf(AddRow(s, p), p) : k <= Len(s.rows) + 1
           /\ AddRow(s, p).rows[Len(s.rows) + 1].status = "PENDING"
<1> DEFINE row == [by |-> p, status |-> "PENDING"]
           R == Append(s.rows, row)
           t == AddRow(s, p)
<1>1. s \in Mission /\ s.rows \in RowSeqs
  BY Fields DEF Consistent
<1>2. row \in Row /\ row.by = p /\ row.status = "PENDING"
  BY DEF Row, RowStatuses, Persons
<1>3. /\ R \in RowSeqs /\ DOMAIN R = 1 .. Len(s.rows) + 1 /\ R[Len(s.rows) + 1] = row
      /\ \A k \in DOMAIN s.rows : R[k] = s.rows[k]
  <2> HIDE DEF row
  <2> QED
    BY <1>1, <1>2, RowAdded
<1>4. DOMAIN s.rows = 1 .. Len(s.rows) /\ Len(s.rows) \in Nat
  BY <1>1, RowsAre, ServerAssumption
<1>5. t = [s EXCEPT !.rows = R]
  BY <1>1 DEF AddRow
<1> HIDE DEF row, R, t
<1>6. t \in Mission
  BY <1>1, <1>3, <1>5 DEF Mission, RowSeqs
<1>7. /\ t.rows = R /\ t.trip = s.trip /\ t.status = s.status /\ t.carrier = s.carrier
      /\ t.engaged = s.engaged /\ t.method = s.method /\ t.link = s.link
  BY <1>1, <1>5 DEF Mission
<1>8. Booked(t) /\ Funded(t)
  BY <1>7 DEF Consistent, Booked, Funded
<1>9. Carried(t)
  BY <1>3, <1>4, <1>7 DEF Consistent, Carried
<1>10. Answerable(t)
  <2>1. ~s.trip => Answerable(t)
    BY <1>7 DEF Answerable
  <2>2. ASSUME s.trip, NEW k \in DOMAIN R, NEW l \in DOMAIN R, k < l, R[k].by = R[l].by
        PROVE  R[k].status \notin Open
    <3>1. k \in DOMAIN s.rows /\ R[k] = s.rows[k]
      BY <2>2, <1>3, <1>4
    <3>2. CASE l \in DOMAIN s.rows
      BY <2>2, <3>1, <3>2, <1>3 DEF Consistent, Answerable
    <3>3. CASE l \notin DOMAIN s.rows
      <4>1. R[l] = row
        BY <3>3, <1>3, <1>4
      <4>2. k \in RowsOf(s, p)
        BY <4>1, <3>1, <2>2, <1>2 DEF RowsOf
      <4>3. QED
        BY <4>2, <3>1, <2>2
    <3>4. QED
      BY <3>2, <3>3
  <2>3. QED
    BY <2>1, <2>2, <1>7 DEF Answerable
<1>11. /\ Len(s.rows) + 1 \in RowsOf(t, p)
       /\ \A k \in RowsOf(t, p) : k <= Len(s.rows) + 1
       /\ t.rows[Len(s.rows) + 1].status = "PENDING"
  BY <1>2, <1>3, <1>4, <1>7 DEF RowsOf
<1>12. QED
  BY <1>6, <1>7, <1>8, <1>9, <1>10, <1>11 DEF Sound, Consistent, t

(* Those that change all of them.                                          *)
LEMMA AcceptSound ==
    ASSUME NEW s, Consistent(s), NEW p, NEW k, NEW method \in Methods,
           NEW t \in AcceptOffer(p, k, method, s)
    PROVE  Sound(s, t) /\ At(t, k, "ACCEPTED") /\ t.status = "MATCHED"
<1> DEFINE R == [l \in DOMAIN s.rows |->
                    [s.rows[l] EXCEPT !.status = IF l = k THEN "ACCEPTED" ELSE "REJECTED"]]
<1>1. /\ ~s.trip /\ s.status = "PUBLISHED" /\ At(s, k, "PENDING")
      /\ t = [s EXCEPT !.rows = R, !.carrier = s.rows[k].by, !.method = method,
                       !.status = "MATCHED"]
  BY DEF AcceptOffer, If
<1>2. s \in Mission /\ s.rows \in RowSeqs /\ k \in DOMAIN s.rows
  BY <1>1, Fields DEF Consistent, At
<1>3. \A l \in DOMAIN s.rows : s.rows[l] \in Row /\ s.rows[l].by \in Others
  BY <1>2, RowsAre
<1>4. \A l \in DOMAIN s.rows :
         /\ R[l] \in Row /\ R[l].by = s.rows[l].by
         /\ R[l].status = IF l = k THEN "ACCEPTED" ELSE "REJECTED"
  <2> TAKE l \in DOMAIN s.rows
  <2>1. R[l] = [s.rows[l] EXCEPT !.status = IF l = k THEN "ACCEPTED" ELSE "REJECTED"]
    OBVIOUS
  <2> HIDE DEF R
  <2>2. (IF l = k THEN "ACCEPTED" ELSE "REJECTED") \in RowStatuses
    BY DEF RowStatuses
  <2>3. QED
    BY <1>3, <2>1, <2>2, RowWith
<1>a. R = [l \in DOMAIN s.rows |-> R[l]]
  OBVIOUS
<1> HIDE DEF R
<1>5. SameRows(s.rows, R)
  BY <1>2, <1>4, <1>a, RowsRestated
<1>6. /\ t.rows = R /\ t.trip = s.trip /\ t.status = "MATCHED" /\ t.carrier = s.rows[k].by
      /\ t.method = method /\ t.link = s.link
  BY <1>1, <1>2 DEF Mission
<1>7. t \in Mission
  BY <1>1, <1>2, <1>3, <1>5 DEF Mission, Statuses, Persons, SameRows, RowSeqs
<1>8. Booked(t) /\ Funded(t)
  BY <1>1, <1>2, <1>3, <1>6, ServerAssumption DEF Consistent, Booked, Funded, UnderWay
<1>9. Carried(t) /\ Answerable(t) /\ At(t, k, "ACCEPTED")
  BY <1>1, <1>2, <1>3, <1>4, <1>5, <1>6 DEF Carried, Answerable, SameRows, At
<1>10. QED
  BY <1>6, <1>7, <1>8, <1>9 DEF Sound, Consistent

LEMMA CancelSound ==
    ASSUME NEW s, Consistent(s), NEW p, NEW t \in CancelJob(p, s)
    PROVE  Sound(s, t) /\ t.status = "CANCELLED"
<1> DEFINE R == [l \in DOMAIN s.rows |-> [s.rows[l] EXCEPT !.status = "EXPIRED"]]
<1>1. /\ ~s.trip /\ s.status = "PUBLISHED"
      /\ t = [s EXCEPT !.status = "CANCELLED", !.rows = R]
  BY DEF CancelJob, If
<1>2. s \in Mission /\ s.rows \in RowSeqs
  BY Fields DEF Consistent
<1>3. \A l \in DOMAIN s.rows : s.rows[l] \in Row
  BY <1>2, RowsAre
<1>4. \A l \in DOMAIN s.rows :
         R[l] \in Row /\ R[l].by = s.rows[l].by /\ R[l].status = "EXPIRED"
  BY <1>3, RowWith DEF RowStatuses
<1>a. R = [l \in DOMAIN s.rows |-> R[l]]
  OBVIOUS
<1> HIDE DEF R
<1>5. SameRows(s.rows, R)
  BY <1>2, <1>4, <1>a, RowsRestated
<1>6. /\ t.rows = R /\ t.trip = s.trip /\ t.status = "CANCELLED" /\ t.carrier = s.carrier
      /\ t.method = s.method /\ t.link = s.link
  BY <1>1, <1>2 DEF Mission
<1>7. t \in Mission
  BY <1>1, <1>2, <1>5 DEF Mission, Statuses, SameRows, RowSeqs
<1>8. Booked(t) /\ Funded(t) /\ Carried(t)
  BY <1>1, <1>6 DEF Consistent, Booked, Funded, Carried, UnderWay
<1>9. Answerable(t)
  BY <1>1, <1>4, <1>5, <1>6 DEF Answerable, SameRows
<1>10. QED
  BY <1>6, <1>7, <1>8, <1>9 DEF Sound, Consistent

LEMMA ClosedRows ==
    ASSUME NEW rows \in RowSeqs, NEW k
    PROVE  /\ SameRows(rows, CloseOpen(rows, k, "REJECTED"))
           /\ \A l \in DOMAIN rows :
                  CloseOpen(rows, k, "REJECTED")[l].status =
                      IF l # k /\ rows[l].status \in Open THEN "REJECTED" ELSE rows[l].status
<1> DEFINE R == CloseOpen(rows, k, "REJECTED")
<1>1. \A l \in DOMAIN rows : rows[l] \in Row
  BY RowsAre
<1>2. /\ R = [l \in DOMAIN rows |-> R[l]]
      /\ \A l \in DOMAIN rows :
            R[l] = IF l # k /\ rows[l].status \in Open
                   THEN [rows[l] EXCEPT !.status = "REJECTED"] ELSE rows[l]
  BY DEF CloseOpen, Open
<1> HIDE DEF R
<1>3. "REJECTED" \in RowStatuses
  BY DEF RowStatuses
<1>4. \A l \in DOMAIN rows :
         /\ R[l] \in Row /\ R[l].by = rows[l].by
         /\ R[l].status = IF l # k /\ rows[l].status \in Open THEN "REJECTED" ELSE rows[l].status
  <2> TAKE l \in DOMAIN rows
  <2>1. CASE l # k /\ rows[l].status \in Open
    <3>1. R[l] = [rows[l] EXCEPT !.status = "REJECTED"]
      BY <1>2, <2>1
    <3>2. QED
      BY <1>1, <1>3, <2>1, <3>1, RowWith
  <2>2. CASE ~(l # k /\ rows[l].status \in Open)
    <3>1. R[l] = rows[l]
      BY <1>2, <2>2
    <3>2. QED
      BY <1>1, <2>2, <3>1
  <2>3. QED
    BY <2>1, <2>2
<1>5. SameRows(rows, R)
  BY <1>2, <1>4, RowsRestated
<1>6. QED
  BY <1>4, <1>5 DEF R

LEMMA EngageSound ==
    ASSUME NEW s, Consistent(s), NEW k \in DOMAIN s.rows, s.trip, s.status = "PUBLISHED",
           NEW t \in Engage(s, k)
    PROVE  Sound(s, t) /\ At(t, k, "ACCEPTED") /\ t.status = "MATCHED"
<1> DEFINE C == CloseOpen(s.rows, k, "REJECTED")
           R == Marked(C, k, "ACCEPTED")
<1>1. PICK method \in Methods :
          t = [s EXCEPT !.rows = R, !.carrier = Owner, !.engaged = TRUE, !.method = method,
                        !.status = "MATCHED"]
  BY DEF Engage, Marked
<1>2. s \in Mission /\ s.rows \in RowSeqs
  BY Fields DEF Consistent
<1>3. /\ SameRows(s.rows, C)
      /\ \A l \in DOMAIN s.rows :
             C[l].status = IF l # k /\ s.rows[l].status \in Open THEN "REJECTED"
                           ELSE s.rows[l].status
  BY <1>2, ClosedRows
<1> HIDE DEF C
<1>4. /\ SameRows(s.rows, R)
      /\ \A l \in DOMAIN s.rows : R[l].status = IF l = k THEN "ACCEPTED" ELSE C[l].status
  <2>1. C \in RowSeqs /\ DOMAIN C = DOMAIN s.rows /\ k \in DOMAIN C /\ "ACCEPTED" \in RowStatuses
    BY <1>3 DEF SameRows, RowStatuses
  <2>2. /\ R \in RowSeqs /\ DOMAIN R = DOMAIN C
        /\ \A l \in DOMAIN C :
               R[l].by = C[l].by /\ R[l].status = IF l = k THEN "ACCEPTED" ELSE C[l].status
    BY <2>1, RowMarked
  <2> HIDE DEF R
  <2>3. QED
    BY <1>3, <2>1, <2>2 DEF SameRows
<1> HIDE DEF R
<1>5. /\ t.rows = R /\ t.trip = s.trip /\ t.status = "MATCHED" /\ t.carrier = Owner
      /\ t.method = method /\ t.link = s.link /\ t.engaged
  BY <1>1, <1>2 DEF Mission
<1>6. t \in Mission
  BY <1>1, <1>2, <1>4 DEF Mission, Statuses, Persons, SameRows, RowSeqs
<1>7. Booked(t) /\ Funded(t) /\ Carried(t)
  BY <1>5, ServerAssumption DEF Consistent, Booked, Funded, Carried, UnderWay
<1>8. Answerable(t) /\ At(t, k, "ACCEPTED")
  BY <1>3, <1>4, <1>5 DEF Consistent, Answerable, SameRows, At, Open
<1>9. QED
  BY <1>5, <1>6, <1>7, <1>8 DEF Sound, Consistent

LEMMA UnpublishSound ==
    ASSUME NEW s, Consistent(s), NEW p, NEW t \in Unpublish(p, s)
    PROVE  Sound(s, t) /\ t.status = "CANCELLED"
<1> DEFINE R == CloseOpen(s.rows, 0, "REJECTED")
<1>1. /\ s.trip /\ s.status = "PUBLISHED"
      /\ t = [s EXCEPT !.rows = R, !.status = "CANCELLED"]
  BY DEF Unpublish, If
<1>2. s \in Mission /\ s.rows \in RowSeqs
  BY Fields DEF Consistent
<1>3. /\ SameRows(s.rows, R)
      /\ \A l \in DOMAIN s.rows :
             R[l].status \in Open => s.rows[l].status \in Open
  BY <1>2, ClosedRows DEF Open
<1> HIDE DEF R
<1>4. /\ t.rows = R /\ t.trip = s.trip /\ t.status = "CANCELLED" /\ t.carrier = s.carrier
      /\ t.method = s.method /\ t.link = s.link
  BY <1>1, <1>2 DEF Mission
<1>5. t \in Mission
  BY <1>1, <1>2, <1>3 DEF Mission, Statuses, SameRows, RowSeqs
<1>6. Booked(t) /\ Funded(t) /\ Carried(t)
  BY <1>1, <1>4 DEF Consistent, Booked, Funded, Carried, UnderWay
<1>7. Answerable(t)
  BY <1>1, <1>3, <1>4 DEF Consistent, Answerable, SameRows
<1>8. QED
  BY <1>4, <1>5, <1>6, <1>7 DEF Sound, Consistent

(* A cancelled mission has no pending bid, as a mission under way has none. *)
LEMMA VoidSound ==
    ASSUME NEW s, Consistent(s), s.status \in {"MATCHED", "IN_PROGRESS"},
           NEW st \in {"PUBLISHED", "CANCELLED"}
    PROVE  /\ Sound(s, Void(s, st))
           /\ Void(s, st).status = st /\ Void(s, st).carrier = None
           /\ s.trip => Void(s, st).rows = s.rows
<1> DEFINE A == [l \in DOMAIN s.rows |->
                    IF s.rows[l].status = "ACCEPTED"
                    THEN [s.rows[l] EXCEPT !.status = "WITHDRAWN"] ELSE s.rows[l]]
           R == IF s.trip THEN s.rows ELSE A
           L == IF s.link \in {"HELD", "INITIATED"} THEN "REFUNDED" ELSE s.link
           t == Void(s, st)
<1>1. s \in Mission /\ s.rows \in RowSeqs
  BY Fields DEF Consistent
<1>2. t = [s EXCEPT !.status = st, !.carrier = None, !.method = "none", !.link = L, !.rows = R]
  BY DEF Void
<1>3. \A l \in DOMAIN s.rows : s.rows[l] \in Row
  BY <1>1, RowsAre
<1>4. \A l \in DOMAIN s.rows :
         /\ A[l] \in Row /\ A[l].by = s.rows[l].by
         /\ A[l].status = IF s.rows[l].status = "ACCEPTED" THEN "WITHDRAWN" ELSE s.rows[l].status
  <2> TAKE l \in DOMAIN s.rows
  <2>1. "WITHDRAWN" \in RowStatuses
    BY DEF RowStatuses
  <2>2. CASE s.rows[l].status = "ACCEPTED"
    <3>1. A[l] = [s.rows[l] EXCEPT !.status = "WITHDRAWN"]
      BY <2>2
    <3> HIDE DEF A
    <3>2. QED
      BY <1>3, <2>1, <2>2, <3>1, RowWith
  <2>3. CASE s.rows[l].status # "ACCEPTED"
    BY <1>3, <2>3
  <2>4. QED
    BY <2>2, <2>3
<1>5. A = [l \in DOMAIN s.rows |-> A[l]]
  OBVIOUS
<1> HIDE DEF A
<1>6. SameRows(s.rows, A)
  BY <1>1, <1>4, <1>5, RowsRestated
<1>7. R \in RowSeqs
  BY <1>1, <1>6 DEF SameRows
<1>8. L \in {"none", "RELEASED", "REFUNDED"}
  BY <1>1, Fields
<1> HIDE DEF R, L, t
<1>9. /\ t.rows = R /\ t.trip = s.trip /\ t.status = st /\ t.carrier = None
      /\ t.method = "none" /\ t.link = L
  BY <1>1, <1>2 DEF Mission
<1>10. t \in Mission
  BY <1>1, <1>2, <1>7, <1>8 DEF Mission, Statuses, RowSeqs
<1>11. Booked(t) /\ Funded(t) /\ Carried(t)
  BY <1>8, <1>9 DEF Booked, Funded, Carried, UnderWay
<1>12. Answerable(t)
  <2>1. CASE s.trip
    BY <2>1, <1>9 DEF Consistent, Answerable, R
  <2>2. CASE ~s.trip
    BY <2>2, <1>4, <1>6, <1>9 DEF Consistent, Answerable, R, SameRows
  <2>3. QED
    BY <2>1, <2>2
<1>13. QED
  BY <1>9, <1>10, <1>11, <1>12 DEF Sound, Consistent, t, R

LEMMA CancelledSound ==
    ASSUME NEW s, Consistent(s), NEW p \in Persons, NEW t
    PROVE  /\ t \in TransporterCancel(p, s) =>
                  Sound(s, t) /\ t.carrier = None
           /\ t \in ClientCancel(p, s) =>
                  Sound(s, t) /\ t.status \in {"PUBLISHED", "CANCELLED"}
<1>1. ASSUME t \in TransporterCancel(p, s) PROVE Sound(s, t) /\ t.carrier = None
  BY <1>1, VoidSound DEF TransporterCancel, If
<1>2. ASSUME t \in ClientCancel(p, s)
      PROVE  Sound(s, t) /\ t.status \in {"PUBLISHED", "CANCELLED"}
  <2>1. CASE ~s.trip
    BY <1>2, <2>1, VoidSound DEF ClientCancel, If
  <2>2. CASE s.trip
    <3> DEFINE u == Void(s, "PUBLISHED")
               A == [l \in DOMAIN u.rows |->
                        IF u.rows[l].by = p /\ u.rows[l].status = "ACCEPTED"
                        THEN [u.rows[l] EXCEPT !.status = "CANCELLED"] ELSE u.rows[l]]
    <3>1. t = [u EXCEPT !.rows = A]
      BY <1>2, <2>2 DEF ClientCancel, If
    <3>2. Consistent(u) /\ u.trip = s.trip /\ u.status = "PUBLISHED"
      BY <1>2, VoidSound DEF ClientCancel, If, Sound
    <3> HIDE DEF u
    <3>3. u \in Mission /\ u.rows \in RowSeqs
      BY <3>2, Fields DEF Consistent
    <3>4. \A l \in DOMAIN u.rows : u.rows[l] \in Row
      BY <3>3, RowsAre
    <3>5. \A l \in DOMAIN u.rows :
             /\ A[l] \in Row /\ A[l].by = u.rows[l].by
             /\ A[l].status \in Open => u.rows[l].status \in Open
      <4> TAKE l \in DOMAIN u.rows
      <4>1. "CANCELLED" \in RowStatuses
        BY DEF RowStatuses
      <4>2. CASE u.rows[l].by = p /\ u.rows[l].status = "ACCEPTED"
        <5>1. A[l] = [u.rows[l] EXCEPT !.status = "CANCELLED"]
          BY <4>2
        <5> HIDE DEF A
        <5>2. QED
          BY <3>4, <4>1, <5>1, RowWith DEF Open
      <4>3. CASE ~(u.rows[l].by = p /\ u.rows[l].status = "ACCEPTED")
        BY <3>4, <4>3
      <4>4. QED
        BY <4>2, <4>3
    <3>6. A = [l \in DOMAIN u.rows |-> A[l]]
      OBVIOUS
    <3> HIDE DEF A
    <3>7. SameRows(u.rows, A)
      BY <3>3, <3>5, <3>6, RowsRestated
    <3>8. /\ t.rows = A /\ t.trip = u.trip /\ t.status = u.status /\ t.carrier = u.carrier
          /\ t.engaged = u.engaged /\ t.method = u.method /\ t.link = u.link
      BY <3>1, <3>3 DEF Mission
    <3>9. t \in Mission
      BY <3>1, <3>3, <3>7 DEF Mission, SameRows, RowSeqs
    <3>10. Booked(t) /\ Funded(t) /\ Carried(t)
      BY <2>2, <3>2, <3>8 DEF Consistent, Booked, Funded, Carried
    <3>11. Answerable(t)
      BY <2>2, <3>2, <3>5, <3>7, <3>8 DEF Consistent, Answerable, SameRows
    <3>12. QED
      BY <3>2, <3>8, <3>9, <3>10, <3>11 DEF Sound, Consistent
  <2>3. QED
    BY <2>1, <2>2
<1>3. QED
  BY <1>1, <1>2

(* An answer is that of the handler the button asks.                       *)
LEMMA AnswersAre ==
    ASSUME NEW p, NEW tap, NEW s
    PROVE  /\ tap.op = "offer" => Answers(p, tap, s) = SubmitOffer(p, s)
           /\ tap.op = "withdrawOffer" => Answers(p, tap, s) = WithdrawOffer(p, tap.k, s)
           /\ tap.op = "acceptDigital" => Answers(p, tap, s) = AcceptOffer(p, tap.k, "DIGITAL", s)
           /\ tap.op = "acceptCash" => Answers(p, tap, s) = AcceptOffer(p, tap.k, "COD", s)
           /\ tap.op = "cancelJob" => Answers(p, tap, s) = CancelJob(p, s)
           /\ tap.op = "request" => Answers(p, tap, s) = SendRequest(p, s)
           /\ tap.op = "acceptRequest" => Answers(p, tap, s) = AcceptRequest(p, tap.k, s)
           /\ tap.op = "rejectRequest" => Answers(p, tap, s) = RejectRequest(p, tap.k, s)
           /\ tap.op = "counterRequest" => Answers(p, tap, s) = CounterRequest(p, tap.k, s)
           /\ tap.op = "acceptCounter" => Answers(p, tap, s) = AcceptCounter(p, tap.k, s)
           /\ tap.op = "withdrawRequest" => Answers(p, tap, s) = WithdrawRequest(p, tap.k, s)
           /\ tap.op = "bookDigital" => Answers(p, tap, s) = BookTrip(p, "DIGITAL", s)
           /\ tap.op = "bookCash" => Answers(p, tap, s) = BookTrip(p, "COD", s)
           /\ tap.op = "edit" => Answers(p, tap, s) = EditTrip(p, s)
           /\ tap.op = "extend" => Answers(p, tap, s) = ExtendTrip(p, s)
           /\ tap.op = "unpublish" => Answers(p, tap, s) = Unpublish(p, s)
           /\ tap.op = "pay" => Answers(p, tap, s) = Initiate(p, s)
           /\ tap.op = "verify" => Answers(p, tap, s) = Verify(p, s)
           /\ tap.op = "start" => Answers(p, tap, s) = ConfirmStart(p, s)
           /\ tap.op = "arrived" => Answers(p, tap, s) = LogEvent(p, 1, s)
           /\ tap.op = "loaded" => Answers(p, tap, s) = LogEvent(p, 2, s)
           /\ tap.op = "deliver" => Answers(p, tap, s) = Complete(p, s)
           /\ tap.op = "leave" => Answers(p, tap, s) = TransporterCancel(p, s)
           /\ tap.op = "clientCancel" => Answers(p, tap, s) = ClientCancel(p, s)
           /\ tap.op = "confirm" => Answers(p, tap, s) = ConfirmCompletion(p, s)
           /\ tap.op = "review" => Answers(p, tap, s) = WriteReview(p, s)
           /\ tap.op = "dispute" => Answers(p, tap, s) = OpenDispute(p, s)
BY DEF Answers

Ops == RowOps \cup PlainOps

(* Whoever asks for whatever, the mission stays consistent.                *)
LEMMA AnswersSound ==
    ASSUME NEW s, Consistent(s), NEW p \in Persons, NEW tap, tap.op \in Ops,
           NEW t \in Answers(p, tap, s)
    PROVE  Sound(s, t)
<1> USE AnswersAre
<1>1. CASE tap.op = "offer"
  BY <1>1, AddSound DEF SubmitOffer, If, Consistent
<1>2. CASE tap.op = "request"
  BY <1>2, AddSound DEF SendRequest, If, Open
<1>3. CASE tap.op \in {"withdrawOffer", "rejectRequest", "counterRequest", "withdrawRequest"}
  <2>1. PICK st \in {"WITHDRAWN", "REJECTED", "COUNTERED", "CANCELLED"} :
            /\ tap.k \in DOMAIN s.rows /\ t = Mark(s, tap.k, st)
            /\ (s.trip /\ st \in Open) => s.rows[tap.k].status \in Open
    BY <1>3 DEF WithdrawOffer, RejectRequest, CounterRequest, WithdrawRequest, If, At, Open
  <2>2. st \in RowStatuses /\ st # "PENDING"
    BY DEF RowStatuses
  <2>3. QED
    BY <2>1, <2>2, MarkSound
<1>4. CASE tap.op \in {"acceptDigital", "acceptCash"}
  BY <1>4, AcceptSound DEF Methods
<1>5. CASE tap.op \in {"cancelJob", "unpublish"}
  BY <1>5, CancelSound, UnpublishSound
<1>6. CASE tap.op \in {"acceptRequest", "acceptCounter"}
  BY <1>6, EngageSound DEF AcceptRequest, AcceptCounter, At
<1>7. CASE tap.op \in {"bookDigital", "bookCash", "edit", "extend"}
  BY <1>7, TripSound DEF Methods
<1>8. CASE tap.op \in {"pay", "verify", "confirm"}
  BY <1>8, MoneySound
<1>9. CASE tap.op \in {"start", "deliver", "review", "dispute"}
  BY <1>9, CarriageSound
<1>10. CASE tap.op \in {"arrived", "loaded"}
  <2>1. 1 \in 1 .. 2 /\ 2 \in 1 .. 2
    OBVIOUS
  <2>2. QED
    BY <1>10, <2>1, CarriageSound
<1>11. CASE tap.op \in {"leave", "clientCancel"}
  BY <1>11, CancelledSound
<1>12. QED
  BY <1>1, <1>2, <1>3, <1>4, <1>5, <1>6, <1>7, <1>8, <1>9, <1>10, <1>11
     DEF Ops, RowOps, PlainOps

(* The row a screen shows as a person's own is the last of that person's.   *)
LEMMA MineIs ==
    ASSUME NEW s \in Mission, NEW p
    PROVE  /\ RowsOf(s, p) \in SUBSET (1 .. MaxRows)
           /\ RowsOf(s, p) = {} => Mine(p, s) = NoRow
           /\ RowsOf(s, p) # {} =>
                  /\ Mine(p, s).k \in RowsOf(s, p) /\ Mine(p, s).k \in 1 .. MaxRows
                  /\ \A k \in RowsOf(s, p) : k <= Mine(p, s).k
                  /\ Mine(p, s).status = s.rows[Mine(p, s).k].status
                  /\ Mine(p, s).status \in RowStatuses
           /\ Mine(p, s) \in [k : 0 .. MaxRows, status : {"none"} \cup RowStatuses]
<1>1. s.rows \in RowSeqs
  BY Fields
<1>2. RowsOf(s, p) \in SUBSET (1 .. MaxRows) /\ RowsOf(s, p) \subseteq DOMAIN s.rows
  BY <1>1, RowsAre DEF RowsOf
<1>3. RowsOf(s, p) = {} => Mine(p, s) = NoRow
  BY DEF Mine
<1>4. ASSUME RowsOf(s, p) # {}
      PROVE  LET k == LastOf(RowsOf(s, p))
             IN  /\ k \in RowsOf(s, p) /\ k \in 1 .. MaxRows
                 /\ \A l \in RowsOf(s, p) : l <= k
                 /\ Mine(p, s) = [k |-> k, status |-> s.rows[k].status]
                 /\ s.rows[k].status \in RowStatuses
  <2>1. /\ LastOf(RowsOf(s, p)) \in RowsOf(s, p)
        /\ \A l \in RowsOf(s, p) : l <= LastOf(RowsOf(s, p))
    BY <1>2, <1>4, LastIsLast, ServerAssumption
  <2>2. Mine(p, s) = [k |-> LastOf(RowsOf(s, p)), status |-> s.rows[LastOf(RowsOf(s, p))].status]
    BY <1>4 DEF Mine
  <2>3. QED
    BY <1>1, <1>2, <2>1, <2>2, RowsAre
<1>5. NoRow \in [k : 0 .. MaxRows, status : {"none"} \cup RowStatuses]
  BY ServerAssumption DEF NoRow
<1>6. QED
  BY <1>2, <1>3, <1>4, <1>5

(* What an answer leaves, and that it is refused the next time.             *)
LEMMA AnswerLeaves ==
    ASSUME NEW s, Consistent(s), NEW p \in Persons, NEW tap, tap.op \in Ops,
           NEW t \in Answers(p, tap, s)
    PROVE  Left(p, tap, t)
<1> USE AnswersAre
<1>1. s \in Mission /\ s.rows \in RowSeqs
  BY Fields DEF Consistent
<1>2. t \in Mission
  BY AnswersSound DEF Sound, Consistent
<1>3. CASE tap.op = "offer"
  <2>1. RowsOf(t, p) # {}
    BY <1>3, AddSound DEF SubmitOffer, If
  <2>2. QED
    BY <1>3, <2>1 DEF Left
<1>4. CASE tap.op = "request"
  <2> DEFINE n == Len(s.rows) + 1
  <2>1. /\ t.status = "PUBLISHED" /\ n \in RowsOf(t, p) /\ \A k \in RowsOf(t, p) : k <= n
        /\ t.rows[n].status = "PENDING"
    BY <1>4, AddSound DEF SendRequest, If, Open
  <2>2. n \in Int
    BY <1>1, RowsAre
  <2> HIDE DEF n
  <2>3. Mine(p, t).k = n
    BY <2>1, <2>2, <1>2, MineIs
  <2>4. QED
    BY <1>4, <2>1, <2>3, <1>2, MineIs DEF Left
<1>5. CASE tap.op \in {"withdrawOffer", "rejectRequest", "counterRequest", "withdrawRequest"}
  <2> DEFINE st == CASE tap.op = "withdrawOffer" -> "WITHDRAWN"
                     [] tap.op = "rejectRequest" -> "REJECTED"
                     [] tap.op = "counterRequest" -> "COUNTERED"
                     [] tap.op = "withdrawRequest" -> "CANCELLED"
  <2>1. tap.k \in DOMAIN s.rows /\ t = Mark(s, tap.k, st) /\ st \in RowStatuses
    BY <1>5 DEF WithdrawOffer, RejectRequest, CounterRequest, WithdrawRequest, If, At, RowStatuses
  <2>2. At(t, tap.k, st)
    <3> HIDE DEF st
    <3>1. t.rows = Marked(s.rows, tap.k, st)
      BY <2>1, <1>1 DEF Mark, Marked, Mission
    <3>2. QED
      BY <2>1, <3>1, <1>1, RowMarked DEF At
  <2>3. QED
    BY <1>5, <2>2 DEF Left
<1>6. CASE tap.op \in {"acceptDigital", "acceptCash"}
  BY <1>6, AcceptSound DEF Methods, Left
<1>7. CASE tap.op \in {"cancelJob", "unpublish"}
  BY <1>7, CancelSound, UnpublishSound DEF Left
<1>8. CASE tap.op \in {"acceptRequest", "acceptCounter"}
  BY <1>8, EngageSound DEF AcceptRequest, AcceptCounter, At, Left
<1>9. CASE tap.op \in {"bookDigital", "bookCash"}
  <2>1. PICK method \in Methods : t \in BookTrip(p, method, s)
    BY <1>9 DEF Methods
  <2>2. t.status = "MATCHED"
    BY <2>1, <1>1 DEF BookTrip, If, Mission
  <2>3. QED
    BY <1>9, <2>2 DEF Left
<1>10. CASE tap.op \in {"pay", "edit", "extend"}
  BY <1>10 DEF Left
<1>11. CASE tap.op \in {"verify", "confirm", "start"}
  <2>1. tap.op = "verify" => t.link = "HELD"
    <3>1. tap.op = "verify" => t \in Secured(s)
      BY DEF Verify
    <3>2. t \in Secured(s) => t.link = "HELD"
      BY <1>1 DEF Secured, If, Mission
    <3>3. QED
      BY <3>1, <3>2
  <2>2. tap.op = "confirm" => t.link = "RELEASED"
    BY <1>1 DEF ConfirmCompletion, If, Mission
  <2>3. tap.op = "start" => t.status = "IN_PROGRESS"
    BY <1>1 DEF ConfirmStart, If, Mission
  <2>4. QED
    BY <1>11, <2>1, <2>2, <2>3 DEF Left
<1>12. CASE tap.op \in {"arrived", "loaded", "deliver"}
  BY <1>12, <1>1 DEF LogEvent, Complete, If, Mission, Left
<1>13. CASE tap.op \in {"review", "dispute"}
  BY <1>13, <1>1, <1>2 DEF WriteReview, OpenDispute, If, Mission, Left
<1>14. CASE tap.op \in {"leave", "clientCancel"}
  BY <1>14, CancelledSound DEF Left
<1>15. QED
  BY <1>3, <1>4, <1>5, <1>6, <1>7, <1>8, <1>9, <1>10, <1>11, <1>12, <1>13, <1>14
     DEF Ops, RowOps, PlainOps

LEMMA LeftIsRefused ==
    ASSUME NEW s \in Mission, NEW p \in Persons, NEW tap, tap.op \in Ops \ Repeatable,
           Left(p, tap, s)
    PROVE  Answers(p, tap, s) = {}
<1> USE AnswersAre
<1> p # None
  BY ServerAssumption DEF Persons
<1>1. CASE tap.op \in {"offer", "cancelJob", "bookDigital", "bookCash", "unpublish"}
  BY <1>1 DEF Left, SubmitOffer, CancelJob, BookTrip, Unpublish, If
<1>2. CASE tap.op = "request"
  <2>1. Mine(p, s).status = "PENDING"
    BY <1>2 DEF Left
  <2>2. RowsOf(s, p) # {} /\ Mine(p, s).k \in RowsOf(s, p)
        /\ s.rows[Mine(p, s).k].status = "PENDING"
    BY <2>1, MineIs DEF NoRow
  <2>3. QED
    BY <1>2, <2>2 DEF SendRequest, If
<1>3. CASE tap.op \in {"withdrawOffer", "rejectRequest", "counterRequest", "withdrawRequest"}
  BY <1>3 DEF Left, At, WithdrawOffer, RejectRequest, CounterRequest, WithdrawRequest, If
<1>4. CASE tap.op \in {"acceptDigital", "acceptCash", "acceptRequest", "acceptCounter"}
  BY <1>4 DEF Left, At, AcceptOffer, AcceptRequest, AcceptCounter, If
<1>5. CASE tap.op \in {"verify", "start", "arrived", "loaded", "deliver"}
  <2>1. tap.op = "verify" => Secured(s) = {}
    BY DEF Left, Secured, If
  <2>2. tap.op \in {"arrived", "loaded"} => Answers(p, tap, s) = {}
    BY DEF Left, LogEvent, If
  <2>3. tap.op \in {"start", "deliver"} => Answers(p, tap, s) = {}
    BY DEF Left, ConfirmStart, Complete, If
  <2>4. QED
    BY <1>5, <2>1, <2>2, <2>3 DEF Verify
<1>6. CASE tap.op \in {"leave", "clientCancel", "confirm", "review", "dispute"}
  BY <1>6 DEF Left, TransporterCancel, ClientCancel, ConfirmCompletion, WriteReview,
              OpenDispute, If
<1>7. QED
  BY <1>1, <1>2, <1>3, <1>4, <1>5, <1>6 DEF Ops, RowOps, PlainOps, Repeatable

-----------------------------------------------------------------------------
(* What follows for a consistent mission.                                  *)

LEMMA ClientIs ==
    ASSUME NEW s \in Mission
    PROVE  /\ ~s.trip => Client(s) = Owner
           /\ s.trip => Client(s) \in Others \cup {None}
<1>1. s.rows \in RowSeqs
  BY Fields
<1> DEFINE A == {k \in DOMAIN s.rows : s.rows[k].status = "ACCEPTED"}
<1>2. CASE s.trip /\ A # {}
  <2>1. A \in SUBSET (1 .. MaxRows) /\ A \subseteq DOMAIN s.rows
    BY <1>1, RowsAre
  <2>2. LastOf(A) \in A
    BY <1>2, <2>1, LastIsLast, ServerAssumption
  <2>3. Client(s) = s.rows[LastOf(A)].by
    BY <1>2 DEF Client
  <2> HIDE DEF A
  <2>4. QED
    BY <1>1, <1>2, <2>1, <2>2, <2>3, RowsAre
<1>3. CASE s.trip /\ A = {}
  BY <1>3 DEF Client
<1>4. CASE ~s.trip
  BY <1>4 DEF Client
<1>5. QED
  BY <1>2, <1>3, <1>4

LEMMA PeopleDiffer == Owner \notin Others /\ \A p \in Persons : p # None
BY ServerAssumption DEF Persons

LEMMA CarrierSees ==
    ASSUME NEW s, Consistent(s), NEW p \in Persons, s.carrier = p
    PROVE  Sees(p, s) /\ ~IsClient(s, p)
<1>1. p # None
  BY PeopleDiffer
<1>2. s.trip => p = Owner /\ s.engaged
  BY <1>1 DEF Consistent, Carried
<1>3. ~s.trip => p # Owner /\ RowsOf(s, p) # {}
  BY <1>1, PeopleDiffer DEF Consistent, Carried, RowsOf
<1>4. s.trip \in BOOLEAN
  BY Fields DEF Consistent
<1>5. QED
  BY <1>2, <1>3, <1>4 DEF Sees, IsClient

LEMMA ClientSees ==
    ASSUME NEW s, Consistent(s), NEW p \in Persons, p = Client(s)
    PROVE  Sees(p, s) /\ IsClient(s, p)
<1>1. p # None /\ s.trip \in BOOLEAN
  BY PeopleDiffer, Fields DEF Consistent
<1>2. IsClient(s, p)
  BY <1>1, ClientIs, PeopleDiffer DEF IsClient, Consistent
<1>3. QED
  BY <1>1, <1>2 DEF Sees, Participants

LEMMA ActingIsSeeing ==
    ASSUME NEW s, Consistent(s), NEW p \in Persons, ~Sees(p, s),
           NEW op \in {"pay", "start", "deliver", "leave", "clientCancel", "confirm", "review"}
    PROVE  Answers(p, Tap(op), s) = {}
<1>1. Tap(op).op = op
  BY DEF Tap
<1>2. p # s.carrier /\ p # Client(s)
  BY CarrierSees, ClientSees
<1>3. s.status = "COMPLETED" => p \notin Participants(s)
  <2>1. s.status = "COMPLETED" => Owner \in {s.carrier, Client(s)}
    BY ClientIs DEF Consistent, Booked, Carried, UnderWay
  <2>2. QED
    BY <1>2, <2>1 DEF Participants
<1>4. QED
  BY <1>1, <1>2, <1>3, AnswersAre
     DEF Initiate, ConfirmStart, Complete, TransporterCancel, ClientCancel, ConfirmCompletion,
         WriteReview, If

LEMMA ShowIs ==
    ASSUME NEW s, Consistent(s), NEW p
    PROVE  Show(p, s) \in View /\ Showable(Show(p, s)) /\ NumberedMine(Mine(p, s))
<1>1. s \in Mission
  BY DEF Consistent
<1>2. /\ Mine(p, s) \in [k : 0 .. MaxRows, status : {"none"} \cup RowStatuses]
      /\ NumberedMine(Mine(p, s))
  BY <1>1, MineIs DEF NumberedMine, NoRow
<1>3. Show(p, s) \in View
  BY <1>1, <1>2, Fields DEF Show, View
<1>4. Show(p, s).due => Show(p, s).status = "MATCHED"
  <2>1. s.method = "DIGITAL" => s.status \in UnderWay
    BY DEF Consistent, Booked
  <2>2. QED
    BY <2>1 DEF Consistent, Funded, UnderWay, Show
<1>5. Show(p, s).mine = Mine(p, s)
  BY DEF Show
<1>6. QED
  BY <1>2, <1>3, <1>4, <1>5 DEF Showable

LEMMA TapIs ==
    ASSUME NEW op, NEW k
    PROVE  Tap(op).op = op /\ TapOn(op, k).op = op /\ TapOn(op, k).k = k
BY DEF Tap, TapOn

LEMMA ShownFields ==
    ASSUME NEW p, NEW s
    PROVE  LET v == Show(p, s)
           IN  /\ v.status = s.status /\ v.mine = Mine(p, s) /\ v.carrier = s.carrier
               /\ v.method = s.method /\ v.instant = s.instant /\ v.steps = s.steps
               /\ v.released = (s.link = "RELEASED") /\ v.reviewed = (p \in s.wrote)
               /\ v.due = (s.method = "DIGITAL" /\ s.link \in {"none", "INITIATED"})
BY DEF Show

(* What a person's own row says of the rows there are.                     *)
LEMMA MineRow ==
    ASSUME NEW s \in Mission, NEW p, Mine(p, s).status # "none"
    PROVE  Mine(p, s).k \in RowsOf(s, p) /\ At(s, Mine(p, s).k, Mine(p, s).status)
BY MineIs DEF NoRow, RowsOf, At

(* A client without an open last request has none.                         *)
LEMMA NoOpenRequest ==
    ASSUME NEW s, Consistent(s), s.trip, NEW p, Mine(p, s).status \notin Open
    PROVE  \A k \in RowsOf(s, p) : s.rows[k].status \notin Open
<1> SUFFICES ASSUME NEW k \in RowsOf(s, p) PROVE s.rows[k].status \notin Open
  OBVIOUS
<1>1. s \in Mission
  BY DEF Consistent
<1>2. /\ Mine(p, s).k \in RowsOf(s, p) /\ Mine(p, s).k \in 1 .. MaxRows /\ k <= Mine(p, s).k
      /\ Mine(p, s).status = s.rows[Mine(p, s).k].status
      /\ k \in 1 .. MaxRows
  BY <1>1, MineIs
<1>3. CASE k = Mine(p, s).k
  BY <1>2, <1>3
<1>4. CASE k < Mine(p, s).k
  BY <1>2, <1>4 DEF Consistent, Answerable, RowsOf
<1>5. QED
  BY <1>2, <1>3, <1>4

(* The server takes it, refuses it as listed, or has no room for a row.     *)
TakenUp(p, tap, s) ==
    \/ Answers(p, tap, s) # {}
    \/ KnownRefusal(p, tap.op, s)
    \/ tap.op \in {"offer", "request"} /\ Len(s.rows) = MaxRows

LEMMA EngageAnswers == ASSUME NEW s, NEW k PROVE Engage(s, k) # {}
BY DEF Engage, Methods

LEMMA RoomForRow ==
    ASSUME NEW s \in Mission, Len(s.rows) # MaxRows
    PROVE  Len(s.rows) < MaxRows
<1>1. Len(s.rows) \in 0 .. MaxRows
  BY Fields, RowsAre
<1>2. QED
  BY <1>1, ServerAssumption

LEMMA PanelsTakenUp ==
    ASSUME NEW s, Consistent(s), NEW p \in Persons, device = "web", NEW tap
    PROVE  LET v == Show(p, s)
           IN  /\ tap \in MissionMatchedPanel(s, p, v) => TakenUp(p, tap, s)
               /\ tap \in MissionInProgressPanel(p, v) => TakenUp(p, tap, s)
               /\ tap \in PostDeliveryPanel(p, v) => TakenUp(p, tap, s)
               /\ tap \in CancelButton(s, p, v) => TakenUp(p, tap, s)
               /\ tap \in DisputeButton(p, v) => TakenUp(p, tap, s)
<1> DEFINE v == Show(p, s)
<1> USE AnswersAre, TapIs
<1>1. s \in Mission /\ p # None
  BY PeopleDiffer DEF Consistent
<1>2. /\ v.status = s.status /\ v.carrier = s.carrier /\ v.method = s.method /\ v.steps = s.steps
      /\ v.released = (s.link = "RELEASED") /\ v.reviewed = (p \in s.wrote)
  BY ShownFields
<1> HIDE DEF v
<1>3. ASSUME tap \in MissionMatchedPanel(s, p, v) PROVE TakenUp(p, tap, s)
  <2>1. s.status = "MATCHED"
    BY <1>2, <1>3 DEF MissionMatchedPanel
  <2>2. CASE tap = Tap("pay") /\ v.method = "DIGITAL"
    <3>1. p = Client(s) => Initiate(p, s) # {}
      BY <2>1, <2>2, <1>2 DEF Initiate, If, Consistent, Funded
    <3>2. p # Client(s) => KnownRefusal(p, "pay", s)
      BY DEF KnownRefusal
    <3>3. QED
      BY <2>2, <3>1, <3>2 DEF TakenUp
  <2>3. CASE tap = Tap("start") /\ Assigned(p, v) /\ v.method = "COD"
    <3>1. ConfirmStart(p, s) # {}
      BY <2>1, <2>3, <1>2 DEF ConfirmStart, If, Assigned
    <3>2. QED
      BY <2>3, <3>1 DEF TakenUp
  <2>4. QED
    BY <1>3, <2>2, <2>3 DEF MissionMatchedPanel
<1>4. ASSUME tap \in MissionInProgressPanel(p, v) PROVE TakenUp(p, tap, s)
  <2>1. s.status = "IN_PROGRESS" /\ p = s.carrier
    BY <1>2, <1>4 DEF MissionInProgressPanel, Assigned
  <2>2. /\ tap \in {Tap("deliver"), Tap("leave"), Tap("arrived"), Tap("loaded")}
        /\ tap = Tap("arrived") => v.steps = 0
        /\ tap = Tap("loaded") => v.steps = 1
    BY <1>4 DEF MissionInProgressPanel, Tap
  <2>3. Complete(p, s) # {} /\ TransporterCancel(p, s) # {}
    BY <2>1 DEF Complete, TransporterCancel, If
  <2>4. (v.steps = 0 => LogEvent(p, 1, s) # {}) /\ (v.steps = 1 => LogEvent(p, 2, s) # {})
    <3>1. \A step \in 1 .. 2 : s.steps = step - 1 => LogEvent(p, step, s) # {}
      BY <2>1 DEF LogEvent, If
    <3>2. QED
      BY <3>1, <1>2
  <2>5. QED
    BY <2>2, <2>3, <2>4 DEF TakenUp
<1>5. ASSUME tap \in PostDeliveryPanel(p, v) PROVE TakenUp(p, tap, s)
  <2>1. s.status = "COMPLETED"
    BY <1>2, <1>5 DEF PostDeliveryPanel
  <2>2. CASE tap = Tap("confirm")
    <3>1. KnownRefusal(p, "confirm", s) \/ ConfirmCompletion(p, s) # {}
      BY <2>1 DEF KnownRefusal, ConfirmCompletion, If
    <3>2. QED
      BY <2>2, <3>1 DEF TakenUp
  <2>3. CASE tap = Tap("review") /\ ~v.reviewed
    <3>1. KnownRefusal(p, "review", s) \/ WriteReview(p, s) # {}
      BY <2>1, <2>3, <1>2 DEF KnownRefusal, WriteReview, If
    <3>2. QED
      BY <2>3, <3>1 DEF TakenUp
  <2>4. QED
    BY <1>5, <2>2, <2>3 DEF PostDeliveryPanel
<1>6. ASSUME tap \in CancelButton(s, p, v) PROVE TakenUp(p, tap, s)
  <2>1. /\ ~s.trip /\ p = Owner /\ s.status \in {"PUBLISHED", "MATCHED"}
        /\ tap = Tap("cancelJob")
    BY <1>2, <1>6 DEF CancelButton
  <2>2. KnownRefusal(p, "cancelJob", s) \/ CancelJob(p, s) # {}
    BY <2>1 DEF KnownRefusal, CancelJob, If
  <2>3. QED
    BY <2>1, <2>2 DEF TakenUp
<1>7. ASSUME tap \in DisputeButton(p, v) PROVE TakenUp(p, tap, s)
  <2>1. /\ s.status \in {"IN_PROGRESS", "COMPLETED"} /\ p \in {Owner, s.carrier}
        /\ tap = Tap("dispute")
    BY <1>2, <1>7 DEF DisputeButton, Assigned
  <2>2. p \in Participants(s)
    BY <2>1, <1>1 DEF Participants
  <2>3. KnownRefusal(p, "dispute", s) \/ OpenDispute(p, s) # {}
    BY <2>1, <2>2 DEF KnownRefusal, OpenDispute, If
  <2>4. QED
    BY <2>1, <2>3 DEF TakenUp
<1>8. QED
  BY <1>3, <1>4, <1>5, <1>6, <1>7 DEF v

LEMMA RowPanelsTakenUp ==
    ASSUME NEW s, Consistent(s), NEW p \in Persons, NEW tap
    PROVE  LET v == Show(p, s)
           IN  /\ tap \in ReturnTripClientPanel(s, p, v) => TakenUp(p, tap, s)
               /\ tap \in TripRequestsPanel(s, p, v, s.rows) => TakenUp(p, tap, s)
               /\ tap \in OfferList(s, p, v, s.rows) => TakenUp(p, tap, s)
               /\ tap \in MyOfferCard(s, p, v) => TakenUp(p, tap, s)
               /\ tap \in OfferForm(s, p, v) => TakenUp(p, tap, s)
<1> DEFINE v == Show(p, s)
           k == Mine(p, s).k
<1> USE AnswersAre, TapIs
<1>1. s \in Mission
  BY DEF Consistent
<1>2. v.status = s.status /\ v.mine = Mine(p, s) /\ v.instant = s.instant
  BY ShownFields
<1>3. Mine(p, s).status # "none" => k \in RowsOf(s, p) /\ At(s, k, Mine(p, s).status)
  BY <1>1, MineRow
<1> HIDE DEF v, k
<1>4. ASSUME tap \in ReturnTripClientPanel(s, p, v) PROVE TakenUp(p, tap, s)
  <2>1. s.trip /\ p # Owner /\ s.status = "PUBLISHED"
    BY <1>2, <1>4 DEF ReturnTripClientPanel
  <2>2. CASE Mine(p, s).status \in Open /\ tap = TapOn("withdrawRequest", k)
    <3>1. k \in RowsOf(s, p) /\ (At(s, k, "PENDING") \/ At(s, k, "COUNTERED"))
      BY <2>2, <1>3 DEF Open
    <3>2. WithdrawRequest(p, k, s) # {}
      BY <2>1, <3>1 DEF WithdrawRequest, If
    <3>3. QED
      BY <2>2, <3>2 DEF TakenUp
  <2>3. CASE Mine(p, s).status = "COUNTERED" /\ tap = TapOn("acceptCounter", k)
    <3>1. AcceptCounter(p, k, s) # {}
      BY <2>1, <2>3, <1>3, EngageAnswers DEF AcceptCounter
    <3>2. QED
      BY <2>3, <3>1 DEF TakenUp
  <2>4. CASE s.instant /\ tap \in {Tap("bookDigital"), Tap("bookCash")}
    <3>1. \A method \in Methods : BookTrip(p, method, s) # {}
      BY <2>1, <2>4 DEF BookTrip, If
    <3>2. QED
      BY <2>4, <3>1 DEF TakenUp, Methods
  <2>5. CASE Mine(p, s).status \in {"none", "CANCELLED", "REJECTED"} /\ tap = Tap("request")
    <3>1. \A l \in RowsOf(s, p) : s.rows[l].status \notin Open
      BY <2>1, <2>5, NoOpenRequest DEF Open
    <3>2. Len(s.rows) # MaxRows => SendRequest(p, s) # {}
      BY <2>1, <3>1, <1>1, RoomForRow DEF SendRequest, If, Open
    <3>3. QED
      BY <2>5, <3>2 DEF TakenUp
  <2>6. QED
    BY <1>2, <1>4, <2>2, <2>3, <2>4, <2>5 DEF ReturnTripClientPanel, Open, k
<1>5. ASSUME tap \in TripRequestsPanel(s, p, v, s.rows) PROVE TakenUp(p, tap, s)
  <2>1. s.trip /\ p = Owner
    BY <1>5 DEF TripRequestsPanel
  <2>2. CASE tap \in {Tap("edit"), Tap("unpublish")} /\ v.status = "PUBLISHED"
    <3>1. EditTrip(p, s) # {} /\ Unpublish(p, s) # {}
      BY <2>1, <2>2, <1>2 DEF EditTrip, Unpublish, If
    <3>2. QED
      BY <2>2, <3>1 DEF TakenUp
  <2>3. CASE \E l \in DOMAIN s.rows, op \in {"acceptRequest", "rejectRequest", "counterRequest"} :
                 s.rows[l].status = "PENDING" /\ tap = TapOn(op, l)
    <3>1. PICK l \in DOMAIN s.rows,
               op \in {"acceptRequest", "rejectRequest", "counterRequest"} :
              s.rows[l].status = "PENDING" /\ tap = TapOn(op, l)
      BY <2>3
    <3>2. At(s, l, "PENDING")
      BY <3>1 DEF At
    <3>3. tap.op = op /\ tap.k = l
      BY <3>1
    <3>4. CASE op = "acceptRequest"
      <4>1. s.status = "PUBLISHED" => AcceptRequest(p, l, s) # {}
        BY <2>1, <3>2, EngageAnswers DEF AcceptRequest
      <4>2. QED
        BY <3>3, <3>4, <4>1 DEF TakenUp, KnownRefusal
    <3>5. CASE op \in {"rejectRequest", "counterRequest"}
      BY <2>1, <3>2, <3>3, <3>5 DEF TakenUp, RejectRequest, CounterRequest, If
    <3>6. QED
      BY <3>4, <3>5
  <2>4. QED
    BY <1>5, <2>2, <2>3 DEF TripRequestsPanel, OnRows
<1>6. ASSUME tap \in OfferList(s, p, v, s.rows) PROVE TakenUp(p, tap, s)
  <2>1. ~s.trip /\ p = Owner
    BY <1>6 DEF OfferList
  <2>2. PICK l \in DOMAIN s.rows, op \in {"acceptDigital", "acceptCash"} :
            s.rows[l].status = "PENDING" /\ tap = TapOn(op, l)
    BY <1>6 DEF OfferList, OfferCard, OnRows
  <2>3. s.status = "PUBLISHED"
    BY <2>1, <2>2 DEF Consistent, Answerable
  <2>4. tap.op = op /\ tap.k = l /\ At(s, l, "PENDING")
    BY <2>2 DEF At
  <2>5. QED
    BY <2>1, <2>3, <2>4 DEF TakenUp, AcceptOffer, If
<1>7. ASSUME tap \in MyOfferCard(s, p, v) PROVE TakenUp(p, tap, s)
  <2>1. ~s.trip /\ tap = TapOn("withdrawOffer", k) /\ Mine(p, s).status = "PENDING"
    BY <1>2, <1>7 DEF MyOfferCard, k
  <2>2. WithdrawOffer(p, k, s) # {}
    BY <2>1, <1>3 DEF WithdrawOffer, If
  <2>3. QED
    BY <2>1, <2>2 DEF TakenUp
<1>8. ASSUME tap \in OfferForm(s, p, v) PROVE TakenUp(p, tap, s)
  <2>1. ~s.trip /\ p # Owner /\ s.status = "PUBLISHED" /\ tap = Tap("offer") /\ Mine(p, s) = NoRow
    BY <1>2, <1>8 DEF OfferForm
  <2>2. RowsOf(s, p) = {}
    BY <2>1, <1>1, MineIs DEF NoRow
  <2>3. QED
    BY <2>1, <2>2, <1>1, RoomForRow DEF TakenUp, SubmitOffer, If
<1>9. QED
  BY <1>4, <1>5, <1>6, <1>7, <1>8 DEF v

(* The screens of the telephone that are shown to be right by the same      *)
(* facts.                                                                  *)
LEMMA PhoneTakenUp ==
    ASSUME NEW s, Consistent(s), NEW p \in Persons, device = "phone",
           NEW tap \in PhoneOffers(p, s)
    PROVE  TakenUp(p, tap, s)
<1> USE AnswersAre, TapIs
<1>1. s \in Mission /\ p # None /\ s.trip \in BOOLEAN
  BY PeopleDiffer, Fields DEF Consistent
<1>2. PICK q \in IF IsClient(s, p) THEN {"detail", "mine"} ELSE TransporterScreens \ {"trips"} :
          tap \in ScreenTaps(q, Answered(q, p, s, None))
  BY DEF PhoneOffers
<1>3. CASE q = "detail"
  <2> DEFINE v == Show(p, s)
  <2>1. IsClient(s, p) /\ tap \in MissionScreen(IF Sees(p, s) THEN v ELSE None)
    BY <1>2, <1>3 DEF ScreenTaps, Answered, TransporterScreens
  <2>2. Sees(p, s) /\ tap \in MissionScreen(v)
    BY <2>1 DEF MissionScreen
  <2>3. /\ v.status = s.status /\ v.method = s.method
        /\ v.released = (s.link = "RELEASED") /\ v.reviewed = (p \in s.wrote)
    BY ShownFields
  <2> HIDE DEF v
  <2>4. s.status # "PUBLISHED" => p \in Participants(s)
    BY <2>1, <2>2, <1>1 DEF Sees, Participants
  <2>5. s.status # "PUBLISHED" => p = Client(s)
    <3>1. CASE ~s.trip
      <4>1. s.trip = FALSE
        BY <3>1, <1>1
      <4>2. p = Owner
        BY <4>1, <2>1 DEF IsClient
      <4>3. QED
        BY <4>2, <3>1, <1>1, ClientIs
    <3>2. CASE s.trip
      <4>1. p # Owner /\ (s.carrier = None \/ s.carrier = Owner)
        BY <3>2, <2>1 DEF IsClient, Consistent, Carried
      <4>2. QED
        BY <4>1, <2>4, <1>1 DEF Participants
    <3>3. QED
      BY <3>1, <3>2
  <2>6. CASE tap = Tap("pay") /\ clientDoitPayer(v)
    <3>1. Initiate(p, s) # {}
      BY <2>3, <2>5, <2>6 DEF clientDoitPayer, Initiate, If, Consistent, Funded
    <3>2. QED
      BY <2>6, <3>1 DEF TakenUp
  <2>7. CASE tap = Tap("confirm") /\ v.status = "COMPLETED"
    <3>1. KnownRefusal(p, "confirm", s) \/ ConfirmCompletion(p, s) # {}
      BY <2>3, <2>7 DEF KnownRefusal, ConfirmCompletion, If
    <3>2. QED
      BY <2>7, <3>1 DEF TakenUp
  <2>8. CASE tap = Tap("review") /\ v.status = "COMPLETED"
    <3>1. KnownRefusal(p, "review", s) \/ WriteReview(p, s) # {}
      BY <2>3, <2>8 DEF KnownRefusal, WriteReview, If
    <3>2. QED
      BY <2>8, <3>1 DEF TakenUp
  <2>9. CASE tap = Tap("dispute") /\ v.status = "COMPLETED"
    <3>1. KnownRefusal(p, "dispute", s) \/ OpenDispute(p, s) # {}
      BY <2>3, <2>4, <2>9 DEF KnownRefusal, OpenDispute, If
    <3>2. QED
      BY <2>9, <3>1 DEF TakenUp
  <2>10. CASE tap = Tap("clientCancel") /\ v.status \in {"MATCHED", "IN_PROGRESS"}
    <3>1. ClientCancel(p, s) # {}
      BY <2>3, <2>5, <2>10 DEF ClientCancel, If
    <3>2. QED
      BY <2>10, <3>1 DEF TakenUp
  <2>11. QED
    BY <2>2, <2>6, <2>7, <2>8, <2>9, <2>10 DEF MissionScreen
<1>4. CASE q = "mine"
  <2> DEFINE mine == IF s.trip THEN Mine(p, s) ELSE NoRow
             k == Mine(p, s).k
  <2>1. tap \in MyRequestCard(mine)
    BY <1>2, <1>4 DEF ScreenTaps, Answered
  <2>2. mine.status \in Open => s.trip /\ mine = Mine(p, s)
    BY DEF NoRow, Open
  <2>3. Mine(p, s).status # "none" => k \in RowsOf(s, p) /\ At(s, k, Mine(p, s).status)
    BY <1>1, MineRow
  <2>4. \/ tap = TapOn("acceptCounter", mine.k) /\ mine.status = "COUNTERED"
        \/ tap = TapOn("withdrawRequest", mine.k) /\ mine.status \in Open
    BY <2>1 DEF MyRequestCard, Open
  <2> HIDE DEF mine, k
  <2>5. CASE tap = TapOn("acceptCounter", mine.k) /\ mine.status = "COUNTERED"
    <3>1. s.trip /\ mine = Mine(p, s) /\ k \in RowsOf(s, p) /\ At(s, k, "COUNTERED")
      BY <2>2, <2>3, <2>5 DEF Open
    <3>2. s.status = "PUBLISHED" => AcceptCounter(p, k, s) # {}
      BY <3>1, EngageAnswers DEF AcceptCounter
    <3>3. tap.op = "acceptCounter" /\ tap.k = k
      BY <2>5, <3>1 DEF k
    <3>4. QED
      BY <3>2, <3>3 DEF TakenUp, KnownRefusal
  <2>6. CASE tap = TapOn("withdrawRequest", mine.k) /\ mine.status \in Open
    <3>1. s.trip /\ mine = Mine(p, s) /\ k \in RowsOf(s, p)
          /\ (At(s, k, "PENDING") \/ At(s, k, "COUNTERED"))
      BY <2>2, <2>3, <2>6 DEF Open
    <3>2. WithdrawRequest(p, k, s) # {}
      BY <3>1 DEF WithdrawRequest, If
    <3>3. tap.op = "withdrawRequest" /\ tap.k = k
      BY <2>6, <3>1 DEF k
    <3>4. QED
      BY <3>2, <3>3 DEF TakenUp
  <2>7. QED
    BY <2>4, <2>5, <2>6
<1>5. CASE q = "missions"
  <2> DEFINE e == Answered("missions", p, s, None)
  <2>1. tap \in MissionCard(e)
    BY <1>2, <1>5 DEF ScreenTaps
  <2>2. e \in {"MATCHED", "IN_PROGRESS"} => p = s.carrier /\ e = s.status
    BY DEF Answered, Among
  <2> HIDE DEF e
  <2>3. CASE tap = Tap("start") /\ e = "MATCHED"
    <3>1. KnownRefusal(p, "start", s) \/ ConfirmStart(p, s) # {}
      BY <2>2, <2>3, <1>1
         DEF KnownRefusal, ConfirmStart, If, Consistent, Booked, UnderWay, Methods
    <3>2. QED
      BY <2>3, <3>1 DEF TakenUp
  <2>4. CASE tap \in {Tap("deliver"), Tap("dispute")} /\ e = "IN_PROGRESS"
    <3>1. p \in Participants(s)
      BY <2>2, <2>4, <1>1 DEF Participants
    <3>2. Complete(p, s) # {}
      BY <2>2, <2>4 DEF Complete, If
    <3>3. KnownRefusal(p, "dispute", s) \/ OpenDispute(p, s) # {}
      BY <2>2, <2>4, <3>1 DEF KnownRefusal, OpenDispute, If
    <3>4. QED
      BY <2>4, <3>2, <3>3 DEF TakenUp
  <2>5. CASE tap = Tap("leave") /\ e \in {"MATCHED", "IN_PROGRESS"}
    <3>1. TransporterCancel(p, s) # {}
      BY <2>2, <2>5 DEF TransporterCancel, If
    <3>2. QED
      BY <2>5, <3>1 DEF TakenUp
  <2>6. QED
    BY <2>1, <2>3, <2>4, <2>5 DEF MissionCard
<1>6. CASE q = "completed"
  <2>1. tap = Tap("review") /\ s.status = "COMPLETED"
    BY <1>2, <1>6 DEF ScreenTaps, CompletedMissionsList, Answered, Among
  <2>2. KnownRefusal(p, "review", s) \/ WriteReview(p, s) # {}
    BY <2>1 DEF KnownRefusal, WriteReview, If
  <2>3. QED
    BY <2>1, <2>2 DEF TakenUp
<1>7. CASE q = "requests"
  <2>1. tap \in RequestCard(IF s.trip /\ p = Owner THEN s.rows ELSE None)
    BY <1>2, <1>7 DEF ScreenTaps, Answered
  <2>2. s.trip /\ p = Owner /\ tap \in RequestCard(s.rows)
    BY <2>1 DEF RequestCard
  <2>3. PICK l \in DOMAIN s.rows,
             op \in {"acceptRequest", "rejectRequest", "counterRequest"} :
            s.rows[l].status = "PENDING" /\ tap = TapOn(op, l)
    BY <2>2 DEF RequestCard
  <2>4. At(s, l, "PENDING") /\ tap.op = op /\ tap.k = l
    BY <2>3 DEF At
  <2>5. CASE op = "acceptRequest"
    <3>1. s.status = "PUBLISHED" => AcceptRequest(p, l, s) # {}
      BY <2>2, <2>4, EngageAnswers DEF AcceptRequest
    <3>2. QED
      BY <2>4, <2>5, <3>1 DEF TakenUp, KnownRefusal
  <2>6. CASE op \in {"rejectRequest", "counterRequest"}
    <3>1. RejectRequest(p, l, s) # {} /\ CounterRequest(p, l, s) # {}
      BY <2>2, <2>4 DEF RejectRequest, CounterRequest, If
    <3>2. QED
      BY <2>4, <2>6, <3>1 DEF TakenUp
  <2>7. QED
    BY <2>5, <2>6
<1>8. QED
  BY <1>2, <1>3, <1>4, <1>5, <1>6, <1>7 DEF TransporterScreens

(* A mission on its way has somebody to take it on, by the web front end    *)
(* where it is a classic one, by the telephone where it has a client.      *)
LEMMA SomebodyGoesOn ==
    ASSUME NEW s, Consistent(s), Forward(s) # {},
           IF device = "web" THEN ~s.trip ELSE Client(s) # None
    PROVE  \E p \in Persons :
               \E tap \in IF device = "web" THEN WebOffers(p, s) ELSE PhoneOffers(p, s) :
                   tap.op \in Forward(s) /\ Answers(p, tap, s) # {}
<1> USE AnswersAre, TapIs
<1>1. s \in Mission /\ s.trip \in BOOLEAN
  BY Fields DEF Consistent
<1>2. s.status \in UnderWay
  BY DEF Forward, UnderWay
<1>3. /\ s.carrier \in Persons /\ s.method \in Methods
      /\ Sees(s.carrier, s) /\ ~IsClient(s, s.carrier)
  <2>1. s.carrier \in Persons /\ s.method \in Methods
    BY <1>1, <1>2, Fields DEF Consistent, Booked
  <2>2. QED
    BY <2>1, CarrierSees
<1>4. /\ Client(s) \in Persons
      /\ Sees(Client(s), s) /\ IsClient(s, Client(s))
      /\ device = "web" => Client(s) = Owner
  <2>1. /\ Client(s) \in Persons
        /\ device = "web" => Client(s) = Owner
    BY <1>1, ClientIs DEF Persons
  <2>2. QED
    BY <2>1, ClientSees
(* The carrier's buttons.                                                  *)
<1>5. ASSUME NEW tap, tap \in IF device = "web"
                              THEN MissionMatchedPanel(s, s.carrier, Show(s.carrier, s))
                                   \cup MissionInProgressPanel(s.carrier, Show(s.carrier, s))
                              ELSE MissionCard(s.status)
      PROVE  tap \in IF device = "web" THEN WebOffers(s.carrier, s) ELSE PhoneOffers(s.carrier, s)
  <2>1. CASE device = "web"
    BY <1>3, <1>5, <2>1 DEF WebOffers, DetailTaps
  <2>2. CASE device # "web"
    <3>1. s.status \in {"MATCHED", "IN_PROGRESS"}
      BY <1>5, <2>2 DEF MissionCard
    <3>2. Answered("missions", s.carrier, s, None) = s.status
      BY <3>1 DEF Answered, Among
    <3>3. tap \in ScreenTaps("missions", Answered("missions", s.carrier, s, None))
      BY <3>2, <1>5, <2>2 DEF ScreenTaps
    <3>4. "missions" \in TransporterScreens \ {"trips"}
      BY DEF TransporterScreens
    <3>5. QED
      BY <3>3, <3>4, <2>2, <1>3 DEF PhoneOffers
  <2>3. QED
    BY <2>1, <2>2
(* The client's buttons.                                                   *)
<1>6. ASSUME NEW tap, tap \in IF device = "web"
                              THEN MissionMatchedPanel(s, Owner, Show(Owner, s))
                                   \cup PostDeliveryPanel(Owner, Show(Owner, s))
                              ELSE MissionScreen(Show(Client(s), s))
      PROVE  tap \in IF device = "web" THEN WebOffers(Client(s), s) ELSE PhoneOffers(Client(s), s)
  <2>1. CASE device = "web"
    BY <1>4, <1>6, <2>1 DEF WebOffers, DetailTaps
  <2>2. CASE device # "web"
    <3>1. Answered("detail", Client(s), s, None) = Show(Client(s), s)
      BY <1>4 DEF Answered
    <3>2. tap \in ScreenTaps("detail", Answered("detail", Client(s), s, None))
      BY <3>1, <1>6, <2>2 DEF ScreenTaps
    <3>3. QED
      BY <3>2, <2>2, <1>4 DEF PhoneOffers
  <2>3. QED
    BY <2>1, <2>2
<1>7. CASE s.status = "MATCHED" /\ s.method = "COD"
  <2>1. Tap("start") \in IF device = "web"
                         THEN MissionMatchedPanel(s, s.carrier, Show(s.carrier, s))
                         ELSE MissionCard(s.status)
    BY <1>7, ShownFields DEF MissionMatchedPanel, MissionCard, Assigned
  <2>2. ConfirmStart(s.carrier, s) # {}
    BY <1>7 DEF ConfirmStart, If
  <2>3. QED
    BY <1>3, <1>5, <1>7, <2>1, <2>2 DEF Forward
<1>8. CASE s.status = "MATCHED" /\ s.method = "DIGITAL"
  <2>1. Tap("pay") \in IF device = "web" THEN MissionMatchedPanel(s, Owner, Show(Owner, s))
                       ELSE MissionScreen(Show(Client(s), s))
    <3>1. Show(Client(s), s) # None
      BY <1>4, ShowIs, ScreensAssumption
    <3>2. QED
      BY <1>8, <3>1, ShownFields DEF MissionMatchedPanel, MissionScreen, clientDoitPayer
  <2>2. Initiate(Client(s), s) # {}
    BY <1>8 DEF Initiate, If, Consistent, Funded
  <2>3. QED
    BY <1>4, <1>6, <1>8, <2>1, <2>2 DEF Forward
<1>9. CASE s.status = "IN_PROGRESS"
  <2>1. Tap("deliver") \in IF device = "web"
                           THEN MissionInProgressPanel(s.carrier, Show(s.carrier, s))
                           ELSE MissionCard(s.status)
    BY <1>9, ShownFields DEF MissionInProgressPanel, MissionCard, Assigned
  <2>2. Complete(s.carrier, s) # {}
    BY <1>9 DEF Complete, If
  <2>3. QED
    BY <1>3, <1>5, <1>9, <2>1, <2>2 DEF Forward
<1>10. CASE s.status = "COMPLETED"
  <2>1. s.link = "HELD" /\ ~s.disputed
    BY <1>10 DEF Forward
  <2>2. Tap("confirm") \in IF device = "web" THEN PostDeliveryPanel(Owner, Show(Owner, s))
                           ELSE MissionScreen(Show(Client(s), s))
    <3>1. Show(Client(s), s) # None
      BY <1>4, ShowIs, ScreensAssumption
    <3>2. /\ Show(Owner, s).status = "COMPLETED" /\ ~Show(Owner, s).released
          /\ Show(Client(s), s).status = "COMPLETED" /\ ~Show(Client(s), s).released
      BY <1>10, <2>1 DEF Show
    <3>3. Tap("confirm") \in PostDeliveryPanel(Owner, Show(Owner, s))
      BY <3>2 DEF PostDeliveryPanel
    <3>4. Tap("confirm") \in MissionScreen(Show(Client(s), s))
      BY <3>1, <3>2 DEF MissionScreen
    <3>5. QED
      BY <3>3, <3>4
  <2>3. ConfirmCompletion(Client(s), s) # {}
    BY <1>10, <2>1 DEF ConfirmCompletion, If
  <2>4. QED
    BY <1>4, <1>6, <1>10, <2>1, <2>2, <2>3 DEF Forward
<1>11. QED
  BY <1>2, <1>3, <1>7, <1>8, <1>9, <1>10 DEF UnderWay, Methods

-----------------------------------------------------------------------------
(* The buttons of a screen.                                                *)

LEMMA TapTyped ==
    /\ \A op \in PlainOps : Tap(op) \in Taps
    /\ \A op \in RowOps, k \in 1 .. MaxRows : TapOn(op, k) \in Taps
    /\ \A tap \in Taps : tap.op \in Ops
BY DEF Tap, TapOn, Taps, Ops

LEMMA ViewFields ==
    ASSUME NEW v \in View
    PROVE  /\ v.status \in Statuses /\ v.mine.k \in 0 .. MaxRows
           /\ v.mine.status \in {"none"} \cup RowStatuses
BY DEF View

LEMMA OnRowsTyped ==
    ASSUME NEW rows, rows # None => rows \in RowSeqs, NEW ops \in SUBSET RowOps, NEW status,
           NEW tap \in OnRows(rows, ops, status)
    PROVE  /\ tap \in Taps /\ tap.op \in ops
           /\ rows # None /\ tap.k \in DOMAIN rows /\ rows[tap.k].status = status
<1>1. rows # None /\ rows \in RowSeqs
  BY DEF OnRows
<1>2. PICK op \in ops, k \in DOMAIN rows : rows[k].status = status /\ tap = TapOn(op, k)
  BY DEF OnRows
<1>3. k \in 1 .. MaxRows
  BY <1>1, RowsAre
<1>4. QED
  BY <1>1, <1>2, <1>3, TapTyped, TapIs

(* What each panel of the web front end shows, and what for.               *)
LEMMA DetailOffers ==
    ASSUME NEW s, NEW p, NEW v \in View, NumberedMine(v.mine),
           NEW rows, rows # None => rows \in RowSeqs,
           NEW tap \in DetailTaps(s, p, v, rows)
    PROVE  /\ tap \in Taps
           /\ tap.op \in {"pay", "start"} => v.status = "MATCHED"
           /\ tap.op = "start" => v.method = "COD"
           /\ tap.op \in {"deliver", "leave", "arrived", "loaded"} =>
                  v.status = "IN_PROGRESS" /\ v.carrier = p
           /\ tap.op = "arrived" => v.steps = 0
           /\ tap.op = "loaded" => v.steps = 1
           /\ tap.op = "confirm" => v.status = "COMPLETED" /\ ~v.released
           /\ tap.op = "review" => ~v.reviewed
           /\ tap.op \in {"bookDigital", "bookCash", "request", "offer", "unpublish"} =>
                  v.status = "PUBLISHED"
           /\ tap.op = "request" => v.mine.status \notin Open
           /\ tap.op = "offer" => v.mine = NoRow
           /\ tap.op = "acceptCounter" => tap.k = v.mine.k /\ v.mine.status = "COUNTERED"
           /\ tap.op = "withdrawRequest" => tap.k = v.mine.k /\ v.mine.status \in Open
           /\ tap.op = "withdrawOffer" => tap.k = v.mine.k /\ v.mine.status = "PENDING"
           /\ tap.op \in {"acceptDigital", "acceptCash", "acceptRequest", "rejectRequest",
                          "counterRequest"} =>
                  rows # None /\ tap.k \in DOMAIN rows /\ rows[tap.k].status = "PENDING"
           /\ tap.op = "cancelJob" => v.status \in {"PUBLISHED", "MATCHED"}
           /\ tap.op \notin {"clientCancel", "extend", "verify"}
<1> USE TapIs
<1>1. \A op \in {"pay", "start", "deliver", "leave", "arrived", "loaded", "confirm", "review",
                 "bookDigital", "bookCash", "request", "edit", "unpublish", "offer", "cancelJob",
                 "dispute"} : Tap(op) \in Taps
  BY TapTyped DEF PlainOps
<1>2. v.mine.status # "none" =>
         \A op \in {"acceptCounter", "withdrawRequest", "withdrawOffer"} :
             TapOn(op, v.mine.k) \in Taps
  BY TapTyped DEF NumberedMine, RowOps
<1>3. CASE tap \in MissionMatchedPanel(s, p, v)
  BY <1>1, <1>3 DEF MissionMatchedPanel
<1>4. CASE tap \in MissionInProgressPanel(p, v)
  BY <1>1, <1>4 DEF MissionInProgressPanel, Assigned
<1>5. CASE tap \in PostDeliveryPanel(p, v)
  BY <1>1, <1>5 DEF PostDeliveryPanel
<1>6. CASE tap \in ReturnTripClientPanel(s, p, v)
  <2>1. v.status = "PUBLISHED"
    BY <1>6 DEF ReturnTripClientPanel
  <2>2. \/ tap = TapOn("acceptCounter", v.mine.k) /\ v.mine.status = "COUNTERED"
        \/ tap = TapOn("withdrawRequest", v.mine.k) /\ v.mine.status \in Open
        \/ tap \in {Tap("bookDigital"), Tap("bookCash")}
        \/ tap = Tap("request") /\ v.mine.status \notin Open
    BY <1>6 DEF ReturnTripClientPanel, Open
  <2>3. QED
    BY <1>1, <1>2, <2>1, <2>2 DEF Open
<1>7. CASE tap \in TripRequestsPanel(s, p, v, rows)
  <2>1. \/ tap \in OnRows(rows, {"acceptRequest", "rejectRequest", "counterRequest"}, "PENDING")
        \/ tap \in {Tap("edit"), Tap("unpublish")} /\ v.status = "PUBLISHED"
    BY <1>7 DEF TripRequestsPanel
  <2>2. CASE tap \in OnRows(rows, {"acceptRequest", "rejectRequest", "counterRequest"}, "PENDING")
    BY <2>2, OnRowsTyped DEF RowOps
  <2>3. CASE tap \in {Tap("edit"), Tap("unpublish")} /\ v.status = "PUBLISHED"
    BY <1>1, <2>3
  <2>4. QED
    BY <2>1, <2>2, <2>3
<1>8. CASE tap \in OfferList(s, p, v, rows)
  <2>1. tap \in OnRows(rows, {"acceptDigital", "acceptCash"}, "PENDING")
    BY <1>8 DEF OfferList, OfferCard
  <2>2. QED
    BY <2>1, OnRowsTyped DEF RowOps
<1>9. CASE tap \in MyOfferCard(s, p, v)
  BY <1>2, <1>9 DEF MyOfferCard
<1>10. CASE tap \in OfferForm(s, p, v)
  BY <1>1, <1>10 DEF OfferForm
<1>11. CASE tap \in CancelButton(s, p, v)
  BY <1>1, <1>11 DEF CancelButton
<1>12. CASE tap \in DisputeButton(p, v)
  BY <1>1, <1>12 DEF DisputeButton
<1>13. QED
  BY <1>3, <1>4, <1>5, <1>6, <1>7, <1>8, <1>9, <1>10, <1>11, <1>12 DEF DetailTaps

LEMMA PageOffers ==
    ASSUME page \in PageState, PageHolds, NEW tap \in PageTaps
    PROVE  /\ ~page.busy /\ page.view # None /\ page.view \in View /\ Showable(page.view)
           /\ page.rows # None => page.rows \in RowSeqs
           /\ tap \in Taps
           /\ \/ page.at = "detail" /\ tap \in DetailTaps(srv, me, page.view, page.rows)
              \/ page.at \in {"reservation", "book"} /\ tap.op = "pay"
           /\ page.at = "reservation" => page.view.due
<1>1. ~page.busy /\ page.view # None /\ page.view \in View /\ Showable(page.view)
  BY DEF PageTaps, PageState, PageHolds
<1>2. page.rows # None => page.rows \in RowSeqs
  BY DEF PageHolds, RowSeqs
<1>3. CASE page.at = "detail"
  <2>1. tap \in DetailTaps(srv, me, page.view, page.rows)
    BY <1>1, <1>3 DEF PageTaps
  <2>2. tap \in Taps
    BY <1>1, <1>2, <2>1, DetailOffers DEF Showable
  <2>3. QED
    BY <1>1, <1>2, <1>3, <2>1, <2>2
<1>4. CASE page.at = "reservation"
  BY <1>1, <1>2, <1>4, TapIs, TapTyped DEF PageTaps, ReservationTaps, needsPayment, PlainOps
<1>5. CASE page.at = "book"
  BY <1>1, <1>2, <1>5, TapIs, TapTyped DEF PageTaps, BookTaps, PlainOps
<1>6. QED
  BY <1>1, <1>3, <1>4, <1>5 DEF PageTaps, PageState, Places

LEMMA PhoneOffered ==
    ASSUME PhoneOK, PhoneHolds, NEW tap \in PhoneTaps
    PROVE  /\ tap \in Taps
           /\ \/ /\ phone.screen = "detail" /\ phone.entry # None /\ phone.entry \in View
                 /\ tap.op \in {"pay", "confirm", "review", "dispute", "clientCancel"}
                 /\ tap.op = "pay" => phone.entry.status = "MATCHED"
                 /\ tap.op = "confirm" =>
                       phone.entry.status = "COMPLETED" /\ ~phone.entry.released
                 /\ tap.op = "clientCancel" => phone.entry.status \in {"MATCHED", "IN_PROGRESS"}
              \/ /\ phone.screen = "mine" /\ phone.entry # None
                 /\ tap.op \in {"acceptCounter", "withdrawRequest"} /\ tap.k = phone.entry.k
                 /\ tap.op = "acceptCounter" => phone.entry.status = "COUNTERED"
                 /\ tap.op = "withdrawRequest" => phone.entry.status \in Open
              \/ phone.screen = "search" /\ tap.op = "request"
              \/ /\ phone.screen = "missions" /\ tap.op \in {"start", "deliver", "dispute", "leave"}
                 /\ tap.op = "start" => phone.entry = "MATCHED"
                 /\ tap.op = "deliver" => phone.entry = "IN_PROGRESS"
                 /\ tap.op = "leave" => phone.entry \in {"MATCHED", "IN_PROGRESS"}
              \/ phone.screen = "completed" /\ tap.op = "review"
              \/ phone.screen = "trips" /\ tap.op \in {"extend", "unpublish"}
              \/ /\ phone.screen = "requests" /\ phone.entry # None
                 /\ tap.op \in {"acceptRequest", "rejectRequest", "counterRequest"}
                 /\ tap.k \in DOMAIN phone.entry /\ phone.entry[tap.k].status = "PENDING"
<1> USE TapIs
<1>1. \A op \in {"pay", "start", "deliver", "leave", "confirm", "review", "request", "extend",
                 "unpublish", "dispute", "clientCancel"} : Tap(op) \in Taps
  BY TapTyped DEF PlainOps
<1>2. phone.screen \in Screens /\ phone.entry \in Entries(phone.screen)
  BY DEF PhoneOK
<1>3. CASE phone.screen = "detail"
  <2>1. tap \in MissionScreen(phone.entry)
    BY <1>3 DEF PhoneTaps, ScreenTaps
  <2>2. phone.entry # None /\ phone.entry \in View
    BY <2>1, <1>2, <1>3 DEF MissionScreen, Entries
  <2>3. QED
    BY <1>1, <1>3, <2>1, <2>2 DEF MissionScreen, clientDoitPayer
<1>4. CASE phone.screen = "mine"
  <2>1. tap \in MyRequestCard(phone.entry)
    BY <1>4 DEF PhoneTaps, ScreenTaps
  <2>2. phone.entry # None /\ NumberedMine(phone.entry)
    BY <2>1, <1>4 DEF MyRequestCard, PhoneHolds
  <2>3. \/ tap = TapOn("acceptCounter", phone.entry.k) /\ phone.entry.status = "COUNTERED"
        \/ tap = TapOn("withdrawRequest", phone.entry.k) /\ phone.entry.status \in Open
    BY <2>1 DEF MyRequestCard, Open
  <2>4. phone.entry.k \in 1 .. MaxRows
    BY <2>2, <2>3 DEF NumberedMine, Open
  <2>5. tap \in Taps
    BY <2>3, <2>4, TapTyped DEF RowOps
  <2>6. QED
    BY <1>4, <2>2, <2>3, <2>5
<1>5. CASE phone.screen = "search"
  BY <1>1, <1>5 DEF PhoneTaps, ScreenTaps, SendRequestSheet
<1>6. CASE phone.screen = "missions"
  <2>1. tap \in MissionCard(phone.entry)
    BY <1>6 DEF PhoneTaps, ScreenTaps
  <2>2. QED
    BY <1>1, <1>6, <2>1 DEF MissionCard
<1>7. CASE phone.screen = "completed"
  BY <1>1, <1>7 DEF PhoneTaps, ScreenTaps, CompletedMissionsList
<1>8. CASE phone.screen = "trips"
  <2>1. tap \in ReturnTripRow(phone.entry)
    BY <1>8 DEF PhoneTaps, ScreenTaps
  <2>2. QED
    BY <1>1, <1>8, <2>1 DEF ReturnTripRow
<1>9. CASE phone.screen = "requests"
  <2>1. tap \in RequestCard(phone.entry)
    BY <1>9 DEF PhoneTaps, ScreenTaps
  <2>2. phone.entry # None /\ phone.entry \in RowSeqs
    BY <2>1, <1>2, <1>9 DEF RequestCard, Entries, RowSeqs
  <2>3. PICK op \in {"acceptRequest", "rejectRequest", "counterRequest"},
             k \in DOMAIN phone.entry :
            phone.entry[k].status = "PENDING" /\ tap = TapOn(op, k)
    BY <2>1, <2>2 DEF RequestCard
  <2>4. k \in 1 .. MaxRows
    BY <2>2, RowsAre
  <2>5. tap \in Taps
    BY <2>3, <2>4, TapTyped DEF RowOps
  <2>6. QED
    BY <1>9, <2>2, <2>3, <2>5
<1>10. QED
  BY <1>2, <1>3, <1>4, <1>5, <1>6, <1>7, <1>8, <1>9
     DEF Screens, ClientScreens, TransporterScreens

LEMMA OfferedIsTap ==
    ASSUME Inv, NEW tap \in Offered
    PROVE  tap \in Taps /\ tap.op \in Ops
<1>1. tap \in Taps
  BY PageOffers, PhoneOffered DEF Inv, TypeOK, Offered
<1>2. QED
  BY <1>1, TapTyped

-----------------------------------------------------------------------------
(* Steps of the web front end.                                             *)

(* The page an accepted button leads to: it reads, or shows no mission.     *)
NextPage(pg) ==
    /\ pg \in PageState /\ pg.rows = None
    /\ pg.view \in {page.view, None}
    /\ pg.busy \/ pg.view = None

LEMMA NextPages ==
    ASSUME page \in PageState
    PROVE  /\ NextPage(Rereading) /\ NextPage(Away) /\ NextPage(AtGateway)
           /\ \A at \in Places : NextPage(Loading(at))
           /\ \A at \in Places : NextPage([Loading(at) EXCEPT !.paid = TRUE])
BY DEF NextPage, PageState, Rereading, Away, AtGateway, Loading, Places

LEMMA PressIs ==
    ASSUME page \in PageState, NEW tap, Press(tap)
    PROVE  /\ me' = me /\ srv' \in Answers(me, tap, srv)
           /\ \/ NextPage(page') /\ done' = tap
              \/ page' = page /\ done' = None
<1>1. ASSUME NEW ops, NEW next, NextPage(next), Act(tap, ops, next)
      PROVE  /\ me' = me /\ srv' \in Answers(me, tap, srv)
             /\ \/ NextPage(page') /\ done' = tap
                \/ page' = page /\ done' = None
  BY <1>1 DEF Act
<1>2. \E ops, next : NextPage(next) /\ Act(tap, ops, next)
  BY NextPages
     DEF Press, handlePayNow, handleInitiatePayment, handlePay, handleConfirmStart,
         handleConfirmDelivery, handleBookReturnTrip, handleSendTripRequest, handleAcceptCounter,
         handleCancelTripRequest, handleCancelJob, handleMarkDelivered, handleLogMilestone,
         handleTransporterCancel, respond, handleSaveEdit, handleDelete, handleWithdraw,
         handleSubmit, confirmAccept, submitReview, openLitige, Places
<1>3. QED
  BY <1>1, <1>2

(* A page shows what it showed, nothing, or what the server shows it.       *)
LEMMA PageStep ==
    ASSUME Inv, device = "web", WebNext
    PROVE  /\ me' = me
           /\ page' \in PageState
           /\ page'.view \in {page.view, None, Show(me, srv)}
           /\ page'.rows \in {page.rows, None, srv.rows}
           /\ \/ srv' = srv /\ done' \in {done, None}
              \/ \E tap \in PageTaps :
                    srv' \in Answers(me, tap, srv) /\ done' \in {tap, None}
<1> USE DEF Inv, TypeOK
<1>1. Show(me, srv) \in View
  BY ShowIs
<1>2. srv.rows \in Seq(Row)
  BY Fields, RowsAre DEF Consistent
<1>3. CASE OpenMission \/ LeaveMission \/ PayAtGateway \/ GiveUpAtGateway
  <2>1. NextPage(page') /\ UNCHANGED <<me, srv, done>>
    BY <1>3, NextPages
       DEF OpenMission, LeaveMission, PayAtGateway, GiveUpAtGateway, Stay, Places
  <2>2. QED
    BY <2>1 DEF NextPage
<1>4. CASE Read
  BY <1>1, <1>4 DEF Read, Stay, PageState
<1>5. CASE ReadFails \/ Retry \/ Resolve
  BY <1>5 DEF ReadFails, Retry, Resolve, Stay, PageState, Places
<1>6. CASE ReadRows
  BY <1>2, <1>6 DEF ReadRows, Stay, PageState
<1>7. CASE \E tap \in PageTaps : Press(tap)
  BY <1>7, PressIs DEF NextPage
<1>8. QED
  BY <1>3, <1>4, <1>5, <1>6, <1>7 DEF WebNext

-----------------------------------------------------------------------------
(* Steps of the telephone.                                                 *)

LEMMA AnsweredTyped ==
    ASSUME NEW s, Consistent(s), NEW p, NEW q \in Screens, NEW old \in Entries(q)
    PROVE  /\ Answered(q, p, s, old) \in Entries(q)
           /\ q = "detail" => Answered(q, p, s, old) = old \/ Showable(Answered(q, p, s, old))
           /\ q = "mine" => NumberedMine(Answered(q, p, s, old))
           /\ q = "requests" =>
                  Answered(q, p, s, old) = old \/ (s.trip /\ p = Owner)
<1> DEFINE a == Answered(q, p, s, old)
<1>1. s \in Mission /\ s.trip \in BOOLEAN /\ s.status \in Statuses
  BY Fields DEF Consistent
<1>2. CASE q = "detail"
  BY <1>2, ShowIs DEF Answered, Entries
<1>3. CASE q = "mine"
  <2>1. a = IF s.trip THEN Mine(p, s) ELSE NoRow
    BY <1>3 DEF Answered
  <2>2. NoRow \in [k : 0 .. MaxRows, status : {"none"} \cup RowStatuses] /\ NumberedMine(NoRow)
    BY ServerAssumption DEF NoRow, NumberedMine
  <2>3. a \in [k : 0 .. MaxRows, status : {"none"} \cup RowStatuses] /\ NumberedMine(a)
    BY <2>1, <2>2, <1>1, MineIs, ShowIs
  <2> HIDE DEF a
  <2>4. a \in Entries(q)
    BY <2>3, <1>3 DEF Entries
  <2>5. QED
    BY <2>3, <2>4, <1>3 DEF a
<1>4. CASE q = "search"
  BY <1>1, <1>4 DEF Answered, Entries
<1>5. CASE q = "requests"
  <2>1. a = IF s.trip /\ p = Owner THEN s.rows ELSE old
    BY <1>5 DEF Answered
  <2>2. s.rows \in BoundedSeq(Row, MaxRows)
    BY <1>1, Fields DEF RowSeqs
  <2>3. s.rows \in Entries(q)
    BY <2>2, <1>5 DEF Entries
  <2>4. QED
    BY <2>1, <2>3, <1>5
<1>6. CASE q \in {"missions", "completed", "trips"}
  <2>1. a \in Statuses \cup {"absent"}
    BY <1>1, <1>6 DEF Answered, Among, Statuses
  <2>2. QED
    BY <2>1, <1>6 DEF Entries
<1>7. QED
  BY <1>2, <1>3, <1>4, <1>5, <1>6 DEF Screens, ClientScreens, TransporterScreens

(* What is on the screen changes by a fetch only.                           *)
SameScreen ==
    /\ phone' = [screen |-> phone'.screen, entry |-> phone'.entry, due |-> phone'.due,
                 paying |-> phone'.paying]
    /\ phone'.screen = phone.screen
    /\ phone'.due \in BOOLEAN /\ phone'.paying \in BOOLEAN

LEMMA PressHereIs ==
    ASSUME PhoneOK, PhoneHolds, NEW tap, PressHere(tap)
    PROVE  /\ me' = me /\ srv' \in Answers(me, tap, srv)
           /\ SameScreen /\ phone'.entry = phone.entry
           /\ done' \in {tap, None}
<1>1. phone = [screen |-> phone.screen, entry |-> phone.entry, due |-> phone.due,
               paying |-> phone.paying] /\ phone.due \in BOOLEAN /\ phone.paying \in BOOLEAN
  BY DEF PhoneOK, PhoneHolds
<1>2. ASSUME NEW ops, NEW invalidated, Mutate(tap, ops, invalidated)
      PROVE  /\ me' = me /\ srv' \in Answers(me, tap, srv)
             /\ SameScreen /\ phone'.entry = phone.entry
             /\ done' \in {tap, None}
  BY <1>1, <1>2 DEF Mutate, SameScreen
<1>3. CASE usePayJob(tap)
  BY <1>1, <1>3, AnswersAre DEF usePayJob, SameScreen
<1>4. usePayJob(tap) \/ \E ops, invalidated : Mutate(tap, ops, invalidated)
  BY DEF PressHere, useConfirmStart, useCompleteJob, useTransporterCancel, useClientCancel,
         useConfirmCompletion, useAcceptCounter, useCancelRequest, useSendTripRequest,
         useRespondRequest, useExtendReturnTrip, useUnpublishReturnTrip, useCreateReview,
         useCreateDispute
<1>5. QED
  BY <1>2, <1>3, <1>4

LEMMA PhoneStep ==
    ASSUME Inv, device = "phone", PhoneNext
    PROVE  /\ me' = me /\ SameScreen
           /\ phone'.entry \in {phone.entry, Answered(phone.screen, me, srv, phone.entry)}
           /\ \/ srv' = srv /\ done' = done
              \/ srv' \in Verify(me, srv) /\ done' = None
              \/ \E tap \in PhoneTaps :
                    srv' \in Answers(me, tap, srv) /\ done' \in {tap, None}
<1> USE DEF Inv, TypeOK
<1>1. phone = [screen |-> phone.screen, entry |-> phone.entry, due |-> phone.due,
               paying |-> phone.paying] /\ phone.due \in BOOLEAN /\ phone.paying \in BOOLEAN
  BY DEF PhoneOK, PhoneHolds
<1>2. CASE Fetch
  BY <1>1, <1>2 DEF Fetch, SameScreen
<1>3. CASE useDeepLinkRouting
  BY <1>1, <1>3 DEF useDeepLinkRouting, SameScreen
<1>4. CASE PaymentLeft
  BY <1>1, <1>4 DEF PaymentLeft, SameScreen
<1>5. CASE \E tap \in PhoneTaps : PressHere(tap)
  BY <1>5, PressHereIs
<1>6. QED
  BY <1>2, <1>3, <1>4, <1>5 DEF PhoneNext

-----------------------------------------------------------------------------
(* The invariant.                                                          *)

LEMMA ServerStep ==
    ASSUME Inv, Next
    PROVE  Consistent(srv') /\ srv'.trip = srv.trip /\ me' = me /\ done' \in Taps \cup {None}
<1> USE DEF Inv, TypeOK
<1>1. CASE Here
  <2>1. me' = me /\ ( \/ srv' = srv /\ done' \in {done, None}
                      \/ srv' \in Verify(me, srv) /\ done' = None
                      \/ \E tap \in Offered :
                            srv' \in Answers(me, tap, srv) /\ done' \in {tap, None} )
    BY <1>1, PageStep, PhoneStep DEF Here, Offered
  <2>2. CASE srv' \in Verify(me, srv) /\ done' = None
    BY <2>1, <2>2, MoneySound DEF Sound
  <2>3. CASE \E tap \in Offered : srv' \in Answers(me, tap, srv) /\ done' \in {tap, None}
    BY <2>1, <2>3, OfferedIsTap, AnswersSound DEF Sound
  <2>4. QED
    BY <2>1, <2>2, <2>3
<1>2. CASE Elsewhere
  <2>1. OthersAct \/ ServerActs
    BY <1>2 DEF Elsewhere
  <2>2. CASE OthersAct
    BY <1>2, <2>2, TapTyped, AnswersSound DEF OthersAct, Sound, Elsewhere
  <2>3. CASE ServerActs
    BY <1>2, <2>3, MoneySound DEF ServerActs, Sound, Elsewhere
  <2>4. QED
    BY <2>1, <2>2, <2>3
<1>3. QED
  BY <1>1, <1>2 DEF Next

LEMMA ScreensStep ==
    ASSUME Inv, Next
    PROVE  /\ page' \in PageState /\ PageHolds' /\ PhoneOK' /\ PhoneHolds'
           /\ device' = device /\ behind' \in 0 .. MaxBehind
<1> USE DEF Inv, TypeOK
<1>1. srv'.trip = srv.trip /\ me' = me
  BY ServerStep
<1>2. device' = device /\ behind' \in 0 .. MaxBehind
  BY ScreensAssumption DEF Next, Here, Elsewhere
<1>3. CASE device = "web" /\ WebNext /\ UNCHANGED phone
  <2>1. PhoneOK' /\ PhoneHolds'
    BY <1>1, <1>3 DEF PhoneOK, PhoneHolds
  <2>2. /\ page' \in PageState
        /\ page'.view \in {page.view, None, Show(me, srv)}
        /\ page'.rows \in {page.rows, None, srv.rows}
    BY <1>3, PageStep
  <2>3. Showable(Show(me, srv)) /\ srv.rows \in BoundedSeq(Row, MaxRows)
    BY ShowIs, Fields DEF Consistent, RowSeqs
  <2>4. PageHolds'
    BY <2>2, <2>3 DEF PageHolds
  <2>5. QED
    BY <1>2, <2>1, <2>2, <2>4
<1>4. CASE device = "phone" /\ PhoneNext /\ UNCHANGED page
  <2>1. page' \in PageState /\ PageHolds'
    BY <1>4 DEF PageHolds
  <2>2. /\ SameScreen
        /\ phone'.entry \in {phone.entry, Answered(phone.screen, me, srv, phone.entry)}
    BY <1>4, PhoneStep
  <2>3. PhoneOK'
    BY <2>2, AnsweredTyped DEF PhoneOK, SameScreen
  <2>4. PhoneHolds'
    <3>1. /\ phone' = [screen |-> phone'.screen, entry |-> phone'.entry, due |-> phone'.due,
                       paying |-> phone'.paying]
          /\ phone'.screen = phone.screen
      BY <2>2 DEF SameScreen
    <3>2. (phone.screen = "detail" /\ phone'.entry # None) => Showable(phone'.entry)
      BY <2>2, AnsweredTyped DEF PhoneOK, PhoneHolds
    <3>3. (phone.screen = "mine" /\ phone'.entry # None) => NumberedMine(phone'.entry)
      BY <2>2, AnsweredTyped DEF PhoneOK, PhoneHolds
    <3>4. (phone.screen = "requests" /\ phone'.entry # None) => srv.trip /\ me = Owner
      BY <2>2, AnsweredTyped DEF PhoneOK, PhoneHolds
    <3>5. QED
      BY <3>1, <3>2, <3>3, <3>4, <1>1 DEF PhoneHolds
  <2>5. QED
    BY <1>2, <2>1, <2>3, <2>4
<1>5. CASE Elsewhere
  BY <1>1, <1>2, <1>5 DEF Elsewhere, PageHolds, PhoneOK, PhoneHolds
<1>6. QED
  BY <1>3, <1>4, <1>5 DEF Next, Here

(* Nothing is asked of a screen whose person has not just done something.   *)
LEMMA DoneHere ==
    ASSUME Inv, Next, done' # None
    PROVE  /\ Here
           /\ \/ srv' = srv /\ done' = done
              \/ \E tap \in Offered : srv' \in Answers(me, tap, srv) /\ done' = tap
<1> USE DEF Inv, TypeOK
<1>1. Here
  BY DEF Next, Elsewhere
<1>2. \/ srv' = srv /\ done' \in {done, None}
      \/ srv' \in Verify(me, srv) /\ done' = None
      \/ \E tap \in Offered : srv' \in Answers(me, tap, srv) /\ done' \in {tap, None}
  BY <1>1, PageStep, PhoneStep DEF Here, Offered
<1>3. QED
  BY <1>1, <1>2

LEMMA LeftStep ==
    ASSUME Inv, Next, done' # None
    PROVE  Left(me, done', srv')
<1>1. CASE srv' = srv /\ done' = done
  BY <1>1 DEF Inv, Followed
<1>2. CASE \E tap \in Offered : srv' \in Answers(me, tap, srv) /\ done' = tap
  BY <1>2, OfferedIsTap, AnswerLeaves DEF Inv, TypeOK
<1>3. QED
  BY <1>1, <1>2, DoneHere

LEMMA PageFollows ==
    ASSUME Inv, Next, done' # None, device = "web"
    PROVE  /\ page'.rows \in {None, srv'.rows}
           /\ (page'.at = "detail" /\ ~page'.busy /\ Sees(me, srv'))
                  => page'.view \in {None, Show(me, srv')}
<1> USE DEF Inv, TypeOK
<1>1. Here /\ WebNext
  BY DoneHere DEF Here
<1>2. CASE \E tap \in PageTaps : Press(tap)
  <2>1. NextPage(page')
    BY <1>2, PressIs
  <2>2. QED
    BY <2>1 DEF NextPage
<1>3. CASE OpenMission \/ LeaveMission \/ PayAtGateway \/ GiveUpAtGateway
  <2>1. NextPage(page')
    BY <1>3, NextPages DEF OpenMission, LeaveMission, PayAtGateway, GiveUpAtGateway, Places
  <2>2. QED
    BY <2>1 DEF NextPage
<1>4. CASE Read
  <2>1. srv' = srv /\ done' = done /\ page.rows \in {None, srv.rows} /\ page'.rows = page.rows
        /\ page'.at = page.at
    BY <1>4 DEF Read, Stay, Followed, PageState
  <2>2. (page.at = "detail" /\ Sees(me, srv)) => page'.view = Show(me, srv)
    BY <1>4 DEF Read, Readable, PageState
  <2>3. QED
    BY <2>1, <2>2
<1>5. CASE ReadFails
  BY <1>5 DEF ReadFails
<1>6. CASE Retry \/ Resolve
  <2>1. srv' = srv /\ done' = done /\ page.rows \in {None, srv.rows} /\ page'.rows = page.rows
        /\ page'.busy
    BY <1>6 DEF Retry, Resolve, Stay, Followed, PageState
  <2>2. QED
    BY <2>1
<1>7. CASE ReadRows
  <2>1. srv' = srv /\ done' = done /\ page'.rows = srv.rows /\ page'.view = page.view
        /\ page'.at = page.at /\ page'.busy = page.busy
    BY <1>7 DEF ReadRows, Stay, PageState
  <2>2. QED
    BY <2>1 DEF Followed
<1>8. QED
  BY <1>1, <1>2, <1>3, <1>4, <1>5, <1>6, <1>7 DEF WebNext

(* What a screen does of its own is followed by its reading again, but for  *)
(* what DoneIsNotOffered leaves out.                                       *)
LEMMA MutationFetches ==
    ASSUME Inv, device = "phone", NEW tap \in PhoneTaps, PressHere(tap), done' = tap, tap # None,
           tap.op \notin OfferedAgain
    PROVE  phone'.due = TRUE
<1> USE DEF Inv, TypeOK
<1>1. phone = [screen |-> phone.screen, entry |-> phone.entry, due |-> phone.due,
               paying |-> phone.paying] /\ phone.due \in BOOLEAN
  BY DEF PhoneOK, PhoneHolds
<1>2. tap.op \notin {"pay", "edit", "extend", "dispute", "unpublish", "review", "request"}
  BY DEF OfferedAgain, Repeatable
<1>3. ASSUME NEW ops, NEW invalidated, Mutate(tap, ops, invalidated), phone.screen \in invalidated
      PROVE  phone'.due = TRUE
  BY <1>1, <1>3 DEF Mutate
<1>4. \E ops, invalidated : Mutate(tap, ops, invalidated) /\ phone.screen \in invalidated
  BY <1>2, PhoneOffered
     DEF PressHere, Mutate, useConfirmStart, useCompleteJob, useTransporterCancel,
         useClientCancel, useConfirmCompletion, useAcceptCounter, useCancelRequest,
         useSendTripRequest, useRespondRequest, useExtendReturnTrip, useUnpublishReturnTrip,
         useCreateReview, useCreateDispute, usePayJob
<1>5. QED
  BY <1>3, <1>4

LEMMA PhoneFollows ==
    ASSUME Inv, Next, done' # None, device = "phone",
           done'.op \notin OfferedAgain, ~phone'.due, Sees(me, srv')
    PROVE  phone'.entry = Answered(phone'.screen, me, srv', phone'.entry)
<1> USE DEF Inv, TypeOK
<1>1. Here /\ PhoneNext
  BY DoneHere DEF Here
<1>2. phone = [screen |-> phone.screen, entry |-> phone.entry, due |-> phone.due,
               paying |-> phone.paying]
  BY DEF PhoneHolds
<1>3. CASE Fetch
  <2>1. /\ srv' = srv /\ phone'.screen = phone.screen
        /\ phone'.entry = Answered(phone.screen, me, srv, phone.entry)
    BY <1>2, <1>3 DEF Fetch
  <2>2. Answered(phone.screen, me, srv, phone'.entry) = phone'.entry
    BY <2>1 DEF Answered, PhoneOK, Screens, ClientScreens, TransporterScreens
  <2>3. QED
    BY <2>1, <2>2
<1>4. CASE \E tap \in PhoneTaps : PressHere(tap)
  <2>1. PICK tap \in PhoneTaps : PressHere(tap)
    BY <1>4
  <2>2. done' = tap /\ tap # None /\ tap.op \notin OfferedAgain
    BY <2>1, PressHereIs
  <2>3. phone'.due = TRUE
    BY <2>1, <2>2, MutationFetches
  <2>4. QED
    BY <2>3
<1>5. CASE useDeepLinkRouting
  BY <1>5 DEF useDeepLinkRouting
<1>6. CASE PaymentLeft
  <2>1. /\ srv' = srv /\ done' = done /\ phone'.screen = phone.screen
        /\ phone'.entry = phone.entry /\ phone'.due = phone.due
    BY <1>2, <1>6 DEF PaymentLeft
  <2>2. QED
    BY <2>1 DEF Followed
<1>7. QED
  BY <1>1, <1>3, <1>4, <1>5, <1>6 DEF PhoneNext

-----------------------------------------------------------------------------
(* The invariant is one.                                                   *)

LEMMA InitInv == ASSUME Init PROVE Inv
<1>1. PICK trip \in BOOLEAN, instant \in BOOLEAN : srv = Published(trip, instant)
  BY DEF Init
<1>2. /\ srv.trip = trip /\ srv.instant = instant /\ srv.status = "PUBLISHED"
      /\ srv.rows = <<>> /\ srv.carrier = None /\ srv.engaged = FALSE /\ srv.method = "none"
      /\ srv.link = "none" /\ srv.steps = 0 /\ srv.wrote = {} /\ srv.disputed = FALSE
  BY <1>1 DEF Published
<1>3. srv \in Mission
  <2>1. <<>> \in BoundedSeq(Row, MaxRows)
    BY NoRows DEF RowSeqs
  <2>2. QED
    BY <1>1, <2>1 DEF Published, Mission, Statuses
<1>4. Consistent(srv)
  BY <1>2, <1>3 DEF Consistent, Booked, UnderWay, Carried, Funded, Answerable
<1>5. page \in PageState /\ PageHolds
  BY DEF Init, WebInit, Away, PageState, Places, PageHolds
<1>6. /\ phone = [screen |-> phone.screen, entry |-> None, due |-> FALSE, paying |-> FALSE]
      /\ phone.screen \in Screens
  <2>1. CASE phone = NoPhone
    BY <2>1 DEF NoPhone, Screens, ClientScreens
  <2>2. CASE PhoneInit
    BY <2>2 DEF PhoneInit, Screens
  <2>3. QED
    BY <2>1, <2>2 DEF Init
<1>7. PhoneOK /\ PhoneHolds
  <2>1. None \in Entries(phone.screen)
    BY DEF Entries
  <2>2. phone.entry = None /\ phone.due = FALSE /\ phone.paying = FALSE
    BY <1>6
  <2>3. PhoneOK
    BY <1>6, <2>1, <2>2 DEF PhoneOK
  <2>4. QED
    BY <1>6, <2>2, <2>3 DEF PhoneHolds
<1>8. TypeOK
  BY <1>3, <1>5, <1>7, ScreensAssumption DEF Init, TypeOK
<1>9. QED
  BY <1>4, <1>5, <1>7, <1>8 DEF Inv, Followed, Init

LEMMA FollowedStep == ASSUME Inv, Next PROVE Followed'
<1>1. device' = device /\ me' = me
  BY ScreensStep, ServerStep
<1>2. ASSUME done' # None
      PROVE  Left(me', done', srv')
  BY <1>1, <1>2, LeftStep
<1>3. ASSUME done' # None, device' = "web"
      PROVE  /\ page'.rows \in {None, srv'.rows}
             /\ (page'.at = "detail" /\ ~page'.busy /\ Sees(me', srv'))
                    => page'.view \in {None, Show(me', srv')}
  BY <1>1, <1>3, PageFollows
<1>4. ASSUME done' # None, device' = "phone", done'.op \notin OfferedAgain', ~phone'.due,
             Sees(me', srv')
      PROVE  phone'.entry = Answered(phone'.screen, me', srv', phone'.entry)
  <2>1. done'.op \notin OfferedAgain
    BY <1>1, <1>4 DEF OfferedAgain
  <2>2. QED
    BY <1>1, <1>4, <2>1, PhoneFollows
<1>5. QED
  BY <1>2, <1>3, <1>4 DEF Followed

LEMMA InvStep == ASSUME Inv, [Next]_vars PROVE Inv'
<1>1. CASE Next
  <2>1. me' \in Persons /\ srv' \in Mission /\ device' \in {"web", "phone"}
    BY <1>1, ServerStep, ScreensStep DEF Inv, TypeOK, Consistent
  <2>2. TypeOK'
    BY <1>1, <2>1, ServerStep, ScreensStep DEF TypeOK
  <2>3. Consistent(srv')
    BY <1>1, ServerStep
  <2>4. PageHolds' /\ PhoneHolds'
    BY <1>1, ScreensStep
  <2>5. QED
    BY <1>1, <2>2, <2>3, <2>4, FollowedStep DEF Inv
<1>2. CASE UNCHANGED vars
  BY <1>2 DEF vars, Inv, TypeOK, PageHolds, PhoneHolds, PhoneOK, Followed, OfferedAgain
<1>3. QED
  BY <1>1, <1>2

(* Whatever the person does on either screen, and whatever others do, the   *)
(* mission stays consistent, a screen holds what some mission shows, and    *)
(* one that has been read again holds what the last tap has left behind.    *)
THEOREM Invariance == Spec => []Inv
<1>1. Init => Inv
  BY InitInv
<1>2. Inv /\ [Next]_vars => Inv'
  BY InvStep
<1>3. QED
  BY <1>1, <1>2, PTL DEF Spec

-----------------------------------------------------------------------------
(* The theorems.                                                           *)

(* No request of anybody, in any order, leaves a mission whose carrier,     *)
(* method of payment, money and bids contradict one another: it is carried   *)
(* exactly while it is under way, by its owner or one of its bidders; money *)
(* is asked for while it is matched and held from its start; no bid is left *)
(* pending on a mission that is taken (logistics/views, payments/views.py). *)
THEOREM MissionConsistent == Spec => []Consistent(srv)
BY Invariance, PTL DEF Inv

(* Every variable keeps its type: the mission stays one the server can      *)
(* store, and a screen shows no mission, bid or request there could not be. *)
THEOREM MissionScreenTypes == Spec => []TypeOK
BY Invariance, PTL DEF Inv

(* The permission to act on a mission under way is never wider than the     *)
(* permission to read it (serializers, participants.py, get_queryset).      *)
THEOREM ActorsMayLook == Spec => []WhoMayActMayLook
<1>1. Inv => WhoMayActMayLook
  BY ActingIsSeeing DEF Inv, WhoMayActMayLook
<1>2. QED
  BY <1>1, Invariance, PTL

(* A button on a screen that has just been read is taken up by the server,  *)
(* but for the refusals KnownRefusal lists.                                *)
THEOREM OffersAreAccepted == Spec => []OfferedIsAccepted
<1>1. ASSUME Inv, NEW p \in Persons,
             NEW tap \in IF device = "web" THEN WebOffers(p, srv) ELSE PhoneOffers(p, srv)
      PROVE  TakenUp(p, tap, srv)
  <2>1. Consistent(srv) /\ device \in {"web", "phone"}
    BY <1>1 DEF Inv, TypeOK
  <2>2. CASE device = "web"
    <3>1. tap \in DetailTaps(srv, p, Show(p, srv), srv.rows)
      BY <1>1, <2>2 DEF WebOffers
    <3>2. QED
      BY <2>1, <2>2, <3>1, PanelsTakenUp, RowPanelsTakenUp DEF DetailTaps
  <2>3. CASE device = "phone"
    BY <1>1, <2>1, <2>3, PhoneTakenUp
  <2>4. QED
    BY <2>1, <2>2, <2>3
<1>2. Inv => OfferedIsAccepted
  BY <1>1 DEF OfferedIsAccepted, TakenUp
<1>3. QED
  BY <1>2, Invariance, PTL

(* No mission under way waits for a button nobody's screen has.             *)
THEOREM NobodyIsStuck == Spec => []NoDeadEnd
<1>1. Inv => NoDeadEnd
  BY SomebodyGoesOn DEF Inv, NoDeadEnd
<1>2. QED
  BY <1>1, Invariance, PTL

(* A screen out of date takes no mission on by a step of another stage.     *)
THEOREM StaleStepsRefused == Spec => []StaleStepIsRefused
<1>1. ASSUME Inv, NEW tap \in Offered, tap.op \in {"pay", "start", "deliver", "confirm"},
             page.at # "book", Answers(me, tap, srv) # {}
      PROVE  Shown = srv.status
  <2>1. /\ tap.op \in {"pay", "start"} => srv.status = "MATCHED"
        /\ tap.op = "deliver" => srv.status = "IN_PROGRESS"
        /\ tap.op = "confirm" => srv.status = "COMPLETED"
    BY <1>1, AnswersAre DEF Initiate, ConfirmStart, Complete, ConfirmCompletion, If
  <2>2. CASE device = "web"
    <3>1. tap \in PageTaps /\ page \in PageState /\ PageHolds
      BY <1>1, <2>2 DEF Offered, Inv, TypeOK
    <3>2. CASE page.at = "detail" /\ tap \in DetailTaps(srv, me, page.view, page.rows)
      <4>1. /\ tap.op \in {"pay", "start"} => page.view.status = "MATCHED"
            /\ tap.op = "deliver" => page.view.status = "IN_PROGRESS"
            /\ tap.op = "confirm" => page.view.status = "COMPLETED"
        BY <3>1, <3>2, PageOffers, DetailOffers DEF Showable
      <4>2. QED
        BY <1>1, <2>1, <2>2, <4>1 DEF Shown
    <3>3. CASE page.at = "reservation" /\ tap.op = "pay"
      BY <2>1, <2>2, <3>1, <3>3, PageOffers DEF Showable, Shown
    <3>4. QED
      BY <1>1, <3>1, <3>2, <3>3, PageOffers
  <2>3. CASE device = "phone"
    <3>1. tap \in PhoneTaps /\ PhoneOK /\ PhoneHolds /\ device # "web"
      BY <1>1, <2>3 DEF Offered, Inv, TypeOK
    <3>2. \/ /\ phone.screen # "missions"
             /\ tap.op = "pay" => phone.entry.status = "MATCHED"
             /\ tap.op = "confirm" => phone.entry.status = "COMPLETED"
             /\ tap.op \notin {"start", "deliver"}
          \/ /\ phone.screen = "missions"
             /\ tap.op = "start" => phone.entry = "MATCHED"
             /\ tap.op = "deliver" => phone.entry = "IN_PROGRESS"
             /\ tap.op \notin {"pay", "confirm"}
      BY <3>1, PhoneOffered
    <3>3. QED
      BY <1>1, <2>1, <3>1, <3>2 DEF Shown
  <2>4. QED
    BY <1>1, <2>2, <2>3 DEF Inv, TypeOK
<1>2. Inv => StaleStepIsRefused
  BY <1>1 DEF StaleStepIsRefused
<1>3. QED
  BY <1>2, Invariance, PTL

LEMMA DoneGoneFromPage ==
    ASSUME Inv, device = "web", done # None, done.op \notin OfferedAgain, Sees(me, srv)
    PROVE  done \notin PageTaps
<1> SUFFICES ASSUME done \in PageTaps PROVE FALSE
  OBVIOUS
<1> USE DEF Inv, TypeOK
<1> DEFINE v == page.view
<1>1. Left(me, done, srv) /\ srv \in Mission
  BY DEF Followed, Consistent
<1>2. done.op \notin {"pay", "edit", "extend", "dispute"}
  BY DEF OfferedAgain, Repeatable
<1>3. /\ page.at = "detail" /\ ~page.busy /\ v \in View /\ v # None /\ NumberedMine(v.mine)
      /\ done \in DetailTaps(srv, me, v, page.rows)
      /\ page.rows # None => page.rows \in RowSeqs
  BY <1>2, PageOffers DEF Showable
<1>4. v = Show(me, srv) /\ page.rows \in {None, srv.rows}
  BY <1>3 DEF Followed
<1>5. /\ v.status = srv.status /\ v.mine = Mine(me, srv) /\ v.carrier = srv.carrier
      /\ v.steps = srv.steps /\ v.released = (srv.link = "RELEASED")
      /\ v.reviewed = (me \in srv.wrote)
  BY <1>4, ShownFields
<1> HIDE DEF v
<1>6. CASE done.op \in {"cancelJob", "bookDigital", "bookCash", "unpublish", "start", "arrived",
                        "loaded", "deliver", "leave", "confirm", "review", "clientCancel",
                        "extend", "verify"}
  <2>1. /\ done.op \notin {"clientCancel", "extend", "verify"}
        /\ done.op = "cancelJob" => v.status \in {"PUBLISHED", "MATCHED"}
        /\ done.op \in {"bookDigital", "bookCash", "unpublish"} => v.status = "PUBLISHED"
        /\ done.op = "start" => v.status = "MATCHED"
        /\ done.op \in {"deliver", "leave"} => v.status = "IN_PROGRESS" /\ v.carrier = me
        /\ done.op = "arrived" => v.steps = 0
        /\ done.op = "loaded" => v.steps = 1
        /\ done.op = "confirm" => ~v.released
        /\ done.op = "review" => ~v.reviewed
    BY <1>3, DetailOffers
  <2>2. me # None
    BY PeopleDiffer
  <2>3. CASE done.op \in {"cancelJob", "bookDigital", "bookCash", "unpublish", "start"}
    BY <1>1, <1>5, <2>1, <2>3 DEF Left
  <2>4. CASE done.op \in {"arrived", "loaded", "deliver", "leave"}
    BY <1>1, <1>5, <2>1, <2>2, <2>4 DEF Left
  <2>5. CASE done.op = "confirm"
    <3>1. srv.link = "RELEASED" /\ ~v.released
      BY <1>1, <2>1, <2>5 DEF Left
    <3>2. QED
      BY <1>5, <3>1
  <2>6. CASE done.op = "review"
    <3>1. me \in srv.wrote /\ ~v.reviewed
      BY <1>1, <2>1, <2>6 DEF Left
    <3>2. QED
      BY <1>5, <3>1
  <2>7. QED
    BY <1>6, <2>1, <2>3, <2>4, <2>5, <2>6
<1>7. CASE done.op = "offer"
  <2>1. RowsOf(srv, me) # {} /\ Mine(me, srv) = NoRow
    BY <1>1, <1>3, <1>5, <1>7, DetailOffers DEF Left
  <2>2. QED
    BY <1>1, <2>1, MineIs DEF NoRow, RowStatuses
<1>8. CASE done.op = "request"
  BY <1>1, <1>3, <1>5, <1>8, DetailOffers DEF Left, Open
<1>9. CASE done.op \in {"acceptCounter", "withdrawRequest", "withdrawOffer"}
  <2>1. /\ done.k = Mine(me, srv).k
        /\ done.op = "acceptCounter" => Mine(me, srv).status = "COUNTERED"
        /\ done.op = "withdrawRequest" => Mine(me, srv).status \in Open
        /\ done.op = "withdrawOffer" => Mine(me, srv).status = "PENDING"
    BY <1>3, <1>5, DetailOffers, <1>9
  <2>2. At(srv, done.k, Mine(me, srv).status)
    BY <1>1, <1>9, <2>1, MineRow DEF Open
  <2>3. QED
    BY <1>1, <1>9, <2>1, <2>2 DEF Left, At, Open
<1>10. CASE done.op \in {"acceptDigital", "acceptCash", "acceptRequest", "rejectRequest",
                         "counterRequest"}
  <2>1. srv.rows[done.k].status = "PENDING"
    BY <1>3, <1>4, <1>10, DetailOffers
  <2>2. QED
    BY <1>1, <1>10, <2>1 DEF Left, At
<1>11. done.op \in Ops
  BY <1>3, DetailOffers, TapTyped
<1>12. QED
  BY <1>2, <1>6, <1>7, <1>8, <1>9, <1>10, <1>11 DEF Ops, RowOps, PlainOps

LEMMA DoneGoneFromPhone ==
    ASSUME Inv, device = "phone", done # None, done.op \notin OfferedAgain, ~phone.due,
           Sees(me, srv)
    PROVE  done \notin PhoneTaps
<1> SUFFICES ASSUME done \in PhoneTaps PROVE FALSE
  OBVIOUS
<1> USE DEF Inv, TypeOK
<1>1. Left(me, done, srv) /\ srv \in Mission
  BY DEF Followed, Consistent
<1>2. done.op \notin {"pay", "edit", "extend", "dispute", "unpublish", "review", "request"}
  BY DEF OfferedAgain, Repeatable
<1>3. phone.entry = Answered(phone.screen, me, srv, phone.entry)
  BY DEF Followed
<1>4. PhoneOK /\ PhoneHolds
  OBVIOUS
<1>5. CASE phone.screen = "detail"
  <2>1. phone.entry = Show(me, srv)
    BY <1>3, <1>5 DEF Answered
  <2>2. phone.entry.status = srv.status /\ phone.entry.released = (srv.link = "RELEASED")
    BY <2>1, ShownFields
  <2>3. \/ done.op = "confirm" /\ ~phone.entry.released
        \/ done.op = "clientCancel" /\ phone.entry.status \in {"MATCHED", "IN_PROGRESS"}
    BY <1>2, <1>4, <1>5, PhoneOffered
  <2>4. QED
    BY <1>1, <2>2, <2>3 DEF Left
<1>6. CASE phone.screen = "mine"
  <2>1. phone.entry = IF srv.trip THEN Mine(me, srv) ELSE NoRow
    BY <1>3, <1>6 DEF Answered
  <2>2. /\ done.k = phone.entry.k
        /\ \/ done.op = "acceptCounter" /\ phone.entry.status = "COUNTERED"
           \/ done.op = "withdrawRequest" /\ phone.entry.status \in Open
    BY <1>4, <1>6, PhoneOffered
  <2>3. phone.entry = Mine(me, srv)
    BY <2>1, <2>2 DEF NoRow, Open
  <2>4. At(srv, done.k, Mine(me, srv).status)
    BY <1>1, <2>2, <2>3, MineRow DEF Open
  <2>5. QED
    BY <1>1, <2>2, <2>3, <2>4 DEF Left, At, Open
<1>7. CASE phone.screen = "missions"
  <2>1. phone.entry = Among({"MATCHED", "IN_PROGRESS"},
                            IF srv.carrier = me THEN srv.status ELSE "absent")
    BY <1>3, <1>7 DEF Answered
  <2>2. \/ done.op = "start" /\ phone.entry = "MATCHED"
        \/ done.op = "deliver" /\ phone.entry = "IN_PROGRESS"
        \/ done.op = "leave" /\ phone.entry \in {"MATCHED", "IN_PROGRESS"}
    BY <1>2, <1>4, <1>7, PhoneOffered
  <2>3. srv.carrier = me /\ phone.entry = srv.status
    BY <2>1, <2>2 DEF Among
  <2>4. QED
    BY <1>1, <2>2, <2>3, PeopleDiffer DEF Left
<1>8. CASE phone.screen = "requests"
  <2>1. /\ phone.entry # None
        /\ done.op \in {"acceptRequest", "rejectRequest", "counterRequest"}
        /\ phone.entry[done.k].status = "PENDING"
    BY <1>4, <1>8, PhoneOffered
  <2>2. phone.entry = srv.rows
    BY <1>3, <1>4, <1>8, <2>1 DEF Answered, PhoneHolds
  <2>3. QED
    BY <1>1, <2>1, <2>2 DEF Left, At
<1>9. CASE phone.screen \in {"search", "completed", "trips"}
  BY <1>2, <1>4, <1>9, PhoneOffered
<1>10. QED
  BY <1>4, <1>5, <1>6, <1>7, <1>8, <1>9
     DEF PhoneOK, Screens, ClientScreens, TransporterScreens

(* What this person knows to be done is not offered again by a screen that  *)
(* has been read again, but for what OfferedAgain leaves out.               *)
THEOREM DoneNotOffered == Spec => []DoneIsNotOffered
<1>1. ASSUME Inv, done # None, done.op \notin OfferedAgain, ~phone.due, Sees(me, srv)
      PROVE  done \notin Offered
  BY <1>1, DoneGoneFromPage, DoneGoneFromPhone DEF Offered, Inv, TypeOK
<1>2. Inv => DoneIsNotOffered
  BY <1>1 DEF DoneIsNotOffered
<1>3. QED
  BY <1>2, Invariance, PTL

(* A button pressed twice does nothing twice: what the first press left     *)
(* makes the server refuse the second (If, At and the guards of each view). *)
THEOREM RetriesRefused == Spec => RetryIsRefused
<1>1. ASSUME Inv, srv' # srv, NEW tap \in Offered,
             tap.op \notin Repeatable, srv' \in Answers(me, tap, srv)
      PROVE  Answers(me, tap, srv') = {}
  <2>1. tap.op \in Ops \ Repeatable /\ me \in Persons /\ Consistent(srv)
    BY <1>1, OfferedIsTap DEF Inv, TypeOK
  <2>2. Left(me, tap, srv') /\ srv' \in Mission
    BY <1>1, <2>1, AnswerLeaves, AnswersSound DEF Sound, Consistent
  <2>3. QED
    BY <2>1, <2>2, LeftIsRefused
<1>2. Inv => (srv' # srv =>
                 \A tap \in Offered :
                     (tap.op \notin Repeatable /\ srv' \in Answers(me, tap, srv))
                         => Answers(me, tap, srv') = {})
  BY <1>1
<1>3. QED
  BY <1>2, Invariance, PTL DEF RetryIsRefused
=============================================================================
