----------------------------- MODULE ListProofs -----------------------------
(***************************************************************************)
(* Theorems about ListScreens for any number of rows and of readings under  *)
(* way at once.                                                            *)
(*                                                                         *)
(* What is on a screen is right or about to be corrected: among the         *)
(* readings on their way the last that is not overtaken is answered with    *)
(* what the server holds (WireGood), and once none is on its way the rows   *)
(* are what the server holds but where an act has not been told yet         *)
(* (RowFits).  Of the tables it is used only what ListTables proves of      *)
(* every page: that they are closed, careful, counted, forward and suited.  *)
(***************************************************************************)
EXTENDS ListTables, SequenceTheorems

(* What a row is to be, for an item the server has in status s.             *)
Fit(pg, c, s) == IF pg.reads.server /\ s \notin pg.shows[c] THEN Absent ELSE s

(* Only a page that filters on the server has rows it was not sent.         *)
Rows(pg) == DOMAIN pg.moves \cup {Twice} \cup {x \in {Absent} : pg.reads.server}
Readings(pg) ==
    [crit : DOMAIN pg.shows, snap : {None} \cup [Items -> Rows(pg)], behind : SUBSET Items,
     late : BOOLEAN]

(* The act on its way on one item.                                         *)
Hopes(pg, x) == x.act # None /\ pg.acts[x.act].after = "hope"

Called(pg, x) ==
    /\ x = [act |-> x.act, saw |-> x.saw, under |-> x.under, got |-> x.got, res |-> x.res]
    /\ x.act \in DOMAIN pg.acts /\ ~pg.acts[x.act].mute
    /\ x.saw \in DOMAIN pg.moves
    /\ x.under \in DOMAIN pg.shows \cup {None}
    /\ x.got \in {"sent", "tested", "done", "failed"}
    /\ x.got = "sent" => x.res = None
    /\ x.got = "tested" => ~pg.acts[x.act].locks
    /\ x.got \in {"tested", "done"} => \E s \in DOMAIN pg.moves : x.res \in pg.serves[x.act][s]

Asked(pg, b) ==
    /\ b.item \in Items /\ b.act \in DOMAIN pg.acts /\ b.saw \in DOMAIN pg.moves
    /\ pg.acts[b.act].asks

(* What a reading says of item i, in status s, is right, or known not to be; *)
(* and the last reading not overtaken is right.                            *)
Tells(pg, r, i, s) == r.snap = None \/ i \in r.behind \/ r.snap[i] = Fit(pg, r.crit, s)
WireGood(pg, w, sv, cl) ==
    \A k \in DOMAIN w :
        \/ w[k].late
        \/ \E j \in DOMAIN w : k < j /\ ~w[j].late
        \/ \A i \in Items : cl[i].got = "done" \/ Tells(pg, w[k], i, sv[i])

(* The page that drops old answers has overtaken readings first.            *)
LateFirst(w) == \A j, k \in DOMAIN w : (j < k /\ ~w[j].late) => ~w[k].late
Last(w) == w[Len(w)]

(* No reading will be shown any more.                                      *)
Settled(pg, w) == w = <<>> \/ (pg.reads.drops /\ \A k \in DOMAIN w : w[k].late)

RowFits(pg, row, c, s, x, missing) ==
    \/ missing
    \/ row = Twice /\ ~Hopes(pg, x)
    \/ /\ Hopes(pg, x)
       /\ row \in pg.serves[x.act][x.saw]
       /\ s = IF x.got = "done" THEN row ELSE x.saw
    \/ ~Hopes(pg, x) /\ (x.got = "done" \/ row = Fit(pg, c, s))

-----------------------------------------------------------------------------

Types ==
    /\ scr \in DOMAIN Pages
    /\ srv \in [Items -> DOMAIN Page.moves]
    /\ crit \in DOMAIN Page.shows
    /\ rows \in [Items -> Rows(Page)] \cup {None}
    /\ call = [i \in Items |-> call[i]]
    /\ loading \in BOOLEAN /\ failed \in BOOLEAN /\ overtaken \in BOOLEAN
    /\ missed \subseteq Items
    /\ wire \in Seq(Readings(Page)) /\ Len(wire) <= MaxReads

CallsHold == \A i \in Items : call[i] = Idle \/ Called(Page, call[i])
BoxHolds == box # None => Asked(Page, box)
WireHolds == WireGood(Page, wire, srv, call)

DropsHold ==
    Page.reads.drops =>
        /\ ~overtaken
        /\ LateFirst(wire)
        /\ (Page.reads.server /\ wire # <<>> /\ ~Last(wire).late) => Last(wire).crit = crit

RowsHold ==
    Settled(Page, wire) =>
        \/ failed \/ overtaken
        \/ /\ rows # None
           /\ \A i \in Items : RowFits(Page, rows[i], crit, srv[i], call[i], i \in missed)

LoadingHolds ==
    /\ loading => wire # <<>> /\ (Page.reads.drops => ~Last(wire).late)
    /\ \A i \in Items : Hopes(Page, call[i]) => rows # None

Inv ==
    /\ Types /\ CallsHold /\ BoxHolds
    /\ WireHolds /\ DropsHold /\ RowsHold /\ LoadingHolds

-----------------------------------------------------------------------------
(* The tables.                                                             *)

LEMMA PageFacts ==
    ASSUME scr \in DOMAIN Pages
    PROVE  /\ Closed(Page) /\ Careful(Page) /\ Counted(scr)
           /\ None \notin Acts
           /\ \A s \in Statuses :
                  Page.moves[s] \subseteq Statuses /\ Page.offers[s] \subseteq Acts
           /\ \A a \in Acts, s \in Statuses : Page.serves[a][s] \subseteq Statuses
<1>1. Closed(Page) /\ Careful(Page) /\ Counted(scr)
  BY EveryPage DEF Page, Sound
<1>2. None \notin Acts
  BY ListAssumption DEF Acts, Page
<1>3. QED
  BY <1>1, <1>2 DEF Closed, Acts, Statuses

LEMMA NoRows ==
    ASSUME scr \in DOMAIN Pages
    PROVE  None \notin [Items -> Rows(Page)]
<1>1. Rows(Page) \subseteq DOMAIN Page.moves \cup {"absent", "twice"}
  BY DEF Rows, Absent, Twice
<1>2. None \notin [Items -> DOMAIN Page.moves \cup {"absent", "twice"}]
  BY ListAssumption DEF Page
<1>3. QED
  BY <1>1, <1>2

(* What becomes of an act.                                                 *)
LEMMA ActFacts ==
    ASSUME Careful(Page), NEW a \in Acts
    PROVE  /\ Page.reads.server \/ Page.reads.clears => Page.acts[a].after = "read"
           /\ Page.reads.drops =>
                  Page.acts[a].after \in {"read", "untold"} /\ ~Page.reads.server
           /\ Page.acts[a].mute => Page.acts[a].asks
           /\ Page.acts[a].after = "none" => Page.acts[a].mute
           /\ Page.acts[a].after = "hope" => ~Page.acts[a].asks
           /\ Page.acts[a].after \in {"read", "write", "untold", "add", "either", "hope", "none"}
BY DEF Careful, Acts

LEMMA OneOutcome ==
    ASSUME Careful(Page), NEW a \in Acts, Page.acts[a].after = "hope",
           NEW s \in Statuses, NEW t \in Statuses,
           NEW x \in Page.serves[a][s], NEW y \in Page.serves[a][t]
    PROVE  x = y
BY DEF Careful, Acts, Statuses

LEMMA SomeOutcome ==
    ASSUME Careful(Page), NEW a \in Acts, Page.acts[a].after = "hope",
           NEW s \in Statuses, a \in Page.offers[s]
    PROVE  Page.serves[a][s] # {}
BY DEF Careful, Acts, Statuses

LEMMA FitTyped ==
    ASSUME NEW pg, NEW c, NEW s \in DOMAIN pg.moves
    PROVE  Fit(pg, c, s) \in Rows(pg)
BY DEF Fit, Rows

LEMMA AnswerFits ==
    ASSUME NEW c
    PROVE  /\ DOMAIN Answer(c) = Items
           /\ \A i \in Items : Answer(c)[i] = Fit(Page, c, srv[i])
BY DEF Answer, Fit, Shown

-----------------------------------------------------------------------------
(* What the steps do to the readings on their way.                         *)

Removed(w, k) ==
    [j \in 1 .. Len(w) - 1 |-> IF j < k THEN [w[j] EXCEPT !.late = TRUE] ELSE w[j + 1]]
AllAged(w) ==
    [k \in DOMAIN w |-> IF w[k].snap = None THEN w[k] ELSE [w[k] EXCEPT !.late = TRUE]]
AllBehind(w, i) ==
    [k \in DOMAIN w |->
        IF w[k].snap = None THEN w[k] ELSE [w[k] EXCEPT !.behind = @ \cup {i}]]

LEMMA WireIs ==
    ASSUME NEW pg, NEW w \in Seq(Readings(pg))
    PROVE  /\ Len(w) \in Nat /\ DOMAIN w = 1 .. Len(w)
           /\ w # <<>> => Len(w) \in DOMAIN w
           /\ Len(w) = 0 => w = <<>>
           /\ \A k \in DOMAIN w : w[k] \in Readings(pg) /\ w[k].late \in BOOLEAN
<1>1. Len(w) \in Nat /\ DOMAIN w = 1 .. Len(w) /\ \A k \in 1 .. Len(w) : w[k] \in Readings(pg)
  BY LenProperties, ElementOfSeq
<1>2. w # <<>> => Len(w) # 0
  BY EmptySeq
<1>3. \A r \in Readings(pg) : r.late \in BOOLEAN
  BY DEF Readings
<1>4. QED
  BY <1>1, <1>2, <1>3

LEMMA MappedWire ==
    ASSUME NEW pg, NEW w \in Seq(Readings(pg)), NEW f \in [DOMAIN w -> Readings(pg)]
    PROVE  f \in Seq(Readings(pg)) /\ Len(f) = Len(w) /\ DOMAIN f = DOMAIN w
<1>1. Len(w) \in Nat /\ DOMAIN w = 1 .. Len(w)
  BY WireIs
<1>2. QED
  BY <1>1, SeqDef

(* A reading more is asked for.                                            *)
LEMMA WireAppended ==
    ASSUME NEW pg, NEW w \in Seq(Readings(pg)), NEW c \in DOMAIN pg.shows
    PROVE  LET v == Append(w, Reading(c))
           IN  /\ v \in Seq(Readings(pg)) /\ Len(v) = Len(w) + 1
               /\ v # <<>> /\ ~Last(v).late /\ Last(v).crit = c
               /\ \A sv, cl : WireGood(pg, v, sv, cl)
               /\ LateFirst(w) => LateFirst(v)
               /\ ~Settled(pg, v)
<1> DEFINE r == Reading(c)  v == Append(w, r)
<1>1. /\ r \in Readings(pg) /\ r.snap = None /\ ~r.late /\ r.crit = c
  BY DEF Reading, Readings
<1>2. Len(w) \in Nat /\ DOMAIN w = 1 .. Len(w)
  BY WireIs
<1> HIDE DEF r
<1>3. /\ v \in Seq(Readings(pg)) /\ Len(v) = Len(w) + 1
      /\ \A k \in 1 .. Len(w) : v[k] = w[k]
      /\ v[Len(w) + 1] = r
  BY <1>1, AppendProperties
<1> HIDE DEF v
<1>4. DOMAIN v = 1 .. Len(w) + 1
  BY <1>3, WireIs
<1>5. v # <<>> /\ Last(v) = r
  BY <1>2, <1>3, EmptySeq DEF Last
<1>6. ASSUME NEW sv, NEW cl, NEW k \in DOMAIN v
      PROVE  \/ v[k].late
             \/ \E j \in DOMAIN v : k < j /\ ~v[j].late
             \/ \A i \in Items : cl[i].got = "done" \/ Tells(pg, v[k], i, sv[i])
  <2>1. CASE k = Len(w) + 1
    BY <1>1, <1>3, <2>1 DEF Tells
  <2>2. CASE k # Len(w) + 1
    <3>1. k < Len(w) + 1 /\ Len(w) + 1 \in DOMAIN v
      BY <1>2, <1>4, <2>2
    <3>2. QED
      BY <1>1, <1>3, <3>1
  <2>3. QED
    BY <2>1, <2>2
<1>7. \A sv, cl : WireGood(pg, v, sv, cl)
  BY <1>6 DEF WireGood
<1>8. ASSUME LateFirst(w), NEW j \in DOMAIN v, NEW k \in DOMAIN v, j < k, ~v[j].late
      PROVE  ~v[k].late
  <2>1. j \in DOMAIN w /\ v[j] = w[j]
    BY <1>2, <1>3, <1>4, <1>8
  <2>2. CASE k = Len(w) + 1
    BY <1>1, <1>3, <2>2
  <2>3. CASE k # Len(w) + 1
    <3>1. k \in DOMAIN w /\ v[k] = w[k]
      BY <1>2, <1>3, <1>4, <2>3
    <3>2. QED
      BY <1>8, <2>1, <3>1 DEF LateFirst
  <2>4. QED
    BY <2>2, <2>3
<1>9. LateFirst(w) => LateFirst(v)
  BY <1>8 DEF LateFirst
<1>10. ~Settled(pg, v)
  <2>1. Len(w) + 1 \in DOMAIN v /\ ~v[Len(w) + 1].late
    BY <1>1, <1>2, <1>3, <1>4
  <2>2. QED
    BY <1>5, <2>1 DEF Settled
<1>11. v = Append(w, Reading(c))
  BY DEF v, r
<1>12. QED
  BY <1>1, <1>3, <1>5, <1>7, <1>9, <1>10, <1>11

(* One is answered, or fails: those before it are overtaken.                *)
LEMMA WireRemoved ==
    ASSUME NEW pg, NEW w \in Seq(Readings(pg)), NEW k \in DOMAIN w
    PROVE  LET v == Removed(w, k)
           IN  /\ v \in Seq(Readings(pg)) /\ Len(v) = Len(w) - 1 /\ DOMAIN v = 1 .. Len(w) - 1
               /\ \A j \in DOMAIN v : j < k => v[j].late
               /\ \A j \in DOMAIN v : j >= k => v[j] = w[j + 1] /\ j + 1 \in DOMAIN w
<1>1. Len(w) \in Nat /\ DOMAIN w = 1 .. Len(w) /\ \A j \in DOMAIN w : w[j] \in Readings(pg)
  BY WireIs
<1>2. Len(w) - 1 \in Nat
  BY <1>1
<1>3. \A r \in Readings(pg) : [r EXCEPT !.late = TRUE] \in Readings(pg)
                              /\ [r EXCEPT !.late = TRUE].late
  BY DEF Readings
<1>4. \A j \in 1 .. Len(w) - 1 : j \in DOMAIN w /\ j + 1 \in DOMAIN w
  BY <1>1
<1>5. Removed(w, k) \in [1 .. Len(w) - 1 -> Readings(pg)]
  BY <1>1, <1>3, <1>4 DEF Removed
<1>6. Removed(w, k) \in Seq(Readings(pg)) /\ Len(Removed(w, k)) = Len(w) - 1
  BY <1>2, <1>5, SeqDef
<1>7. DOMAIN Removed(w, k) = 1 .. Len(w) - 1
  BY DEF Removed
<1>8. \A j \in 1 .. Len(w) - 1 :
          Removed(w, k)[j] = IF j < k THEN [w[j] EXCEPT !.late = TRUE] ELSE w[j + 1]
  BY DEF Removed
<1>9. \A j \in 1 .. Len(w) - 1 : j < k => Removed(w, k)[j].late
  BY <1>1, <1>3, <1>4, <1>8
<1>10. ASSUME NEW j \in 1 .. Len(w) - 1, j >= k
       PROVE  Removed(w, k)[j] = w[j + 1]
  <2>1. k \in Int /\ j \in Int
    BY <1>1
  <2>2. ~(j < k)
    BY <1>10, <2>1
  <2>3. QED
    BY <1>8, <2>2
<1>11. QED
  BY <1>4, <1>6, <1>7, <1>9, <1>10

LEMMA RemovedGood ==
    ASSUME NEW pg, NEW w \in Seq(Readings(pg)), NEW k \in DOMAIN w, NEW sv, NEW cl,
           WireGood(pg, w, sv, cl)
    PROVE  WireGood(pg, Removed(w, k), sv, cl)
<1> DEFINE v == Removed(w, k)
<1>1. Len(w) \in Nat /\ DOMAIN w = 1 .. Len(w) /\ DOMAIN v = 1 .. Len(w) - 1
  BY WireIs, WireRemoved
<1>2. /\ \A j \in DOMAIN v : j < k => v[j].late
      /\ \A j \in DOMAIN v : j >= k => v[j] = w[j + 1] /\ j + 1 \in DOMAIN w
  BY WireRemoved
<1> HIDE DEF v
<1>3. ASSUME NEW l \in DOMAIN v, ~v[l].late
      PROVE  \/ \E j \in DOMAIN v : l < j /\ ~v[j].late
             \/ \A i \in Items : cl[i].got = "done" \/ Tells(pg, v[l], i, sv[i])
  <2>1. l >= k /\ v[l] = w[l + 1] /\ l + 1 \in DOMAIN w
    BY <1>1, <1>2, <1>3
  <2>2. CASE \E j \in DOMAIN w : l + 1 < j /\ ~w[j].late
    <3>1. PICK j \in DOMAIN w : l + 1 < j /\ ~w[j].late
      BY <2>2
    <3>2. j - 1 \in DOMAIN v /\ l < j - 1 /\ j - 1 >= k /\ (j - 1) + 1 = j
      BY <1>1, <2>1, <3>1
    <3>3. v[j - 1] = w[j]
      BY <1>2, <3>2
    <3>4. QED
      BY <3>1, <3>2, <3>3
  <2>3. CASE \A i \in Items : cl[i].got = "done" \/ Tells(pg, w[l + 1], i, sv[i])
    BY <2>1, <2>3
  <2>4. QED
    BY <1>3, <2>1, <2>2, <2>3 DEF WireGood
<1>4. QED
  BY <1>3 DEF WireGood, v

LEMMA RemovedLateFirst ==
    ASSUME NEW pg, NEW w \in Seq(Readings(pg)), NEW k \in DOMAIN w, LateFirst(w)
    PROVE  /\ LateFirst(Removed(w, k))
           /\ k < Len(w) => Last(Removed(w, k)) = Last(w) /\ Removed(w, k) # <<>>
           /\ k = Len(w) => \A j \in DOMAIN Removed(w, k) : Removed(w, k)[j].late
<1> DEFINE v == Removed(w, k)
<1>1. Len(w) \in Nat /\ DOMAIN w = 1 .. Len(w) /\ DOMAIN v = 1 .. Len(w) - 1
  BY WireIs, WireRemoved
<1>2. /\ \A j \in DOMAIN v : j < k => v[j].late
      /\ \A j \in DOMAIN v : j >= k => v[j] = w[j + 1] /\ j + 1 \in DOMAIN w
      /\ Len(v) = Len(w) - 1 /\ v \in Seq(Readings(pg))
  BY WireRemoved
<1> HIDE DEF v
<1>3. ASSUME NEW j \in DOMAIN v, NEW l \in DOMAIN v, j < l, ~v[j].late
      PROVE  ~v[l].late
  <2>1. j >= k /\ l >= k /\ j + 1 < l + 1
    BY <1>1, <1>2, <1>3
  <2>2. v[j] = w[j + 1] /\ v[l] = w[l + 1] /\ j + 1 \in DOMAIN w /\ l + 1 \in DOMAIN w
    BY <1>2, <2>1
  <2>3. QED
    BY <1>3, <2>1, <2>2 DEF LateFirst
<1>4. LateFirst(v)
  BY <1>3 DEF LateFirst
<1>5. ASSUME k < Len(w)
      PROVE  Last(v) = Last(w) /\ v # <<>>
  <2>1. Len(w) - 1 \in DOMAIN v /\ Len(w) - 1 >= k /\ (Len(w) - 1) + 1 = Len(w)
    BY <1>1, <1>5
  <2>2. v[Len(w) - 1] = w[Len(w)]
    BY <1>2, <2>1
  <2>3. v # <<>>
    BY <1>1, <2>1
  <2>4. QED
    BY <1>2, <2>2, <2>3 DEF Last
<1>6. k = Len(w) => \A j \in DOMAIN v : v[j].late
  BY <1>1, <1>2
<1>7. QED
  BY <1>1, <1>4, <1>5, <1>6 DEF v

(* The last answer, where no other follows, is overtaken or right.          *)
LEMMA LastWord ==
    ASSUME NEW pg, NEW w \in Seq(Readings(pg)), NEW k \in DOMAIN w, NEW sv, NEW cl,
           WireGood(pg, w, sv, cl), Settled(pg, Removed(w, k)),
           ~(pg.reads.drops /\ (k < Len(w) \/ w[k].late))
    PROVE  w[k].late \/ \A i \in Items : cl[i].got = "done" \/ Tells(pg, w[k], i, sv[i])
<1>1. /\ Len(w) \in Nat /\ DOMAIN w = 1 .. Len(w)
      /\ Removed(w, k) \in Seq(Readings(pg)) /\ Len(Removed(w, k)) = Len(w) - 1
  BY WireIs, WireRemoved
<1>2. CASE Removed(w, k) = <<>>
  <2>1. Len(Removed(w, k)) = 0
    <3>1. Len(<<>>) = 0
      OBVIOUS
    <3>2. QED
      BY <1>2, <3>1
  <2>2. Len(w) = 1
    <3>1. Len(w) \in Nat /\ Len(w) - 1 = 0
      BY <1>1, <2>1
    <3>2. QED
      BY <3>1
  <2>3. \A j \in DOMAIN w : ~(k < j)
    BY <1>1, <2>2
  <2>4. QED
    BY <2>3 DEF WireGood
<1>3. CASE pg.reads.drops
  <2>1. ~(k < Len(w))
    BY <1>3
  <2>2. \A j \in DOMAIN w : ~(k < j)
    BY <1>1, <2>1
  <2>3. QED
    BY <2>2 DEF WireGood
<1>4. QED
  BY <1>2, <1>3 DEF Settled

(* An answer that is dropped settles nothing that was not.                  *)
LEMMA DroppedSettled ==
    ASSUME NEW pg, NEW w \in Seq(Readings(pg)), NEW k \in DOMAIN w, LateFirst(w),
           pg.reads.drops, k < Len(w) \/ w[k].late, Settled(pg, Removed(w, k))
    PROVE  Settled(pg, w)
<1>1. Len(w) \in Nat /\ DOMAIN w = 1 .. Len(w) /\ \A j \in DOMAIN w : w[j].late \in BOOLEAN
  BY WireIs
<1>2. w[Len(w)].late
  <2>1. CASE k < Len(w)
    <3>1. Removed(w, k) # <<>> /\ Last(Removed(w, k)) = Last(w)
      BY <2>1, RemovedLateFirst
    <3>2. Len(Removed(w, k)) \in DOMAIN Removed(w, k)
      BY <3>1, WireRemoved, WireIs
    <3>3. Last(Removed(w, k)).late
      BY <3>1, <3>2 DEF Settled, Last
    <3>4. QED
      BY <3>1, <3>3 DEF Last
  <2>2. CASE ~(k < Len(w))
    BY <1>1, <2>2
  <2>3. QED
    BY <2>1, <2>2
<1>3. \A j \in DOMAIN w : j = Len(w) \/ (j < Len(w) /\ Len(w) \in DOMAIN w)
  BY <1>1
<1>4. \A j \in DOMAIN w : w[j].late
  BY <1>1, <1>2, <1>3 DEF LateFirst
<1>5. QED
  BY <1>4 DEF Settled

(* The readings are sound still when the k-th is answered with a.          *)
Served(pg, w, k, a, sv, cl) ==
    LET v == [w EXCEPT ![k].snap = a]
    IN  /\ v \in Seq(Readings(pg)) /\ Len(v) = Len(w)
        /\ \A j \in DOMAIN w : v[j].late = w[j].late /\ v[j].crit = w[j].crit
        /\ WireGood(pg, v, sv, cl)

(* An answer is worked out.                                                *)
LEMMA WireServed ==
    ASSUME NEW pg, NEW w \in Seq(Readings(pg)), NEW k \in DOMAIN w, w[k].snap = None,
           NEW a \in [Items -> Rows(pg)], NEW sv, NEW cl, WireGood(pg, w, sv, cl),
           \A i \in Items : a[i] = Fit(pg, w[k].crit, sv[i])
    PROVE  Served(pg, w, k, a, sv, cl)
<1> DEFINE r == [w[k] EXCEPT !.snap = a]  v == [w EXCEPT ![k] = r]
<1>1. w[k] \in Readings(pg)
  BY WireIs
<1>2. r \in Readings(pg) /\ r.late = w[k].late /\ r.crit = w[k].crit /\ r.snap = a
  BY <1>1 DEF Readings
<1>3. k \in 1 .. Len(w) /\ DOMAIN w = 1 .. Len(w)
  BY WireIs
<1>4. /\ v \in Seq(Readings(pg)) /\ Len(v) = Len(w)
      /\ \A j \in DOMAIN w : v[j] = IF j = k THEN r ELSE w[j]
  BY <1>2, <1>3, ExceptSeq
<1>5. DOMAIN v = DOMAIN w
  BY <1>3, <1>4, WireIs
<1>6. [w EXCEPT ![k].snap = a] = v
  OBVIOUS
<1> HIDE DEF r, v
<1>7. \A j \in DOMAIN w : v[j].late = w[j].late /\ v[j].crit = w[j].crit
  BY <1>2, <1>4
<1>8. \A i \in Items : Tells(pg, v[k], i, sv[i])
  BY <1>2, <1>4 DEF Tells
<1>9. WireGood(pg, v, sv, cl)
  BY <1>4, <1>5, <1>7, <1>8 DEF WireGood
<1>10. QED
  BY <1>4, <1>6, <1>7, <1>9 DEF Served

(* What is written makes the answers worked out before it old.              *)
LEMMA WireAged ==
    ASSUME NEW pg, NEW w \in Seq(Readings(pg))
    PROVE  /\ AllAged(w) \in Seq(Readings(pg)) /\ Len(AllAged(w)) = Len(w)
           /\ \A sv, cl : WireGood(pg, AllAged(w), sv, cl)
           /\ AllAged(w) = <<>> <=> w = <<>>
<1>1. \A k \in DOMAIN w : w[k] \in Readings(pg)
  BY WireIs
<1>2. \A r \in Readings(pg) : [r EXCEPT !.late = TRUE] \in Readings(pg)
                              /\ [r EXCEPT !.late = TRUE].late
  BY DEF Readings
<1>3. AllAged(w) \in [DOMAIN w -> Readings(pg)]
  BY <1>1, <1>2 DEF AllAged
<1>4. /\ AllAged(w) \in Seq(Readings(pg))
      /\ Len(AllAged(w)) = Len(w) /\ DOMAIN AllAged(w) = DOMAIN w
  BY <1>3, MappedWire
<1>5. \A k \in DOMAIN w : AllAged(w)[k].late \/ AllAged(w)[k].snap = None
  BY <1>1, <1>2 DEF AllAged
<1>6. \A sv, cl : WireGood(pg, AllAged(w), sv, cl)
  BY <1>4, <1>5 DEF WireGood, Tells
<1>7. AllAged(w) = <<>> <=> w = <<>>
  BY <1>4, EmptySeq
<1>8. QED
  BY <1>4, <1>6, <1>7

(* What is changed elsewhere is missing from the answers before it.         *)
LEMMA WireBehind ==
    ASSUME NEW pg, NEW w \in Seq(Readings(pg)), NEW i \in Items, NEW sv, NEW cl,
           WireGood(pg, w, sv, cl), NEW sv2, NEW cl2,
           \A l \in Items : l # i =>
               sv2[l] = sv[l] /\ (cl[l].got = "done" => cl2[l].got = "done")
    PROVE  LET v == AllBehind(w, i)
           IN  /\ v \in Seq(Readings(pg)) /\ Len(v) = Len(w) /\ DOMAIN v = DOMAIN w
               /\ \A j \in DOMAIN w : v[j].late = w[j].late /\ v[j].crit = w[j].crit
               /\ WireGood(pg, v, sv2, cl2)
<1> DEFINE v == AllBehind(w, i)
<1>1. \A k \in DOMAIN w : w[k] \in Readings(pg)
  BY WireIs
<1>2. \A r \in Readings(pg) :
          LET q == [r EXCEPT !.behind = @ \cup {i}]
          IN  /\ q \in Readings(pg) /\ q.late = r.late /\ q.crit = r.crit /\ q.snap = r.snap
              /\ i \in q.behind /\ r.behind \subseteq q.behind
  BY DEF Readings
<1>3. v \in [DOMAIN w -> Readings(pg)]
  BY <1>1, <1>2 DEF AllBehind
<1>4. v \in Seq(Readings(pg)) /\ Len(v) = Len(w) /\ DOMAIN v = DOMAIN w
  BY <1>3, MappedWire
<1>5. \A j \in DOMAIN w :
          /\ v[j].late = w[j].late /\ v[j].crit = w[j].crit /\ v[j].snap = w[j].snap
          /\ v[j].snap = None \/ i \in v[j].behind
          /\ w[j].behind \subseteq v[j].behind
  BY <1>1, <1>2 DEF AllBehind
<1> HIDE DEF v
<1>6. ASSUME NEW k \in DOMAIN w, NEW l \in Items,
             cl[l].got = "done" \/ Tells(pg, w[k], l, sv[l])
      PROVE  cl2[l].got = "done" \/ Tells(pg, v[k], l, sv2[l])
  BY <1>5, <1>6 DEF Tells
<1>7. WireGood(pg, v, sv2, cl2)
  BY <1>4, <1>5, <1>6 DEF WireGood
<1>8. QED
  BY <1>4, <1>5, <1>7 DEF v

LEMMA GoodOn ==
    ASSUME NEW pg, NEW w, NEW sv, NEW cl, WireGood(pg, w, sv, cl), NEW sv2, NEW cl2,
           \A l \in Items :
               \/ cl2[l].got = "done"
               \/ sv2[l] = sv[l] /\ cl[l].got # "done"
    PROVE  WireGood(pg, w, sv2, cl2)
BY DEF WireGood

(* Readings that keep what they are asked for and their order.              *)
LEMMA SameWire ==
    ASSUME NEW pg, NEW w \in Seq(Readings(pg)), NEW v \in Seq(Readings(pg)), Len(v) = Len(w),
           \A j \in DOMAIN w : v[j].late = w[j].late /\ v[j].crit = w[j].crit
    PROVE  /\ LateFirst(w) => LateFirst(v)
           /\ Settled(pg, v) <=> Settled(pg, w)
           /\ v = <<>> <=> w = <<>>
           /\ w # <<>> => Last(v).late = Last(w).late /\ Last(v).crit = Last(w).crit
<1>1. DOMAIN v = DOMAIN w /\ (w # <<>> => Len(w) \in DOMAIN w)
  BY WireIs
<1>2. v = <<>> <=> w = <<>>
  BY EmptySeq
<1>3. QED
  BY <1>1, <1>2 DEF LateFirst, Settled, Last

-----------------------------------------------------------------------------
(* Steps, by what they leave alone.                                        *)

LEMMA SamePage ==
    ASSUME scr' = scr
    PROVE  Page' = Page
BY DEF Page

LEMMA WhatIsCalled ==
    ASSUME Inv, NEW i \in Items, call[i].got \in {"sent", "tested", "done", "failed"}
    PROVE  Called(Page, call[i])
<1>1. call[i] # Idle
  BY ListAssumption DEF Idle
<1>2. QED
  BY <1>1 DEF Inv, CallsHold

LEMMA IdleIs ==
    /\ Idle.act = None /\ Idle.got = None /\ Idle.got # "done"
    /\ \A pg : ~Hopes(pg, Idle)
BY ListAssumption DEF Idle, Hopes

(* Another call on one item.                                               *)
LEMMA OneCall ==
    ASSUME Inv, scr' = scr, NEW i \in Items, NEW x, x = Idle \/ Called(Page, x),
           call' = [call EXCEPT ![i] = x]
    PROVE  /\ CallsHold' /\ call' = [l \in Items |-> call'[l]]
           /\ call'[i] = x /\ \A l \in Items : l # i => call'[l] = call[l]
<1>1. call = [l \in Items |-> call[l]]
  BY DEF Inv, Types
<1>2. /\ call' = [l \in Items |-> call'[l]]
      /\ call'[i] = x /\ \A l \in Items : l # i => call'[l] = call[l]
  BY <1>1
<1>3. ASSUME NEW l \in Items
      PROVE  call'[l] = Idle \/ Called(Page', call'[l])
  <2>1. Page' = Page
    BY SamePage
  <2>2. QED
    BY <1>2, <2>1 DEF Inv, CallsHold
<1>4. QED
  BY <1>2, <1>3 DEF CallsHold

(* Nothing is asked for and nothing arrives.                                *)
LEMMA QuietStep ==
    ASSUME Inv, UNCHANGED <<scr, crit, loading, failed, overtaken>>,
           srv' \in [Items -> Statuses], missed' \subseteq Items,
           rows' \in [Items -> Rows(Page)] \cup {None}, rows # None => rows' # None,
           call' = [i \in Items |-> call'[i]], CallsHold', BoxHolds',
           wire' \in Seq(Readings(Page)), Len(wire') = Len(wire),
           WireGood(Page, wire', srv', call'),
           Page.reads.drops =>
               \A j \in DOMAIN wire : wire'[j].late = wire[j].late /\ wire'[j].crit = wire[j].crit,
           \A i \in Items : Hopes(Page, call'[i]) => rows' # None,
           \A i \in Items :
               (rows # None /\ RowFits(Page, rows[i], crit, srv[i], call[i], i \in missed))
                   => RowFits(Page, rows'[i], crit, srv'[i], call'[i], i \in missed')
    PROVE  Inv'
<1>1. Page' = Page /\ wire \in Seq(Readings(Page))
  BY SamePage DEF Inv, Types
<1>2. /\ wire' = <<>> <=> wire = <<>>
      /\ Page.reads.drops =>
            /\ LateFirst(wire) => LateFirst(wire')
            /\ Settled(Page, wire') => Settled(Page, wire)
            /\ wire # <<>> =>
                  Last(wire').late = Last(wire).late /\ Last(wire').crit = Last(wire).crit
  <2>1. wire' = <<>> <=> wire = <<>>
    BY <1>1, EmptySeq
  <2>2. ASSUME Page.reads.drops
        PROVE  /\ LateFirst(wire) => LateFirst(wire')
               /\ Settled(Page, wire') => Settled(Page, wire)
               /\ wire # <<>> =>
                     Last(wire').late = Last(wire).late /\ Last(wire').crit = Last(wire).crit
    <3>1. \A j \in DOMAIN wire : wire'[j].late = wire[j].late /\ wire'[j].crit = wire[j].crit
      BY <2>2
    <3>2. QED
      BY <1>1, <3>1, SameWire
  <2>3. QED
    BY <2>1, <2>2
<1>3. Types'
  BY <1>1 DEF Inv, Types, Statuses
<1>4. WireHolds'
  BY <1>1 DEF WireHolds
<1>5. DropsHold'
  BY <1>1, <1>2 DEF Inv, DropsHold
<1>6. RowsHold'
  <2>1. Settled(Page, wire') => Settled(Page, wire)
    BY <1>2 DEF Settled
  <2>2. QED
    BY <1>1, <2>1 DEF Inv, RowsHold
<1>7. LoadingHolds'
  BY <1>1, <1>2 DEF Inv, LoadingHolds
<1>8. QED
  BY <1>3, <1>4, <1>5, <1>6, <1>7 DEF Inv

(* A reading more.                                                         *)
LEMMA SendStep ==
    ASSUME Inv, NEW c \in DOMAIN Page.shows, Send(c), UNCHANGED <<scr, srv, overtaken, missed>>,
           crit' \in DOMAIN Page.shows, Page.reads.drops /\ Page.reads.server => crit' = c,
           call' = [i \in Items |-> call'[i]], CallsHold', BoxHolds',
           \A i \in Items : Hopes(Page, call'[i]) => Hopes(Page, call[i])
    PROVE  Inv'
<1>1. Page' = Page /\ wire \in Seq(Readings(Page)) /\ Careful(Page) /\ scr \in DOMAIN Pages
  BY SamePage, PageFacts DEF Inv, Types
<1>2. wire' = Append(wire, Reading(c)) /\ loading' = TRUE
  BY DEF Send
<1>3. /\ wire' \in Seq(Readings(Page)) /\ Len(wire') = Len(wire) + 1
      /\ wire' # <<>> /\ ~Last(wire').late /\ Last(wire').crit = c
      /\ WireGood(Page, wire', srv', call')
      /\ LateFirst(wire) => LateFirst(wire')
      /\ ~Settled(Page, wire')
  BY <1>1, <1>2, WireAppended
<1>4. Len(wire') <= MaxReads
  <2>1. Len(wire) < MaxReads /\ Len(wire) \in Nat
    BY <1>1, WireIs DEF Send
  <2>2. QED
    BY <1>3, <2>1, ListAssumption
<1>5. failed' \in BOOLEAN
  <2>1. failed' = (Page.reads.query /\ failed /\ rows # None)
    BY DEF Send
  <2>2. QED
    BY <2>1
<1>6. Types'
  BY <1>1, <1>2, <1>3, <1>4, <1>5 DEF Inv, Types, Send
<1>7. WireHolds'
  BY <1>1, <1>3 DEF WireHolds
<1>8. DropsHold'
  BY <1>1, <1>3 DEF Inv, DropsHold
<1>9. RowsHold'
  BY <1>1, <1>3 DEF RowsHold
<1>10. LoadingHolds'
  <2>1. ASSUME NEW i \in Items, Hopes(Page, call'[i])
        PROVE  rows' # None
    <3>1. Hopes(Page, call[i]) /\ rows # None
      BY <2>1 DEF Inv, LoadingHolds
    <3>2. call[i].act \in Acts /\ Page.acts[call[i].act].after = "hope"
      BY <3>1, IdleIs DEF Inv, CallsHold, Called, Acts, Hopes
    <3>3. ~Page.reads.clears
      BY <1>1, <3>2, ActFacts
    <3>4. QED
      BY <3>1, <3>3 DEF Send
  <2>2. QED
    BY <1>1, <1>3, <2>1 DEF LoadingHolds
<1>11. QED
  BY <1>6, <1>7, <1>8, <1>9, <1>10 DEF Inv

(* An act goes on, and the screen does not show it.                        *)
LEMMA CallStep ==
    ASSUME Inv, NEW i \in Items, NEW x, x = Idle \/ Called(Page, x),
           call' = [call EXCEPT ![i] = x],
           UNCHANGED <<scr, crit, rows, wire, loading, failed, missed, overtaken>>, BoxHolds',
           srv' \in [Items -> Statuses], \A l \in Items : l # i => srv'[l] = srv[l],
           x.got = "done" \/ (srv'[i] = srv[i] /\ call[i].got # "done"),
           (rows # None /\ RowFits(Page, rows[i], crit, srv[i], call[i], i \in missed))
               => RowFits(Page, rows[i], crit, srv'[i], x, i \in missed),
           Hopes(Page, x) => Hopes(Page, call[i])
    PROVE  Inv'
<1>1. /\ CallsHold' /\ call' = [l \in Items |-> call'[l]]
      /\ call'[i] = x /\ \A l \in Items : l # i => call'[l] = call[l]
  BY OneCall
<1>2. \A l \in Items :
          \/ call'[l].got = "done"
          \/ srv'[l] = srv[l] /\ call[l].got # "done"
  BY <1>1
<1>3. WireGood(Page, wire', srv', call')
  <2>1. WireGood(Page, wire, srv, call)
    BY DEF Inv, WireHolds
  <2>2. WireGood(Page, wire, srv', call')
    BY <1>2, <2>1 DEF WireGood
  <2>3. QED
    BY <2>2
<1>4. \A l \in Items :
          (rows # None /\ RowFits(Page, rows[l], crit, srv[l], call[l], l \in missed))
              => RowFits(Page, rows'[l], crit, srv'[l], call'[l], l \in missed')
  BY <1>1
<1>5. \A l \in Items : Hopes(Page, call'[l]) => rows' # None
  <2>1. \A l \in Items : Hopes(Page, call'[l]) => Hopes(Page, call[l])
    BY <1>1
  <2>2. QED
    BY <2>1 DEF Inv, LoadingHolds
<1>6. /\ missed' \subseteq Items /\ rows' \in [Items -> Rows(Page)] \cup {None}
      /\ wire' \in Seq(Readings(Page))
  BY DEF Inv, Types
<1>7. QED
  BY <1>1, <1>3, <1>4, <1>5, <1>6, QuietStep

LEMMA WhatIsOffered ==
    ASSUME Inv, NEW i \in Items, NEW act \in Offered(i)
    PROVE  /\ rows # None /\ rows \in [Items -> Rows(Page)] /\ rows[i] \in Statuses
           /\ act \in Acts /\ act \in Page.offers[rows[i]]
<1>1. Listed(i) /\ act \in Page.offers[rows[i]]
  BY DEF Offered
<1>2. rows # None /\ rows[i] \notin {Absent, Twice} /\ rows \in [Items -> Rows(Page)]
  BY <1>1 DEF Listed, Covered, Inv, Types
<1>3. rows[i] \in Statuses
  BY <1>2 DEF Rows, Statuses
<1>4. QED
  BY <1>1, <1>2, <1>3, PageFacts DEF Inv, Types

LEMMA BoxSteps ==
    ASSUME Inv, \/ \E i \in Items, act \in Acts : Open(i, act)
                \/ Close
    PROVE  Inv'
<1>1. /\ UNCHANGED <<scr, srv, crit, rows, wire, loading, failed, missed, overtaken, call>>
      /\ Page' = Page
  BY SamePage DEF Open, Close
<1>2. BoxHolds'
  <2>1. CASE Close
    BY <2>1 DEF Close, BoxHolds
  <2>2. CASE \E i \in Items, act \in Acts : Open(i, act)
    <3>1. PICK i \in Items, act \in Acts : Open(i, act)
      BY <2>2
    <3>2. rows[i] \in Statuses
      BY <3>1, WhatIsOffered DEF Open
    <3>3. box' = [item |-> i, act |-> act, saw |-> rows[i]] /\ Page.acts[act].asks
      BY <3>1 DEF Open
    <3>4. QED
      BY <1>1, <3>2, <3>3 DEF BoxHolds, Asked, Acts, Statuses
  <2>3. QED
    BY <2>1, <2>2
<1>3. QED
  BY <1>1, <1>2, SamePage
     DEF Inv, Types, CallsHold, WireHolds, DropsHold, RowsHold, LoadingHolds

(* What is sent when a person begins.                                      *)
Begun(i, act, saw) ==
    [act |-> act, saw |-> saw, got |-> "sent", res |-> None,
     under |-> IF Page.reads.server THEN crit ELSE None]

LEMMA BegunIs ==
    ASSUME Inv, NEW i \in Items, NEW act \in Acts, NEW saw \in Statuses, ~Page.acts[act].mute
    PROVE  Called(Page, Begun(i, act, saw)) /\ Begun(i, act, saw).got = "sent"
           /\ Begun(i, act, saw).act = act /\ Begun(i, act, saw).saw = saw
BY DEF Begun, Called, Acts, Statuses, Inv, Types

LEMMA ConfirmStep ==
    ASSUME Inv, Confirm
    PROVE  Inv'
<1> DEFINE i == box.item  x == Begun(i, box.act, box.saw)
<1>1. Asked(Page, box) /\ ~Page.acts[box.act].mute
  BY DEF Confirm, Inv, BoxHolds
<1>2. i \in Items /\ box.act \in Acts /\ box.saw \in Statuses /\ Page.acts[box.act].asks
  BY <1>1 DEF Asked, Acts, Statuses
<1>3. call[i] = Idle /\ call' = [call EXCEPT ![i] = x]
  BY DEF Confirm, Begin, Begun
<1>4. Called(Page, x) /\ x.got = "sent" /\ x.act = box.act
  BY <1>1, <1>2, BegunIs
<1> HIDE DEF x
<1>5. ~Hopes(Page, x)
  <2>1. Careful(Page)
    BY PageFacts DEF Inv, Types
  <2>2. QED
    BY <1>2, <1>4, <2>1, ActFacts DEF Hopes
<1>6. BoxHolds'
  <2>1. Page' = Page /\ (box' = None \/ box' = box)
    BY SamePage DEF Confirm
  <2>2. QED
    BY <1>1, <2>1 DEF BoxHolds
<1>7. RowFits(Page, rows[i], crit, srv[i], call[i], i \in missed)
          => RowFits(Page, rows[i], crit, srv[i], x, i \in missed)
  BY <1>3, <1>5, IdleIs DEF RowFits
<1>8. /\ UNCHANGED <<scr, srv, crit, rows, wire, loading, failed, missed, overtaken>>
      /\ srv \in [Items -> Statuses]
  BY DEF Confirm, Inv, Types, Statuses
<1>9. call[i].got # "done"
  BY <1>3, IdleIs
<1>10. QED
  BY <1>2, <1>3, <1>4, <1>5, <1>6, <1>7, <1>8, <1>9, CallStep

LEMMA Progress ==
    ASSUME NEW y, NEW g, NEW r,
           y = [act |-> y.act, saw |-> y.saw, under |-> y.under, got |-> y.got, res |-> y.res]
    PROVE  [y EXCEPT !.got = g, !.res = r] =
               [act |-> y.act, saw |-> y.saw, under |-> y.under, got |-> g, res |-> r]
<1> DEFINE z == [y EXCEPT !.got = g, !.res = r]
<1>1. y \in [act : {y.act}, saw : {y.saw}, under : {y.under}, got : {y.got}, res : {y.res}]
  <2>1. ASSUME NEW a, NEW b, NEW c, NEW d, NEW e, NEW x,
               x = [act |-> a, saw |-> b, under |-> c, got |-> d, res |-> e]
        PROVE  x \in [act : {a}, saw : {b}, under : {c}, got : {d}, res : {e}]
    BY <2>1
  <2>2. QED
    BY <2>1
<1>2. z \in [act : {y.act}, saw : {y.saw}, under : {y.under}, got : {g}, res : {r}]
  BY <1>1
<1> HIDE DEF z
<1>3. z = [act |-> y.act, saw |-> y.saw, under |-> y.under, got |-> g, res |-> r]
  BY <1>2
<1>4. QED
  BY <1>3 DEF z

(* The server's answers, where the page is not told yet.                    *)
LEMMA ServerSteps ==
    ASSUME Inv, NEW i \in Items, Refuse(i) \/ Act(i) \/ Test(i) \/ Save(i)
    PROVE  Inv'
<1> DEFINE y == call[i]
<1>1. /\ UNCHANGED <<scr, crit, rows, wire, loading, failed, missed, overtaken, box>>
      /\ Page' = Page /\ srv \in [Items -> Statuses] /\ Careful(Page)
  BY SamePage, PageFacts DEF Refuse, Act, Test, Save, Inv, Types, Statuses
<1>2. BoxHolds'
  BY <1>1 DEF Inv, BoxHolds
<1>3. y.got \in {"sent", "tested"} /\ y.got # "done"
  BY DEF Refuse, Act, Test, Save
<1>4. Called(Page, y) /\ y.act \in Acts
  BY <1>3, WhatIsCalled DEF Called, Acts
<1> HIDE DEF y
<1>5. y = [act |-> y.act, saw |-> y.saw, under |-> y.under, got |-> y.got, res |-> y.res]
  BY <1>4 DEF Called
<1>6. \A s \in Statuses : Page.serves[y.act][s] \subseteq Statuses
  BY <1>4, PageFacts DEF Inv, Types
<1>7. CASE Refuse(i)
  <2> DEFINE x == [y EXCEPT !.got = "failed"]
  <2>1. call' = [call EXCEPT ![i] = x] /\ srv' = srv
    BY <1>7 DEF Refuse, y
  <2>2. x.got = "failed" /\ x.act = y.act /\ x.saw = y.saw /\ Called(Page, x)
    BY <1>4, <1>5 DEF Called
  <2> HIDE DEF x
  <2>3. Hopes(Page, x) <=> Hopes(Page, y)
    BY <2>2 DEF Hopes
  <2>4. \A row, s, missing : RowFits(Page, row, crit, s, y, missing)
                                 => RowFits(Page, row, crit, s, x, missing)
    BY <1>3, <2>2, <2>3 DEF RowFits
  <2>5. QED
    BY <1>1, <1>2, <1>3, <2>1, <2>2, <2>3, <2>4, CallStep DEF y
<1>8. CASE Test(i)
  <2>1. PICK s \in Page.serves[y.act][srv[i]] :
            /\ call' = [call EXCEPT ![i].got = "tested", ![i].res = s]
            /\ ~Page.acts[y.act].locks
    BY <1>8 DEF Test, Results, y
  <2> DEFINE x == [y EXCEPT !.got = "tested", !.res = s]
  <2>2. call' = [call EXCEPT ![i] = x] /\ srv' = srv
    BY <1>8, <2>1 DEF Test, y
  <2>3. /\ x.got = "tested" /\ x.act = y.act /\ x.saw = y.saw /\ x.res = s
        /\ x = [act |-> x.act, saw |-> x.saw, under |-> x.under, got |-> x.got, res |-> x.res]
        /\ x.under = y.under
    <3>1. x = [act |-> y.act, saw |-> y.saw, under |-> y.under, got |-> "tested", res |-> s]
      BY <1>5, Progress
    <3> HIDE DEF x
    <3>2. QED
      BY <3>1
  <2> HIDE DEF x
  <2>4. Called(Page, x)
    BY <1>1, <1>4, <2>1, <2>3 DEF Called, Statuses
  <2>5. Hopes(Page, x) <=> Hopes(Page, y)
    BY <2>3 DEF Hopes
  <2>6. \A row, t, missing : RowFits(Page, row, crit, t, y, missing)
                                 => RowFits(Page, row, crit, t, x, missing)
    BY <1>3, <2>3, <2>5 DEF RowFits
  <2>7. QED
    BY <1>1, <1>2, <1>3, <2>2, <2>3, <2>4, <2>5, <2>6, CallStep DEF y
<1>9. CASE Act(i) \/ Save(i)
  <2>1. PICK s \in Statuses, from \in Statuses :
            /\ s \in Page.serves[y.act][from]
            /\ srv' = [srv EXCEPT ![i] = s]
            /\ call' = [call EXCEPT ![i].got = "done", ![i].res = s]
    <3>1. CASE Act(i)
      <4>1. PICK s \in Page.serves[y.act][srv[i]] :
                srv' = [srv EXCEPT ![i] = s]
                /\ call' = [call EXCEPT ![i].got = "done", ![i].res = s]
        BY <3>1 DEF Act, Results, y
      <4>2. QED
        BY <1>1, <1>6, <4>1
    <3>2. CASE Save(i)
      <4>1. PICK from \in Statuses : y.res \in Page.serves[y.act][from]
        BY <1>4, <3>2 DEF Save, Called, Statuses, y
      <4>2. [y EXCEPT !.got = "done"] = [y EXCEPT !.got = "done", !.res = y.res]
        BY <1>5
      <4>3. call' = [call EXCEPT ![i] = [y EXCEPT !.got = "done", !.res = y.res]]
        BY <3>2, <4>2 DEF Save, y
      <4>4. srv' = [srv EXCEPT ![i] = y.res]
        BY <3>2 DEF Save, y
      <4>5. call' = [call EXCEPT ![i].got = "done", ![i].res = y.res]
        BY <4>3 DEF y
      <4>6. y.res \in Statuses
        BY <1>6, <4>1
      <4>7. QED
        BY <4>1, <4>4, <4>5, <4>6
    <3>3. QED
      BY <1>9, <3>1, <3>2
  <2> DEFINE x == [y EXCEPT !.got = "done", !.res = s]
  <2>2. call' = [call EXCEPT ![i] = x]
    BY <2>1 DEF y
  <2>3. /\ x.got = "done" /\ x.act = y.act /\ x.saw = y.saw /\ x.res = s
        /\ x = [act |-> x.act, saw |-> x.saw, under |-> x.under, got |-> x.got, res |-> x.res]
        /\ x.under = y.under
    <3>1. x = [act |-> y.act, saw |-> y.saw, under |-> y.under, got |-> "done", res |-> s]
      BY <1>5, Progress
    <3> HIDE DEF x
    <3>2. QED
      BY <3>1
  <2> HIDE DEF x
  <2>4. Called(Page, x)
    BY <1>4, <2>1, <2>3 DEF Called, Statuses
  <2>5. Hopes(Page, x) <=> Hopes(Page, y)
    BY <2>3 DEF Hopes
  <2>6. srv' \in [Items -> Statuses] /\ srv'[i] = s /\ \A l \in Items : l # i => srv'[l] = srv[l]
    BY <1>1, <2>1
  <2>7. ASSUME NEW row, NEW t, NEW missing, RowFits(Page, row, crit, t, y, missing)
        PROVE  RowFits(Page, row, crit, s, x, missing)
    <3>1. CASE ~Hopes(Page, y)
      BY <2>3, <2>5, <3>1 DEF RowFits
    <3>2. CASE Hopes(Page, y) /\ row \in Page.serves[y.act][y.saw]
      <4>1. Page.acts[y.act].after = "hope" /\ y.saw \in Statuses
        BY <1>4, <3>2 DEF Hopes, Called, Statuses
      <4>2. row = s
        BY <1>1, <1>4, <2>1, <3>2, <4>1, OneOutcome
      <4>3. QED
        BY <2>3, <2>5, <3>2, <4>2 DEF RowFits
    <3>3. CASE Hopes(Page, y) /\ row \notin Page.serves[y.act][y.saw]
      BY <2>7, <3>3 DEF RowFits
    <3>4. QED
      BY <3>1, <3>2, <3>3
  <2>8. QED
    BY <1>1, <1>2, <2>2, <2>3, <2>4, <2>5, <2>6, <2>7, CallStep DEF y
<1>10. QED
  BY <1>7, <1>8, <1>9

-----------------------------------------------------------------------------
(* The steps of a person.                                                  *)

LEMMA PressStep ==
    ASSUME Inv, NEW i \in Items, NEW act \in Acts, Press(i, act)
    PROVE  Inv'
<1> DEFINE x == Begun(i, act, rows[i])
<1>1. /\ rows # None /\ rows \in [Items -> Rows(Page)] /\ rows[i] \in Statuses
      /\ act \in Page.offers[rows[i]] /\ ~Page.acts[act].asks /\ box = None
  BY WhatIsOffered DEF Press
<1>2. /\ Careful(Page) /\ Page' = Page
      /\ \A a \in Acts, s \in Statuses : Page.serves[a][s] \subseteq Statuses
  BY PageFacts, SamePage DEF Inv, Types, Press
<1>3. call[i] = Idle /\ call' = [call EXCEPT ![i] = x]
  BY DEF Press, Begin, Begun
<1>4. Called(Page, x) /\ x.got = "sent" /\ x.act = act /\ x.saw = rows[i]
  <2>1. ~Page.acts[act].mute
    BY <1>1, <1>2, ActFacts
  <2>2. QED
    BY <1>1, <2>1, BegunIs
<1> HIDE DEF x
<1>5. /\ UNCHANGED <<scr, srv, crit, wire, loading, failed, missed, overtaken, box>>
      /\ srv \in [Items -> Statuses]
  BY DEF Press, Inv, Types, Statuses
<1>6. BoxHolds'
  BY <1>2, <1>5 DEF Inv, BoxHolds
<1>7. call[i].got # "done" /\ ~Hopes(Page, call[i])
  BY <1>3, IdleIs
<1>8. CASE Page.acts[act].after # "hope"
  <2>1. ~Hopes(Page, x) /\ rows' = rows
    BY <1>4, <1>8 DEF Hopes, Press
  <2>2. RowFits(Page, rows[i], crit, srv[i], call[i], i \in missed)
            => RowFits(Page, rows[i], crit, srv[i], x, i \in missed)
    BY <1>7, <2>1 DEF RowFits
  <2>3. QED
    BY <1>3, <1>4, <1>5, <1>6, <1>7, <2>1, <2>2, CallStep
<1>9. CASE Page.acts[act].after = "hope"
  <2> DEFINE row == CHOOSE s \in Page.serves[act][rows[i]] : TRUE
  <2>1. rows' = [rows EXCEPT ![i] = row]
    BY <1>9 DEF Press
  <2>2. row \in Page.serves[act][rows[i]]
    BY <1>1, <1>2, <1>9, SomeOutcome
  <2> HIDE DEF row
  <2>3. row \in Rows(Page)
    BY <1>1, <1>2, <2>2 DEF Rows, Statuses
  <2>4. /\ rows' \in [Items -> Rows(Page)] /\ rows'[i] = row
        /\ \A l \in Items : l # i => rows'[l] = rows[l]
    BY <1>1, <2>1, <2>3
  <2>5. rows' # None
    BY <2>4, NoRows DEF Inv, Types
  <2>6. /\ CallsHold' /\ call' = [l \in Items |-> call'[l]]
        /\ call'[i] = x /\ \A l \in Items : l # i => call'[l] = call[l]
    BY <1>3, <1>4, <1>5, OneCall
  <2>7. WireGood(Page, wire', srv', call')
    <3>1. \A l \in Items :
              \/ call'[l].got = "done"
              \/ srv'[l] = srv[l] /\ call[l].got # "done"
      BY <1>5, <1>7, <2>6
    <3>2. WireGood(Page, wire, srv, call)
      BY DEF Inv, WireHolds
    <3>3. WireGood(Page, wire, srv', call')
      BY <3>1, <3>2 DEF WireGood
    <3>4. QED
      BY <1>5, <3>3
  <2>8. ASSUME NEW l \in Items, RowFits(Page, rows[l], crit, srv[l], call[l], l \in missed)
        PROVE  RowFits(Page, rows'[l], crit, srv'[l], call'[l], l \in missed')
    <3>1. CASE l # i
      BY <1>5, <2>4, <2>6, <2>8, <3>1
    <3>2. CASE l = i /\ i \in missed
      BY <1>5, <3>2 DEF RowFits
    <3>3. CASE l = i /\ i \notin missed
      <4>1. rows[i] # Twice /\ rows[i] = Fit(Page, crit, srv[i])
        <5>1. rows[i] # Twice
          BY <1>1, PageFacts DEF Inv, Types, Closed, Statuses, Twice
        <5>2. QED
          BY <1>7, <2>8, <3>3, <5>1 DEF RowFits
      <4>2. ~Page.reads.server
        BY <1>2, <1>9, ActFacts
      <4>3. srv[i] = rows[i]
        BY <4>1, <4>2 DEF Fit
      <4>4. Hopes(Page, x)
        BY <1>2, <1>4, <1>9, PageFacts DEF Hopes, Inv, Types
      <4>5. RowFits(Page, row, crit, srv[i], x, FALSE)
        BY <1>4, <2>2, <4>3, <4>4 DEF RowFits
      <4>6. /\ rows'[l] = row /\ crit' = crit /\ srv'[l] = srv[i] /\ call'[l] = x
            /\ ~(l \in missed')
        BY <1>5, <2>4, <2>6, <3>3
      <4>7. RowFits(Page, row, crit, srv[i], x, l \in missed')
        BY <4>5 DEF RowFits
      <4>8. QED
        BY <4>6, <4>7
    <3>4. QED
      BY <3>1, <3>2, <3>3
  <2>9. missed' \subseteq Items /\ wire' \in Seq(Readings(Page)) /\ srv' \in [Items -> Statuses]
    BY <1>5 DEF Inv, Types
  <2>10. QED
    BY <1>5, <1>6, <2>4, <2>5, <2>6, <2>7, <2>8, <2>9, QuietStep
<1>10. QED
  BY <1>8, <1>9

LEMMA AgainStep ==
    ASSUME Inv, Again
    PROVE  Inv'
<1>1. Page' = Page /\ crit \in DOMAIN Page.shows /\ call = [i \in Items |-> call[i]]
  BY SamePage DEF Again, Inv, Types
<1>2. CallsHold' /\ BoxHolds'
  BY <1>1 DEF Again, Inv, CallsHold, BoxHolds
<1>3. Send(crit) /\ UNCHANGED <<scr, srv, crit, missed, overtaken, call>>
  BY DEF Again
<1>4. QED
  BY <1>1, <1>2, <1>3, SendStep

LEMMA ChooseStep ==
    ASSUME Inv, NEW c \in DOMAIN Page.shows, Choose(c)
    PROVE  Inv'
<1>1. /\ Page' = Page /\ call = [i \in Items |-> call[i]]
      /\ crit' = c /\ UNCHANGED <<scr, srv, missed, overtaken, box, call>>
  BY SamePage DEF Choose, Inv, Types
<1>2. CallsHold' /\ BoxHolds'
  BY <1>1 DEF Inv, CallsHold, BoxHolds
<1>3. CASE Page.reads.server
  <2>1. Send(c)
    BY <1>3 DEF Choose
  <2>2. QED
    BY <1>1, <1>2, <2>1, SendStep
<1>4. CASE ~Page.reads.server
  <2>1. UNCHANGED <<rows, wire, loading, failed>>
    BY <1>4 DEF Choose
  <2>2. \A s : Fit(Page, c, s) = s /\ Fit(Page, crit, s) = s
    BY <1>4 DEF Fit
  <2>3. RowsHold'
    <3>1. \A row, s, x, missing : RowFits(Page, row, crit, s, x, missing)
                                      => RowFits(Page, row, c, s, x, missing)
      BY <2>2 DEF RowFits
    <3>2. QED
      BY <1>1, <2>1, <3>1 DEF Inv, RowsHold
  <2>4. Types' /\ WireHolds' /\ DropsHold' /\ LoadingHolds'
    BY <1>1, <1>4, <2>1 DEF Inv, Types, WireHolds, DropsHold, LoadingHolds
  <2>5. QED
    BY <1>2, <2>3, <2>4 DEF Inv
<1>5. QED
  BY <1>3, <1>4

-----------------------------------------------------------------------------
(* What the page is behind with, and what it writes itself.                 *)

LEMMA BehindStep ==
    ASSUME Inv, NEW i \in Items, Behind(i),
           UNCHANGED <<scr, crit, rows, loading, failed, overtaken>>, BoxHolds', CallsHold',
           call' = [l \in Items |-> call'[l]], srv' \in [Items -> Statuses],
           \A l \in Items : l # i => srv'[l] = srv[l] /\ call'[l] = call[l],
           Hopes(Page, call'[i]) => Hopes(Page, call[i])
    PROVE  Inv'
<1>1. wire \in Seq(Readings(Page)) /\ WireGood(Page, wire, srv, call)
  BY DEF Inv, Types, WireHolds
<1>2. wire' = AllBehind(wire, i) /\ missed' = missed \cup {i}
  BY DEF Behind, AllBehind
<1>3. \A l \in Items : l # i =>
          srv'[l] = srv[l] /\ (call[l].got = "done" => call'[l].got = "done")
  OBVIOUS
<1>4. LET v == AllBehind(wire, i)
      IN  /\ v \in Seq(Readings(Page)) /\ Len(v) = Len(wire)
          /\ \A j \in DOMAIN wire : v[j].late = wire[j].late /\ v[j].crit = wire[j].crit
          /\ WireGood(Page, v, srv', call')
  <2>1. ASSUME NEW sv, NEW cl,
               \A l \in Items : l # i =>
                   sv[l] = srv[l] /\ (call[l].got = "done" => cl[l].got = "done")
        PROVE  LET v == AllBehind(wire, i)
               IN  /\ v \in Seq(Readings(Page)) /\ Len(v) = Len(wire)
                   /\ \A j \in DOMAIN wire : v[j].late = wire[j].late /\ v[j].crit = wire[j].crit
                   /\ WireGood(Page, v, sv, cl)
    BY <1>1, <2>1, WireBehind
  <2>2. QED
    BY <1>3, <2>1
<1>5. missed' \subseteq Items /\ rows' \in [Items -> Rows(Page)] \cup {None}
  BY <1>2 DEF Inv, Types
<1>6. \A l \in Items : Hopes(Page, call'[l]) => rows' # None
  BY DEF Inv, LoadingHolds
<1>7. ASSUME NEW l \in Items, RowFits(Page, rows[l], crit, srv[l], call[l], l \in missed)
      PROVE  RowFits(Page, rows'[l], crit, srv'[l], call'[l], l \in missed')
  <2>1. CASE l = i
    <3>1. l \in missed'
      BY <1>2, <2>1
    <3>2. QED
      BY <3>1 DEF RowFits
  <2>2. CASE l # i
    <3>1. /\ rows'[l] = rows[l] /\ srv'[l] = srv[l] /\ call'[l] = call[l]
          /\ l \in missed' <=> l \in missed
      BY <1>2, <2>2
    <3>2. QED
      BY <1>7, <3>1 DEF RowFits
  <2>3. QED
    BY <2>1, <2>2
<1>8. QED
  BY <1>2, <1>4, <1>5, <1>6, <1>7, QuietStep

LEMMA ElsewhereStep ==
    ASSUME Inv, NEW i \in Items, Elsewhere(i)
    PROVE  Inv'
<1>1. /\ Behind(i) /\ UNCHANGED <<scr, crit, rows, loading, failed, overtaken, box, call>>
      /\ Page' = Page
  BY SamePage DEF Elsewhere
<1>2. srv \in [Items -> Statuses] /\ call = [l \in Items |-> call[l]]
  BY DEF Inv, Types, Statuses
<1>3. PICK s \in Page.moves[srv[i]] : srv' = [srv EXCEPT ![i] = s]
  BY DEF Elsewhere
<1>4. s \in Statuses
  BY <1>2, <1>3, PageFacts DEF Inv, Types
<1>5. srv' \in [Items -> Statuses] /\ \A l \in Items : l # i => srv'[l] = srv[l]
  BY <1>2, <1>3, <1>4
<1>6. CallsHold' /\ BoxHolds'
  BY <1>1 DEF Inv, CallsHold, BoxHolds
<1>7. QED
  BY <1>1, <1>2, <1>5, <1>6, BehindStep

LEMMA LoseStep ==
    ASSUME Inv, NEW i \in Items, Lose(i)
    PROVE  Inv'
<1> DEFINE y == call[i]  x == [y EXCEPT !.got = "failed", !.res = None]
<1>1. /\ UNCHANGED <<scr, srv, crit, rows, loading, failed, overtaken, box>>
      /\ call' = [call EXCEPT ![i] = x]
      /\ Page' = Page /\ srv \in [Items -> Statuses]
  BY SamePage DEF Lose, Inv, Types, Statuses
<1>2. BoxHolds'
  BY <1>1 DEF Inv, BoxHolds
<1>3. y.got \in {"sent", "done"}
  BY DEF Lose
<1>4. Called(Page, y)
  BY <1>3, WhatIsCalled
<1>5. Called(Page, x) /\ x.got = "failed" /\ x.act = y.act /\ x.saw = y.saw
  <2> HIDE DEF y
  <2>0. y = [act |-> y.act, saw |-> y.saw, under |-> y.under, got |-> y.got, res |-> y.res]
    BY <1>4 DEF Called
  <2>1. x = [act |-> y.act, saw |-> y.saw, under |-> y.under, got |-> "failed", res |-> None]
    BY <2>0, Progress
  <2> HIDE DEF x
  <2>2. QED
    BY <1>4, <2>1 DEF Called
<1> HIDE DEF x
<1>6. Hopes(Page, x) <=> Hopes(Page, y)
  BY <1>5 DEF Hopes
<1>7. CASE y.got = "sent"
  <2>1. UNCHANGED <<missed, wire>>
    BY <1>7 DEF Lose
  <2>2. RowFits(Page, rows[i], crit, srv[i], y, i \in missed)
            => RowFits(Page, rows[i], crit, srv[i], x, i \in missed)
    <3> HIDE DEF y
    <3>1. QED
      BY <1>5, <1>6, <1>7 DEF RowFits
  <2>3. QED
    BY <1>1, <1>2, <1>5, <1>6, <1>7, <2>1, <2>2, CallStep
<1>8. CASE y.got = "done"
  <2>1. Behind(i)
    BY <1>8 DEF Lose
  <2>2. /\ CallsHold' /\ call' = [l \in Items |-> call'[l]]
        /\ call'[i] = x /\ \A l \in Items : l # i => call'[l] = call[l]
    BY <1>1, <1>5, OneCall
  <2>3. QED
    BY <1>1, <1>2, <1>6, <2>1, <2>2, BehindStep
<1>9. QED
  BY <1>3, <1>7, <1>8

LEMMA ServeStep ==
    ASSUME Inv, NEW k \in DOMAIN wire, Serve(k)
    PROVE  Inv'
<1> DEFINE a == Answer(wire[k].crit)
<1>1. /\ wire[k].snap = None /\ wire' = [wire EXCEPT ![k].snap = a]
      /\ UNCHANGED <<scr, srv, crit, rows, loading, failed, missed, overtaken, box, call>>
      /\ Page' = Page
  BY SamePage DEF Serve
<1>2. /\ wire \in Seq(Readings(Page)) /\ WireGood(Page, wire, srv, call)
      /\ srv \in [Items -> Statuses] /\ call = [l \in Items |-> call[l]]
      /\ missed \subseteq Items /\ rows \in [Items -> Rows(Page)] \cup {None}
  BY DEF Inv, Types, WireHolds, Statuses
<1>3. \A i \in Items : a[i] = Fit(Page, wire[k].crit, srv[i])
  BY AnswerFits
<1>4. a \in [Items -> Rows(Page)]
  <2>1. \A i \in Items : a[i] \in Rows(Page)
    BY <1>2, <1>3, FitTyped DEF Statuses
  <2>2. a = [i \in Items |-> a[i]]
    BY DEF Answer
  <2> HIDE DEF a
  <2>3. QED
    BY <2>1, <2>2
<1> HIDE DEF a
<1>5. LET v == [wire EXCEPT ![k].snap = a]
      IN  /\ v \in Seq(Readings(Page)) /\ Len(v) = Len(wire)
          /\ \A j \in DOMAIN wire : v[j].late = wire[j].late /\ v[j].crit = wire[j].crit
          /\ WireGood(Page, v, srv, call)
  <2>1. wire[k].snap = None
    BY <1>1
  <2>2. Served(Page, wire, k, a, srv, call)
    BY <1>2, <1>3, <1>4, <2>1, WireServed
  <2>3. QED
    BY <2>2 DEF Served
<1>6. CallsHold' /\ BoxHolds' /\ \A i \in Items : Hopes(Page, call'[i]) => rows' # None
  BY <1>1 DEF Inv, CallsHold, BoxHolds, LoadingHolds
<1>7. QED
  BY <1>1, <1>2, <1>5, <1>6, QuietStep

(* A page writes an answer into its rows.                                  *)
LEMMA AgedStep ==
    ASSUME Inv, NEW i \in Items, UNCHANGED <<scr, srv, crit, loading, failed, overtaken>>,
           ~Page.reads.drops, wire' = Aged, call' = [call EXCEPT ![i] = Idle], BoxHolds',
           rows' \in [Items -> Rows(Page)] \cup {None}, rows # None => rows' # None,
           \A l \in Items : l # i => rows'[l] = rows[l],
           missed' \subseteq Items, \A l \in Items : l # i => (l \in missed <=> l \in missed'),
           (rows # None /\ RowFits(Page, rows[i], crit, srv[i], call[i], i \in missed))
               => RowFits(Page, rows'[i], crit, srv[i], Idle, i \in missed')
    PROVE  Inv'
<1>1. wire \in Seq(Readings(Page)) /\ wire' = AllAged(wire) /\ srv \in [Items -> Statuses]
  BY DEF Aged, AllAged, Inv, Types, Statuses
<1>2. wire' \in Seq(Readings(Page)) /\ Len(wire') = Len(wire) /\ WireGood(Page, wire', srv', call')
  BY <1>1, WireAged
<1>3. /\ CallsHold' /\ call' = [l \in Items |-> call'[l]]
      /\ call'[i] = Idle /\ \A l \in Items : l # i => call'[l] = call[l]
  BY OneCall
<1>4. \A l \in Items : Hopes(Page, call'[l]) => rows' # None
  BY <1>3, IdleIs DEF Inv, LoadingHolds
<1>5. ASSUME NEW l \in Items, rows # None,
             RowFits(Page, rows[l], crit, srv[l], call[l], l \in missed)
      PROVE  RowFits(Page, rows'[l], crit, srv'[l], call'[l], l \in missed')
  <2>1. CASE l = i
    BY <1>3, <1>5, <2>1
  <2>2. CASE l # i
    <3>1. /\ rows'[l] = rows[l] /\ srv'[l] = srv[l] /\ call'[l] = call[l]
          /\ l \in missed' <=> l \in missed
      BY <1>3, <2>2
    <3>2. QED
      BY <1>5, <3>1 DEF RowFits
  <2>3. QED
    BY <2>1, <2>2
<1>6. QED
  BY <1>1, <1>2, <1>3, <1>4, <1>5, QuietStep

-----------------------------------------------------------------------------
(* The person is told.                                                     *)

LEMMA UnderIs ==
    ASSUME Inv, NEW i \in Items, Called(Page, call[i]), SendUnder(i)
    PROVE  \E c \in DOMAIN Page.shows : Send(c)
<1>1. call[i].under \in DOMAIN Page.shows \cup {None} /\ crit \in DOMAIN Page.shows
  BY DEF Called, Inv, Types
<1>2. QED
  BY <1>1 DEF SendUnder

(* The act is over and the page reads again.                               *)
LEMMA OverStep ==
    ASSUME Inv, NEW i \in Items, Called(Page, call[i]), SendUnder(i),
           UNCHANGED <<scr, srv, crit, missed, overtaken>>,
           call' = [call EXCEPT ![i] = Idle], BoxHolds'
    PROVE  Inv'
<1>1. PICK c \in DOMAIN Page.shows : Send(c)
  BY UnderIs
<1>2. /\ CallsHold' /\ call' = [l \in Items |-> call'[l]]
      /\ call'[i] = Idle /\ \A l \in Items : l # i => call'[l] = call[l]
  BY OneCall
<1>3. crit' \in DOMAIN Page.shows
  BY DEF Inv, Types
<1>4. ~(Page.reads.drops /\ Page.reads.server)
  <2>1. Careful(Page) /\ call[i].act \in Acts
    BY PageFacts DEF Inv, Types, Called, Acts
  <2>2. QED
    BY <2>1, ActFacts
<1>5. \A l \in Items : Hopes(Page, call'[l]) => Hopes(Page, call[l])
  BY <1>2, IdleIs
<1>6. QED
  BY <1>1, <1>2, <1>3, <1>4, <1>5, SendStep

LEMMA RefusedStep ==
    ASSUME Inv, NEW i \in Items, Refused(i)
    PROVE  Inv'
<1> DEFINE y == call[i]
<1>1. /\ UNCHANGED <<scr, srv, crit, missed, overtaken>> /\ y.got = "failed"
      /\ call' = [call EXCEPT ![i] = Idle]
      /\ box' = None \/ box' = box
      /\ Page' = Page /\ srv \in [Items -> Statuses] /\ Careful(Page)
  BY SamePage, PageFacts DEF Refused, Inv, Types, Statuses
<1>2. BoxHolds'
  BY <1>1 DEF Inv, BoxHolds
<1>3. Called(Page, y) /\ y.act \in Acts /\ y.saw \in Statuses
  BY <1>1, WhatIsCalled DEF Called, Acts, Statuses
<1>4. CASE Page.acts[y.act].always
  <2>1. SendUnder(i)
    BY <1>4 DEF Refused
  <2>2. QED
    BY <1>1, <1>2, <1>3, <2>1, OverStep
<1>5. CASE ~Page.acts[y.act].always
  <2>1. /\ rows' = IF Reverted(i) THEN [rows EXCEPT ![i] = y.saw] ELSE rows
        /\ UNCHANGED <<wire, loading, failed>>
    BY <1>5 DEF Refused
  <2>2. CASE ~Hopes(Page, y)
    <3>1. rows' = rows
      <4>1. y.act # None
        BY <1>3, PageFacts DEF Inv, Types
      <4>2. QED
        BY <2>1, <2>2, <4>1 DEF Reverted, Hopes
    <3>2. RowFits(Page, rows[i], crit, srv[i], y, i \in missed)
              => RowFits(Page, rows[i], crit, srv[i], Idle, i \in missed)
      <4>1. ~Hopes(Page, Idle) /\ y.got # "done"
        BY <1>1, IdleIs
      <4> HIDE DEF y
      <4>2. QED
        BY <2>2, <4>1 DEF RowFits
    <3>3. ~Hopes(Page, Idle) /\ y.got # "done"
      BY <1>1, IdleIs
    <3>4. QED
      BY <1>1, <1>2, <2>1, <3>1, <3>2, <3>3, CallStep
  <2>3. CASE Hopes(Page, y)
    <3>1. /\ rows # None /\ rows \in [Items -> Rows(Page)]
          /\ Page.acts[y.act].after = "hope" /\ ~Page.reads.server
      <4>1. rows # None /\ rows \in [Items -> Rows(Page)] /\ Page.acts[y.act].after = "hope"
        BY <2>3 DEF Inv, LoadingHolds, Types, Hopes
      <4>2. QED
        BY <1>1, <1>3, <4>1, ActFacts
    <3>2. rows[i] # Absent
      <4>1. rows[i] \in DOMAIN Page.moves \cup {Twice}
        BY <3>1 DEF Rows
      <4>2. "absent" \notin DOMAIN Page.moves
        BY <3>1, PageFacts DEF Inv, Types, Closed
      <4>3. QED
        BY <4>1, <4>2 DEF Absent, Twice
    <3>3. rows' = [rows EXCEPT ![i] = y.saw]
      BY <2>1, <3>1, <3>2 DEF Reverted
    <3>4. /\ rows' \in [Items -> Rows(Page)] /\ rows'[i] = y.saw
          /\ \A l \in Items : l # i => rows'[l] = rows[l]
      <4>1. y.saw \in Rows(Page)
        BY <1>3 DEF Rows, Statuses
      <4>2. QED
        BY <3>1, <3>3, <4>1
    <3>5. rows' # None
      BY <3>4, NoRows DEF Inv, Types
    <3>6. /\ CallsHold' /\ call' = [l \in Items |-> call'[l]]
          /\ call'[i] = Idle /\ \A l \in Items : l # i => call'[l] = call[l]
      BY <1>1, OneCall
    <3>7. WireGood(Page, wire', srv', call')
      <4>1. \A l \in Items :
                \/ call'[l].got = "done"
                \/ srv'[l] = srv[l] /\ (call[l].got = "done" => call'[l].got = "done")
        BY <1>1, <3>6
      <4>2. WireGood(Page, wire, srv, call)
        BY DEF Inv, WireHolds
      <4>3. WireGood(Page, wire, srv', call')
        BY <4>1, <4>2 DEF WireGood
      <4>4. QED
        BY <2>1, <4>3
    <3>8. ASSUME NEW l \in Items, RowFits(Page, rows[l], crit, srv[l], call[l], l \in missed)
          PROVE  RowFits(Page, rows'[l], crit, srv'[l], call'[l], l \in missed')
      <4>1. CASE l # i
        <5>1. /\ rows'[l] = rows[l] /\ srv'[l] = srv[l] /\ call'[l] = call[l]
              /\ l \in missed' <=> l \in missed
          BY <1>1, <3>4, <3>6, <4>1
        <5>2. QED
          BY <1>1, <3>8, <5>1 DEF RowFits
      <4>2. CASE l = i /\ i \in missed
        BY <1>1, <4>2 DEF RowFits
      <4>3. CASE l = i /\ i \notin missed
        <5>1. RowFits(Page, rows[i], crit, srv[i], y, FALSE)
          BY <3>8, <4>3 DEF RowFits
        <5>2. srv[i] = y.saw
          <6>1. y.got # "done"
            BY <1>1
          <6> HIDE DEF y
          <6>2. QED
            BY <2>3, <5>1, <6>1 DEF RowFits
        <5>3. RowFits(Page, y.saw, crit, srv[i], Idle, FALSE)
          BY <3>1, <5>2, IdleIs DEF RowFits, Fit
        <5>4. /\ rows'[l] = y.saw /\ crit' = crit /\ srv'[l] = srv[i] /\ call'[l] = Idle
              /\ ~(l \in missed')
          BY <1>1, <3>4, <3>6, <4>3
        <5>5. RowFits(Page, y.saw, crit, srv[i], Idle, l \in missed')
          BY <5>3 DEF RowFits
        <5>6. QED
          BY <5>4, <5>5
      <4>4. QED
        BY <4>1, <4>2, <4>3
    <3>9. /\ missed' \subseteq Items /\ wire' \in Seq(Readings(Page))
          /\ srv' \in [Items -> Statuses]
      BY <1>1, <2>1 DEF Inv, Types
    <3>10. UNCHANGED <<scr, crit, loading, failed, overtaken>> /\ Len(wire') = Len(wire)
      BY <1>1, <2>1
    <3>11. \A j \in DOMAIN wire : wire'[j].late = wire[j].late /\ wire'[j].crit = wire[j].crit
      BY <2>1
    <3>12. QED
      BY <1>2, <3>4, <3>5, <3>6, <3>7, <3>8, <3>9, <3>10, <3>11, QuietStep
  <2>4. QED
    BY <2>2, <2>3
<1>6. QED
  BY <1>4, <1>5

(* The answer is written into the row.                                     *)
LEMMA PutStep ==
    ASSUME Inv, NEW i \in Items, call[i].got = "done", NEW row, Put(i, row),
           row \in {call[i].res, Twice}, UNCHANGED <<scr, srv, crit, overtaken>>,
           Page.acts[call[i].act].after \in {"write", "add", "either"},
           call' = [call EXCEPT ![i] = Idle], BoxHolds'
    PROVE  Inv'
<1> DEFINE y == call[i]
<1>1. Called(Page, y) /\ y.act \in Acts /\ Careful(Page)
  BY WhatIsCalled, PageFacts DEF Called, Acts, Inv, Types
<1>2. ~Page.reads.server /\ ~Page.reads.drops
  <2>1. Page.acts[y.act].after \notin {"read", "untold"}
    OBVIOUS
  <2>2. QED
    BY <1>1, <2>1, ActFacts
<1>3. y.res \in Statuses
  <2>1. PICK s \in Statuses : y.res \in Page.serves[y.act][s]
    BY <1>1 DEF Called, Statuses
  <2>2. QED
    BY <1>1, <2>1, PageFacts DEF Inv, Types
<1>4. rows \in [Items -> Rows(Page)] \cup {None} /\ missed \subseteq Items
  BY DEF Inv, Types
<1>5. rows \in [Items -> Rows(Page)] => rows[i] # Absent
  <2>1. "absent" \notin DOMAIN Page.moves
    BY <1>2, PageFacts DEF Inv, Types, Closed
  <2>2. ASSUME rows \in [Items -> Rows(Page)]
        PROVE  rows[i] \in DOMAIN Page.moves \cup {Twice}
    BY <1>2, <2>2 DEF Rows
  <2>3. QED
    BY <2>1, <2>2 DEF Absent, Twice
<1>6. ASSUME rows # None
      PROVE  /\ rows' = [rows EXCEPT ![i] = row] /\ rows' \in [Items -> Rows(Page)]
             /\ rows'[i] = row /\ \A l \in Items : l # i => rows'[l] = rows[l]
             /\ rows' # None
  <2>1. row \in Rows(Page)
    BY <1>3 DEF Rows, Statuses
  <2>2. rows' = [rows EXCEPT ![i] = row] /\ rows \in [Items -> Rows(Page)]
    BY <1>4, <1>5, <1>6 DEF Put
  <2>3. rows' \in [Items -> Rows(Page)]
    BY <2>1, <2>2
  <2>4. rows' # None
    BY <2>3, NoRows DEF Inv, Types
  <2>5. QED
    BY <2>2, <2>3, <2>4
<1>7. rows = None => rows' = rows
  BY DEF Put
<1>8. missed' = IF srv[i] = y.res THEN missed ELSE missed \cup {i}
  BY DEF Put
<1>9. ASSUME rows # None
      PROVE  RowFits(Page, rows'[i], crit, srv[i], Idle, i \in missed')
  <2>1. CASE srv[i] # y.res
    BY <1>8, <2>1 DEF RowFits
  <2>2. CASE srv[i] = y.res
    <3>1. rows'[i] = row /\ ~Hopes(Page, Idle)
      BY <1>6, <1>9, IdleIs
    <3>2. row = Twice \/ row = Fit(Page, crit, srv[i])
      BY <1>2, <2>2 DEF Fit
    <3>3. QED
      BY <3>1, <3>2 DEF RowFits
  <2>3. QED
    BY <2>1, <2>2
<1>10. /\ wire' = Aged /\ UNCHANGED <<loading, failed>>
       /\ missed' \subseteq Items /\ \A l \in Items : l # i => (l \in missed <=> l \in missed')
  BY <1>4, <1>8 DEF Put
<1>11. /\ rows' \in [Items -> Rows(Page)] \cup {None}
       /\ rows # None => rows' # None
       /\ \A l \in Items : l # i => rows'[l] = rows[l]
  BY <1>4, <1>6, <1>7
<1>12. QED
  BY <1>2, <1>9, <1>10, <1>11, AgedStep

LEMMA DoneStep ==
    ASSUME Inv, NEW i \in Items, Done(i)
    PROVE  Inv'
<1> DEFINE y == call[i]  after == Page.acts[y.act].after
<1>1. /\ UNCHANGED <<scr, srv, crit, overtaken>> /\ y.got = "done"
      /\ call' = [call EXCEPT ![i] = Idle]
      /\ box' = None \/ box' = box
      /\ Page' = Page /\ srv \in [Items -> Statuses] /\ Careful(Page)
  BY SamePage, PageFacts DEF Done, Inv, Types, Statuses
<1>2. BoxHolds'
  BY <1>1 DEF Inv, BoxHolds
<1>3. Called(Page, y) /\ y.act \in Acts /\ ~Page.acts[y.act].mute
  BY <1>1, WhatIsCalled DEF Called, Acts
<1>4. after \in {"read", "write", "untold", "add", "either", "hope"}
  BY <1>1, <1>3, ActFacts
<1>5. CASE SendUnder(i) /\ UNCHANGED missed
  BY <1>1, <1>2, <1>3, <1>5, OverStep
<1>6. CASE after = "read"
  BY <1>5, <1>6 DEF Done
<1>7. CASE after = "write"
  <2>1. Put(i, y.res)
    BY <1>7 DEF Done
  <2>2. QED
    BY <1>1, <1>2, <1>7, <2>1, PutStep
<1>8. CASE after = "untold"
  <2>1. Behind(i) /\ UNCHANGED <<rows, loading, failed>>
    BY <1>8 DEF Done
  <2>2. /\ CallsHold' /\ call' = [l \in Items |-> call'[l]]
        /\ call'[i] = Idle /\ \A l \in Items : l # i => call'[l] = call[l]
    BY <1>1, OneCall
  <2>3. ~Hopes(Page, Idle)
    BY IdleIs
  <2>4. QED
    BY <1>1, <1>2, <2>1, <2>2, <2>3, BehindStep
<1>9. CASE after = "add"
  <2>1. PICK row \in {y.res, Twice} : Put(i, row)
    BY <1>9 DEF Done
  <2>2. QED
    BY <1>1, <1>2, <1>9, <2>1, PutStep
<1>10. CASE after = "either"
  <2>1. CASE y.res = y.saw
    BY <1>5, <1>10, <2>1 DEF Done
  <2>2. CASE y.res # y.saw
    <3>1. Put(i, y.res)
      BY <1>10, <2>2 DEF Done
    <3>2. QED
      BY <1>1, <1>2, <1>10, <3>1, PutStep
  <2>3. QED
    BY <2>1, <2>2
<1>11. CASE after = "hope"
  <2>1. wire' = Aged /\ UNCHANGED <<rows, missed, loading, failed>>
    BY <1>11 DEF Done
  <2>2. ~Page.reads.server /\ ~Page.reads.drops
    BY <1>1, <1>3, <1>11, ActFacts
  <2>3. Hopes(Page, y)
    BY <1>3, <1>11, PageFacts DEF Hopes, Inv, Types
  <2>4. RowFits(Page, rows[i], crit, srv[i], y, i \in missed)
            => RowFits(Page, rows[i], crit, srv[i], Idle, i \in missed)
    <3>1. ~Hopes(Page, Idle) /\ y.got = "done" /\ \A s : Fit(Page, crit, s) = s
      BY <1>1, <2>2, IdleIs DEF Fit
    <3> HIDE DEF y
    <3>2. QED
      BY <2>3, <3>1 DEF RowFits
  <2>5. missed \subseteq Items /\ rows \in [Items -> Rows(Page)] \cup {None}
    BY DEF Inv, Types
  <2>6. QED
    BY <1>1, <1>2, <2>1, <2>2, <2>4, <2>5, AgedStep
<1>12. QED
  BY <1>4, <1>6, <1>7, <1>8, <1>9, <1>10, <1>11

-----------------------------------------------------------------------------
(* Readings are answered, or fail.                                         *)

(* The rest of the readings.                                               *)
LEMMA RestIs ==
    ASSUME Inv, NEW k \in DOMAIN wire
    PROVE  /\ Removed(wire, k) \in Seq(Readings(Page))
           /\ Len(Removed(wire, k)) <= MaxReads
           /\ WireGood(Page, Removed(wire, k), srv, call)
<1>1. /\ wire \in Seq(Readings(Page)) /\ Len(wire) <= MaxReads
      /\ WireGood(Page, wire, srv, call)
  BY DEF Inv, Types, WireHolds
<1>2. Len(wire) \in Nat
  BY <1>1, WireIs
<1>3. Removed(wire, k) \in Seq(Readings(Page)) /\ Len(Removed(wire, k)) = Len(wire) - 1
  BY <1>1, WireRemoved
<1>4. Len(Removed(wire, k)) <= MaxReads
  BY <1>1, <1>2, <1>3, ListAssumption
<1>5. WireGood(Page, Removed(wire, k), srv, call)
  BY <1>1, RemovedGood
<1>6. QED
  BY <1>3, <1>4, <1>5

(* An answer the page drops.                                               *)
LEMMA DropStep ==
    ASSUME Inv, NEW k \in DOMAIN wire, Dropped(k), wire' = Removed(wire, k),
           UNCHANGED <<scr, srv, crit, rows, loading, failed, missed, overtaken, box, call>>
    PROVE  Inv'
<1>1. /\ Page' = Page /\ Page.reads.drops /\ (k < Len(wire) \/ wire[k].late)
      /\ wire \in Seq(Readings(Page)) /\ LateFirst(wire)
  BY SamePage DEF Dropped, Inv, Types, DropsHold
<1>2. Settled(Page, wire') => Settled(Page, wire)
  BY <1>1, DroppedSettled
<1>3. /\ LateFirst(wire')
      /\ k < Len(wire) => Last(wire') = Last(wire) /\ wire' # <<>>
      /\ k = Len(wire) => \A j \in DOMAIN wire' : wire'[j].late
  <2>1. /\ LateFirst(Removed(wire, k))
        /\ k < Len(wire) => Last(Removed(wire, k)) = Last(wire) /\ Removed(wire, k) # <<>>
        /\ k = Len(wire) => \A j \in DOMAIN Removed(wire, k) : Removed(wire, k)[j].late
    BY <1>1, RemovedLateFirst
  <2>2. QED
    BY <2>1
<1>4. /\ wire' \in Seq(Readings(Page)) /\ Len(wire') <= MaxReads
      /\ WireGood(Page, wire', srv, call)
  BY RestIs
<1>5. Len(wire) \in Nat /\ DOMAIN wire = 1 .. Len(wire) /\ wire # <<>>
  <2>1. Len(wire) \in Nat /\ DOMAIN wire = 1 .. Len(wire)
    BY <1>1, WireIs
  <2>2. QED
    BY <2>1
<1>6. k < Len(wire) \/ (k = Len(wire) /\ Last(wire).late)
  BY <1>1, <1>5 DEF Last
<1>7. wire' # <<>> /\ k = Len(wire) => Last(wire').late
  <2>1. wire' # <<>> => Len(wire') \in DOMAIN wire'
    BY <1>4, WireIs
  <2>2. QED
    BY <1>3, <2>1 DEF Last
<1>8. Types' /\ CallsHold' /\ BoxHolds' /\ WireHolds'
  BY <1>1, <1>4 DEF Inv, Types, CallsHold, BoxHolds, WireHolds
<1>9. DropsHold'
  BY <1>1, <1>3, <1>5, <1>6, <1>7 DEF Inv, DropsHold
<1>10. RowsHold'
  BY <1>1, <1>2 DEF Inv, RowsHold
<1>11. LoadingHolds'
  BY <1>1, <1>3, <1>6 DEF Inv, LoadingHolds
<1>12. QED
  BY <1>8, <1>9, <1>10, <1>11 DEF Inv

(* Of a page that drops old answers: no reading is left to be shown.        *)
LEMMA TakenDrops ==
    ASSUME Inv, NEW k \in DOMAIN wire, ~Dropped(k), wire' = Removed(wire, k), Page.reads.drops
    PROVE  /\ k = Len(wire) /\ ~wire[k].late
           /\ LateFirst(wire') /\ (wire' # <<>> => Last(wire').late)
<1>1. wire \in Seq(Readings(Page)) /\ LateFirst(wire)
  BY DEF Inv, Types, DropsHold
<1>2. Len(wire) \in Nat /\ DOMAIN wire = 1 .. Len(wire)
  BY <1>1, WireIs
<1>3. k = Len(wire) /\ ~wire[k].late
  BY <1>2 DEF Dropped
<1>4. LateFirst(wire') /\ \A j \in DOMAIN wire' : wire'[j].late
  <2>1. /\ LateFirst(Removed(wire, k))
        /\ \A j \in DOMAIN Removed(wire, k) : Removed(wire, k)[j].late
    BY <1>1, <1>3, RemovedLateFirst
  <2>2. QED
    BY <2>1
<1>5. wire' # <<>> => Len(wire') \in DOMAIN wire'
  BY RestIs, WireIs
<1>6. QED
  BY <1>3, <1>4, <1>5 DEF Last

LEMMA NoHopes ==
    ASSUME Inv, NEW i \in Items
    PROVE  /\ Hopes(Page, call[i]) <=>
                  call[i].act # None /\ Page.acts[call[i].act].after = "hope"
           /\ Page.reads.drops => ~Hopes(Page, call[i])
<1>1. CASE call[i] = Idle
  BY <1>1, IdleIs DEF Hopes
<1>2. CASE Called(Page, call[i])
  <2>1. Careful(Page) /\ call[i].act \in Acts
    BY <1>2, PageFacts DEF Inv, Types, Called, Acts
  <2>2. QED
    BY <2>1, ActFacts DEF Hopes
<1>3. QED
  BY <1>1, <1>2 DEF Inv, CallsHold

LEMMA ArriveStep ==
    ASSUME Inv, NEW k \in DOMAIN wire, Arrive(k)
    PROVE  Inv'
<1>1. /\ Page' = Page /\ wire[k].snap # None /\ wire' = Removed(wire, k)
      /\ UNCHANGED <<scr, srv, crit, box, call>>
  BY SamePage DEF Arrive, Without, Removed
<1>2. CASE Dropped(k)
  BY <1>1, <1>2, DropStep DEF Arrive
<1>3. CASE ~Dropped(k)
  <2>1. /\ rows' = wire[k].snap /\ loading' = FALSE /\ failed' = FALSE
        /\ missed' = wire[k].behind /\ overtaken' = Stale(k)
    BY <1>3 DEF Arrive
  <2>2. wire \in Seq(Readings(Page)) /\ WireGood(Page, wire, srv, call)
    BY DEF Inv, Types, WireHolds
  <2>3. wire[k] \in Readings(Page)
    BY <2>2, WireIs
  <2>4. rows' \in [Items -> Rows(Page)] /\ rows' # None /\ missed' \subseteq Items
    BY <1>1, <2>1, <2>3 DEF Readings
  <2>5. overtaken' \in BOOLEAN
    BY <2>1, <2>3 DEF Readings, Stale
  <2>6. /\ wire' \in Seq(Readings(Page)) /\ Len(wire') <= MaxReads
        /\ WireGood(Page, wire', srv, call)
    BY <1>1, RestIs
  <2>7. Types' /\ CallsHold' /\ BoxHolds' /\ WireHolds'
    BY <1>1, <2>1, <2>4, <2>5, <2>6 DEF Inv, Types, CallsHold, BoxHolds, WireHolds
  <2>8. DropsHold'
    <3>1. ASSUME Page.reads.drops
          PROVE  ~overtaken' /\ LateFirst(wire') /\ (wire' # <<>> => Last(wire').late)
      <4>1. /\ k = Len(wire) /\ ~wire[k].late
            /\ LateFirst(wire') /\ (wire' # <<>> => Last(wire').late)
        BY <1>1, <1>3, <3>1, TakenDrops
      <4>2. Page.reads.server => wire[k].crit = crit
        <5>1. wire # <<>>
          BY <2>2, WireIs
        <5>2. QED
          BY <3>1, <4>1, <5>1 DEF Inv, DropsHold, Last
      <4>3. \A i \in Items : ~(call[i].act # None /\ Page.acts[call[i].act].after = "hope")
        BY <3>1, NoHopes
      <4>4. ~Stale(k)
        BY <4>1, <4>2, <4>3 DEF Stale
      <4>5. QED
        BY <2>1, <4>1, <4>4
    <3>2. QED
      BY <1>1, <3>1 DEF DropsHold
  <2>9. RowsHold'
    <3>1. ASSUME Settled(Page, wire'), ~Stale(k), NEW i \in Items
          PROVE  RowFits(Page, rows'[i], crit, srv[i], call[i], i \in missed')
      <4>1. \/ wire[k].late
            \/ \A l \in Items : call[l].got = "done" \/ Tells(Page, wire[k], l, srv[l])
        <5>1. ~(Page.reads.drops /\ (k < Len(wire) \/ wire[k].late))
          BY <1>3 DEF Dropped
        <5>2. QED
          BY <1>1, <2>2, <3>1, <5>1, LastWord
      <4>2. /\ ~wire[k].late /\ (Page.reads.server => wire[k].crit = crit)
            /\ ~Hopes(Page, call[i])
        BY <3>1, NoHopes DEF Stale
      <4>3. call[i].got = "done" \/ Tells(Page, wire[k], i, srv[i])
        BY <4>1, <4>2
      <4>4. Fit(Page, wire[k].crit, srv[i]) = Fit(Page, crit, srv[i])
        BY <4>2 DEF Fit
      <4>5. call[i].got = "done" \/ i \in missed' \/ rows'[i] = Fit(Page, crit, srv[i])
        BY <1>1, <2>1, <4>3, <4>4 DEF Tells
      <4>6. QED
        BY <4>2, <4>5 DEF RowFits
    <3>2. QED
      BY <1>1, <2>1, <2>4, <3>1 DEF RowsHold
  <2>10. LoadingHolds'
    BY <1>1, <2>1, <2>4 DEF LoadingHolds
  <2>11. QED
    BY <2>7, <2>8, <2>9, <2>10 DEF Inv
<1>4. QED
  BY <1>2, <1>3

LEMMA FailStep ==
    ASSUME Inv, NEW k \in DOMAIN wire, Fail(k)
    PROVE  Inv'
<1>1. /\ Page' = Page /\ wire' = Removed(wire, k)
      /\ UNCHANGED <<scr, srv, crit, rows, missed, overtaken, box, call>>
  BY SamePage DEF Fail, Without, Removed
<1>2. CASE Dropped(k)
  BY <1>1, <1>2, DropStep DEF Fail
<1>3. CASE ~Dropped(k)
  <2>1. loading' = FALSE /\ failed' = TRUE
    BY <1>3 DEF Fail
  <2>2. /\ wire' \in Seq(Readings(Page)) /\ Len(wire') <= MaxReads
        /\ WireGood(Page, wire', srv, call)
    BY <1>1, RestIs
  <2>3. Types' /\ CallsHold' /\ BoxHolds' /\ WireHolds'
    BY <1>1, <2>1, <2>2 DEF Inv, Types, CallsHold, BoxHolds, WireHolds
  <2>4. DropsHold'
    <3>1. Page.reads.drops => LateFirst(wire') /\ (wire' # <<>> => Last(wire').late)
      BY <1>1, <1>3, TakenDrops
    <3>2. QED
      BY <1>1, <3>1 DEF Inv, DropsHold
  <2>5. RowsHold' /\ LoadingHolds'
    BY <1>1, <2>1 DEF RowsHold, Inv, LoadingHolds
  <2>6. QED
    BY <2>3, <2>4, <2>5 DEF Inv
<1>4. QED
  BY <1>2, <1>3

-----------------------------------------------------------------------------
(* The invariant is one.                                                   *)

LEMMA InvInit == Init => Inv
<1> SUFFICES ASSUME Init PROVE Inv
  OBVIOUS
<1>1. /\ scr \in DOMAIN Pages /\ srv \in [Items -> DOMAIN Page.moves]
      /\ crit \in DOMAIN Page.shows
      /\ rows = None /\ loading = TRUE /\ failed = FALSE /\ missed = {} /\ overtaken = FALSE
      /\ box = None /\ call = [i \in Items |-> Idle]
  BY DEF Init, Statuses
<1>2. wire = Append(<<>>, Reading(crit))
  BY DEF Init
<1>3. <<>> \in Seq(Readings(Page)) /\ LateFirst(<<>>) /\ Len(<<>>) = 0
  BY EmptySeq DEF LateFirst
<1>4. /\ wire \in Seq(Readings(Page)) /\ Len(wire) = 1
      /\ wire # <<>> /\ ~Last(wire).late /\ Last(wire).crit = crit
      /\ WireGood(Page, wire, srv, call) /\ LateFirst(wire) /\ ~Settled(Page, wire)
  <2>1. LET v == Append(<<>>, Reading(crit))
        IN  /\ v \in Seq(Readings(Page)) /\ Len(v) = Len(<<>>) + 1
            /\ v # <<>> /\ ~Last(v).late /\ Last(v).crit = crit
            /\ \A sv, cl : WireGood(Page, v, sv, cl)
            /\ LateFirst(<<>>) => LateFirst(v)
            /\ ~Settled(Page, v)
    BY <1>1, <1>3, WireAppended
  <2>2. QED
    BY <1>2, <1>3, <2>1
<1>5. Len(wire) <= MaxReads
  BY <1>4, ListAssumption
<1>6. \A i \in Items : call[i] = Idle
  BY <1>1
<1>7. call = [i \in Items |-> call[i]]
  BY <1>1
<1>8. Types /\ CallsHold /\ BoxHolds
  BY <1>1, <1>4, <1>5, <1>6, <1>7 DEF Types, CallsHold, BoxHolds
<1>9. WireHolds /\ DropsHold /\ RowsHold
  BY <1>1, <1>4 DEF WireHolds, DropsHold, RowsHold
<1>10. LoadingHolds
  BY <1>4, <1>6, IdleIs DEF LoadingHolds
<1>11. QED
  BY <1>8, <1>9, <1>10 DEF Inv

LEMMA InvStep == Inv /\ [Next]_vars => Inv'
<1> SUFFICES ASSUME Inv, [Next]_vars PROVE Inv'
  OBVIOUS
<1>1. CASE UNCHANGED vars
  BY <1>1 DEF vars, Inv, Types, Page, CallsHold, BoxHolds, WireHolds, DropsHold, RowsHold,
              LoadingHolds
<1>2. CASE \E c \in DOMAIN Page.shows : Choose(c)
  BY <1>2, ChooseStep
<1>3. CASE Again
  BY <1>3, AgainStep
<1>4. CASE Close \/ \E i \in Items, act \in Acts : Open(i, act)
  BY <1>4, BoxSteps
<1>5. CASE Confirm
  BY <1>5, ConfirmStep
<1>6. CASE \E k \in DOMAIN wire : Serve(k) \/ Arrive(k) \/ Fail(k)
  BY <1>6, ServeStep, ArriveStep, FailStep
<1>7. CASE \E i \in Items, act \in Acts : Press(i, act)
  BY <1>7, PressStep
<1>8. CASE \E i \in Items : Refuse(i) \/ Act(i) \/ Test(i) \/ Save(i)
  BY <1>8, ServerSteps
<1>9. CASE \E i \in Items : Lose(i) \/ Elsewhere(i)
  BY <1>9, LoseStep, ElsewhereStep
<1>10. CASE \E i \in Items : Done(i) \/ Refused(i)
  BY <1>10, DoneStep, RefusedStep
<1>11. QED
  BY <1>1, <1>2, <1>3, <1>4, <1>5, <1>6, <1>7, <1>8, <1>9, <1>10 DEF Next

LEMMA Invariance == Spec => []Inv
BY InvInit, InvStep, PTL DEF Spec

-----------------------------------------------------------------------------

(* Every variable of a list screen holds what it is declared to hold, for    *)
(* any rows and however many readings are on their way.                     *)
THEOREM ListScreenTypes == Spec => []TypeOK
<1>1. Inv => TypeOK
  <2> SUFFICES ASSUME Inv PROVE TypeOK
    OBVIOUS
  <2>1. rows \in [Items -> Statuses \cup {Absent, Twice}] \cup {None}
    <3>1. Rows(Page) \subseteq Statuses \cup {Absent, Twice}
      BY DEF Rows, Statuses
    <3>2. QED
      BY <3>1 DEF Inv, Types
  <2>2. box # None => box.item \in Items /\ box.act \in Acts
    BY DEF Inv, BoxHolds, Asked, Acts
  <2>3. \A i \in Items : call[i].act \in Acts \cup {None}
    BY IdleIs DEF Inv, CallsHold, Called, Acts
  <2>4. QED
    BY <2>1, <2>2, <2>3 DEF Inv, Types, TypeOK, Statuses
<1>2. QED
  BY <1>1, Invariance, PTL

(* What a screen at rest shows of a row nobody else has changed.            *)
LEMMA RestingRow ==
    ASSUME Inv, NEW i \in Items, Fresh(i)
    PROVE  ~Covered /\ rows # None /\ rows[i] = Fit(Page, crit, srv[i]) /\ srv[i] \in Statuses
<1>1. wire = <<>> /\ call[i] = Idle /\ ~failed /\ ~overtaken /\ i \notin missed
  BY DEF Fresh, AtRest
<1>2. ~loading
  BY <1>1 DEF Inv, LoadingHolds
<1>3. rows # None /\ RowFits(Page, rows[i], crit, srv[i], call[i], i \in missed)
  BY <1>1 DEF Inv, RowsHold, Settled
<1>4. rows[i] # Twice
  BY <1>3 DEF Fresh
<1>5. rows[i] = Fit(Page, crit, srv[i])
  BY <1>1, <1>3, <1>4, IdleIs DEF RowFits
<1>6. QED
  BY <1>1, <1>2, <1>3, <1>5 DEF Covered, Inv, Types, Statuses

LEMMA RestingListed ==
    ASSUME Inv, NEW i \in Items, Fresh(i)
    PROVE  /\ Listed(i) <=> Shown(crit, srv[i])
           /\ Listed(i) => rows[i] = srv[i]
<1>1. ~Covered /\ rows # None /\ rows[i] = Fit(Page, crit, srv[i]) /\ srv[i] \in Statuses
  BY RestingRow
<1>2. Closed(Page) /\ crit \in DOMAIN Page.shows
  BY PageFacts DEF Inv, Types
<1>3. srv[i] # Twice /\ (srv[i] = Absent => Page.reads.server /\ ~Shown(crit, srv[i]))
  BY <1>1, <1>2 DEF Closed, Statuses, Absent, Twice, Shown
<1>4. Absent # Twice
  BY DEF Absent, Twice
<1>5. QED
  BY <1>1, <1>3, <1>4 DEF Listed, Fit, Shown

(* Once every reading and act has been answered, what a list screen shows    *)
(* of a row, and counts on its tabs, is what the server holds: whatever     *)
(* order the readings were answered in, which of them failed, and which     *)
(* acts were refused, lost or reverted, for any rows and readings.          *)
THEOREM ScreensSettle == Spec => []SettledShowsServer
<1>1. Inv => SettledShowsServer
  <2> SUFFICES ASSUME Inv PROVE SettledShowsServer
    OBVIOUS
  <2>1. Closed(Page) /\ Counted(scr) /\ Page = Pages[scr]
    BY PageFacts DEF Inv, Types, Page
  <2>2. Page.reads.drops => ~overtaken
    BY DEF Inv, DropsHold
  <2>3. ASSUME NEW i \in Items, Fresh(i)
        PROVE  /\ ~Covered
               /\ Listed(i) <=> Shown(crit, srv[i])
               /\ Listed(i) => rows[i] = srv[i]
               /\ \A c \in DOMAIN Page.counts : CountsAll(i, c)
    <3>1. ~Covered /\ rows # None /\ rows[i] = Fit(Page, crit, srv[i]) /\ srv[i] \in Statuses
      BY <2>3, RestingRow
    <3>2. (Listed(i) <=> Shown(crit, srv[i])) /\ (Listed(i) => rows[i] = srv[i])
      BY <2>3, RestingListed
    <3>3. ASSUME NEW c \in DOMAIN Page.counts
          PROVE  CountsAll(i, c)
      <4>1. /\ c \in DOMAIN Page.shows
            /\ \/ srv[i] \in Page.counts[c] <=> srv[i] \in Page.shows[c]
               \/ scr = "documents" /\ srv[i] \in OlderDocs
            /\ Page.reads.server =>
                   /\ "absent" \notin Page.counts[c]
                   /\ "ALL" \in DOMAIN Page.shows /\ Page.shows[c] \subseteq Page.shows["ALL"]
        BY <2>1, <3>1 DEF Counted, Statuses
      <4>2. CASE rows[i] = srv[i]
        BY <4>1, <4>2 DEF CountsAll, Shown
      <4>3. CASE rows[i] # srv[i]
        <5>1. Page.reads.server /\ srv[i] \notin Page.shows[crit] /\ rows[i] = Absent
          BY <3>1, <4>3 DEF Fit
        <5>2. CASE crit # "ALL"
          BY <5>1, <5>2 DEF CountsAll
        <5>3. CASE crit = "ALL"
          BY <4>1, <5>1, <5>3 DEF CountsAll, Shown, Absent
        <5>4. QED
          BY <5>2, <5>3
      <4>4. QED
        BY <4>2, <4>3
    <3>4. QED
      BY <3>1, <3>2, <3>3
  <2>4. QED
    BY <2>2, <2>3 DEF SettledShowsServer
<1>2. QED
  BY <1>1, Invariance, PTL

(* A screen at rest offers on a row nobody else has changed what the server *)
(* will do, and some tab of it offers whatever the server would change of   *)
(* the row, but for what KnownRefused and KnownMissing list.               *)
THEOREM OffersMatch == Spec => []OffersMatchServer
<1>1. Inv => OffersMatchServer
  <2> SUFFICES ASSUME Inv, NEW i \in Items, Fresh(i)
               PROVE  /\ \A a \in Offered(i) \ KnownRefused(scr, srv[i]) :
                            Page.serves[a][srv[i]] # {} /\ ~Page.acts[a].mute
                      /\ \A a \in Acts \ KnownMissing(scr, srv[i]) :
                            \/ Page.serves[a][srv[i]] \subseteq {srv[i]}
                            \/ a \in Offered(i)
                            \/ /\ ~Listed(i) /\ a \in Page.offers[srv[i]]
                               /\ \E c \in DOMAIN Page.shows : Shown(c, srv[i])
    BY DEF OffersMatchServer
  <2>1. Suited(scr) /\ Page = Pages[scr] /\ crit \in DOMAIN Page.shows
    BY EveryPage DEF Inv, Types, Page, Sound
  <2>2. srv[i] \in Statuses
    BY RestingRow
  <2>3. (Listed(i) <=> Shown(crit, srv[i])) /\ (Listed(i) => rows[i] = srv[i])
    BY RestingListed
  <2>4. Offered(i) = IF Listed(i) THEN Page.offers[srv[i]] ELSE {}
    BY <2>3 DEF Offered
  <2>5. Page.offers[srv[i]] \subseteq Acts
    BY <2>2, PageFacts DEF Inv, Types
  <2>6. ASSUME NEW a \in Acts
        PROVE  /\ (\E c \in DOMAIN Page.shows : Shown(c, srv[i])) /\ a \in Page.offers[srv[i]] =>
                     \/ a \in KnownRefused(scr, srv[i])
                     \/ Page.serves[a][srv[i]] # {} /\ ~Page.acts[a].mute
               /\ \/ a \in KnownMissing(scr, srv[i])
                  \/ Page.serves[a][srv[i]] \subseteq {srv[i]}
                  \/ /\ \E c \in DOMAIN Page.shows : Shown(c, srv[i])
                     /\ a \in Page.offers[srv[i]]
    BY <2>1, <2>2 DEF Suited, Shown, Acts, Statuses
  <2>7. ASSUME NEW a \in Offered(i), a \notin KnownRefused(scr, srv[i])
        PROVE  Page.serves[a][srv[i]] # {} /\ ~Page.acts[a].mute
    BY <2>1, <2>3, <2>4, <2>5, <2>6, <2>7
  <2>8. ASSUME NEW a \in Acts, a \notin KnownMissing(scr, srv[i])
        PROVE  \/ Page.serves[a][srv[i]] \subseteq {srv[i]}
               \/ a \in Offered(i)
               \/ /\ ~Listed(i) /\ a \in Page.offers[srv[i]]
                  /\ \E c \in DOMAIN Page.shows : Shown(c, srv[i])
    BY <2>4, <2>6, <2>8
  <2>9. QED
    BY <2>7, <2>8
<1>2. QED
  BY <1>1, Invariance, PTL

(* The stage that is written into a call is the stage it is at.            *)
LEMMA GotIs ==
    ASSUME NEW y, NEW g, NEW r,
           y = [act |-> y.act, saw |-> y.saw, under |-> y.under, got |-> y.got, res |-> y.res]
    PROVE  [y EXCEPT !.got = g, !.res = r].got = g
<1>1. [y EXCEPT !.got = g, !.res = r] =
          [act |-> y.act, saw |-> y.saw, under |-> y.under, got |-> g, res |-> r]
  BY Progress
<1>2. QED
  BY <1>1

(* An act that is done was done on the row as the server has it, or, if the *)
(* row is not held, as the server had it when it tested it.                *)
LEMMA DoneIs ==
    ASSUME Inv, [Next]_vars, NEW i \in Items,
           call[i].got \in {"sent", "tested"}, call'[i].got = "done"
    PROVE  \E s \in Statuses : /\ srv'[i] \in Page.serves[call[i].act][s]
                               /\ s = srv[i] \/ ~Page.acts[call[i].act].locks
<1> DEFINE y == call[i]
<1>1. /\ call = [l \in Items |-> call[l]] /\ srv \in [Items -> Statuses]
      /\ Called(Page, y)
  BY WhatIsCalled DEF Inv, Types, Statuses
<1>2. y = [act |-> y.act, saw |-> y.saw, under |-> y.under, got |-> y.got, res |-> y.res]
  BY <1>1 DEF Called
<1>3. \A g, r : [y EXCEPT !.got = g, !.res = r].got = g
  <2> HIDE DEF y
  <2>1. QED
    BY <1>2, GotIs
<1>4. Idle.got # "done" /\ call[i] # Idle
  BY IdleIs, ListAssumption DEF Idle
<1>5. call' # call
  BY <1>1
<1>6. PICK j \in Items :
          \/ \E act, saw : Begin(j, act, saw)
          \/ Refuse(j) \/ Act(j) \/ Test(j) \/ Save(j) \/ Lose(j) \/ Done(j) \/ Refused(j)
  <2>1. CASE Confirm
    <3>1. box.item \in Items /\ Begin(box.item, box.act, box.saw)
      BY <2>1 DEF Confirm, Inv, BoxHolds, Asked
    <3>2. QED
      BY <3>1
  <2>2. CASE \E l \in Items, act \in Acts : Press(l, act)
    BY <2>2 DEF Press
  <2>3. CASE \E l \in Items : \/ Refuse(l) \/ Act(l) \/ Test(l) \/ Save(l)
                             \/ Lose(l) \/ Done(l) \/ Refused(l)
    BY <2>3
  <2>4. CASE \/ UNCHANGED vars \/ \E c \in DOMAIN Page.shows : Choose(c)
             \/ Again \/ Close
             \/ \E k \in DOMAIN wire : Serve(k) \/ Arrive(k) \/ Fail(k)
             \/ \E l \in Items : Elsewhere(l) \/ \E act \in Acts : Open(l, act)
    BY <1>5, <2>4 DEF vars, Choose, Again, Close, Serve, Arrive, Fail, Elsewhere, Open
  <2>5. QED
    BY <2>1, <2>2, <2>3, <2>4 DEF Next
<1>7. CASE j # i
  <2>1. \A x : call' = [call EXCEPT ![j] = x] => call'[i] = call[i]
    BY <1>1, <1>7
  <2>2. \E x : call' = [call EXCEPT ![j] = x]
    BY <1>6 DEF Begin, Refuse, Act, Test, Save, Lose, Done, Refused
  <2>3. QED
    BY <1>1, <2>1, <2>2
<1>8. CASE j = i /\ Act(i)
  <2>1. PICK s \in Page.serves[call[i].act][srv[i]] : srv' = [srv EXCEPT ![i] = s]
    BY <1>8 DEF Act, Results
  <2>2. srv'[i] = s /\ srv[i] \in Statuses
    BY <1>1, <2>1
  <2>3. QED
    BY <2>2
<1>9. CASE j = i /\ Save(i)
  <2>1. srv'[i] = call[i].res /\ call[i].got = "tested"
    BY <1>1, <1>9 DEF Save
  <2>2. /\ ~Page.acts[call[i].act].locks
        /\ \E s \in Statuses : call[i].res \in Page.serves[call[i].act][s]
    BY <1>1, <2>1 DEF Called, Statuses
  <2>3. QED
    BY <2>1, <2>2
<1>10. CASE j = i /\ ~(Act(i) \/ Save(i))
  <2>1. Refuse(i) \/ Test(i) \/ Lose(i) \/ Done(i) \/ Refused(i)
    BY <1>4, <1>6, <1>10 DEF Begin
  <2>2. CASE Refuse(i)
    <3>1. call'[i] = [y EXCEPT !.got = "failed"]
      BY <1>1, <2>2 DEF Refuse
    <3>2. QED
      BY <1>1, <1>2, <3>1
  <2>3. CASE Test(i)
    <3>1. PICK s : call' = [call EXCEPT ![i].got = "tested", ![i].res = s]
      BY <2>3 DEF Test
    <3>2. call'[i] = [y EXCEPT !.got = "tested", !.res = s]
      BY <1>1, <3>1
    <3>3. call'[i].got = "tested"
      BY <1>3, <3>2
    <3>4. QED
      BY <3>3
  <2>4. CASE Lose(i)
    <3>1. call'[i] = [y EXCEPT !.got = "failed", !.res = None]
      BY <1>1, <2>4 DEF Lose
    <3>2. call'[i].got = "failed"
      BY <1>3, <3>1
    <3>3. QED
      BY <3>2
  <2>5. CASE Done(i) \/ Refused(i)
    BY <1>1, <1>4, <2>5 DEF Done, Refused
  <2>6. QED
    BY <2>1, <2>2, <2>3, <2>4, <2>5
<1>11. QED
  BY <1>6, <1>7, <1>8, <1>9, <1>10

(* Whatever others do to the rows, and whenever they do it, an act not      *)
(* known to overwrite never changes a row that is no longer the one shown.  *)
THEOREM OthersDecisionsStand == Spec => DecisionsStand
<1>1. ASSUME Inv, [Next]_vars, NEW i \in Items,
             call[i].got \in {"sent", "tested"}, call'[i].got = "done",
             call[i].act \notin KnownOverwrites(scr),
             ~(Page.serves[call[i].act][call[i].saw] \subseteq {call[i].saw}),
             srv[i] # call[i].saw
      PROVE  srv'[i] = srv[i]
  <2>1. call[i].act \in Acts /\ call[i].saw \in Statuses /\ srv[i] \in Statuses
    BY <1>1, WhatIsCalled DEF Called, Acts, Statuses, Inv, Types
  <2>2. Stands(scr) /\ Page = Pages[scr]
    BY <1>1, EveryPage DEF Inv, Types, Page, Sound
  <2>3. /\ Page.serves[call[i].act][srv[i]] \subseteq {srv[i]}
        /\ \/ Page.acts[call[i].act].locks
           \/ \A u \in Statuses : Page.serves[call[i].act][u] \subseteq {srv[i]}
    <3>1. \A a \in Acts \ KnownOverwrites(scr), s, t \in Statuses :
             (s # t /\ ~(Page.serves[a][s] \subseteq {s})) =>
                 /\ Page.serves[a][t] \subseteq {t}
                 /\ Page.acts[a].locks
                      \/ \A u \in Statuses : Page.serves[a][u] \subseteq {t}
      BY <2>2 DEF Stands, Acts, Statuses
    <3>2. call[i].act \in Acts \ KnownOverwrites(scr)
      BY <1>1, <2>1
    <3>3. QED
      BY <1>1, <2>1, <3>1, <3>2
  <2>4. PICK s \in Statuses : /\ srv'[i] \in Page.serves[call[i].act][s]
                              /\ s = srv[i] \/ ~Page.acts[call[i].act].locks
    BY <1>1, DoneIs
  <2>5. Page.serves[call[i].act][s] \subseteq {srv[i]}
    <3>1. CASE s = srv[i]
      BY <2>3, <3>1
    <3>2. CASE ~Page.acts[call[i].act].locks
      BY <2>3, <3>2
    <3>3. QED
      BY <2>4, <3>1, <3>2
  <2>6. srv'[i] \in Page.serves[call[i].act][s]
    BY <2>4
  <2>7. QED
    BY <2>5, <2>6
<1>2. Inv /\ [Next]_vars =>
          [\A i \in Items :
              (/\ call[i].got \in {"sent", "tested"} /\ call'[i].got = "done"
               /\ call[i].act \notin KnownOverwrites(scr)
               /\ ~(Page.serves[call[i].act][call[i].saw] \subseteq {call[i].saw}))
              => srv[i] = call[i].saw \/ srv'[i] = srv[i]]_vars
  BY <1>1
<1>3. QED
  BY <1>2, Invariance, PTL DEF Spec, DecisionsStand
=============================================================================
