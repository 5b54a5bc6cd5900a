----------------------------- MODULE FormProofs -----------------------------
(***************************************************************************)
(* Theorems on the forms.  First of their tables: what the fields have in   *)
(* common, in the words of Kinds, Closed, Honours, StaysSound and Means, and *)
(* that each has it, field by field.  Then of what a person, the server and *)
(* everybody else can do to a field that has it.                            *)
(***************************************************************************)
EXTENDS FormScreens, TLAPS

-----------------------------------------------------------------------------
(* What the fields have in common.                                          *)

(* A form creates a record, and reads nothing; or is opened to change one   *)
(* it has read; or shows one, and reads it again.                           *)
Kinds(F) ==
    /\ F.creates => F.reads = "none" /\ F.unread = None /\ ~F.edits /\ ~F.again
    /\ F.edits => F.reads = "behind" /\ F.unread = None /\ ~F.again
    /\ F.again =>
           /\ DOMAIN F.fills = {}
           /\ \/ F.reads = "behind" /\ F.unread = None
              \/ F.reads = "beside" /\ F.unread = F.first
    /\ F.creates \/ F.edits \/ F.again
    /\ ~F.creates => ~F.draft /\ ~F.kept /\ F.ages = Same(F.values) /\ F.early = F.values
    /\ F.draft => ~F.kept

(* Its tables lead from its values to its values, and nothing is saved but  *)
(* as it was sent.                                                         *)
Closed(F) ==
    /\ {None, Left} \cap F.values = {} /\ {None, Sent} \cap (F.values \cup F.records) = {}
    /\ None \notin {Left, Sent} \cup Calls(F)
    /\ F.first \in F.values \/ (F.edits /\ DOMAIN F.fills = {})
    /\ IF F.creates THEN F.others = {}
       ELSE F.records \cup F.others \subseteq F.values /\ F.shows = Same(F.values)
    /\ \A v \in F.values :
           /\ F.types[v] \subseteq F.values /\ F.ages[v] \in F.values
           /\ F.sends[v] \in {v, None} /\ F.stores[v] \subseteq {v}
           /\ \A f \in DOMAIN F.fills, was \in F.values \cup {Left} :
                  F.fills[f].put[<<was, v>>] \subseteq F.values

(* What an answer puts into a field honours what was typed meanwhile, or is *)
(* known not to; and so does what time makes of it.                        *)
Mute(F, v) == F.types[v] = {}
After(F, v) == F.types[v] \cup UNION {F.types[w] : w \in F.types[v]}
Typed(F) == UNION {F.types[v] : v \in F.values}
Honours(p) ==
    LET F == Fields[p]
        honoured(v) == F.likes[v] \cup OverwrittenIn(p)
    IN  /\ \A v \in Typed(F) : v \in F.likes[v]
        /\ \A v \in F.values : \A w \in After(F, v) : F.types[w] \subseteq After(F, v)
        /\ F.ages # Same(F.values) =>
               /\ DOMAIN F.fills = {} /\ OverwrittenIn(p) = {}
               /\ \A v \in Typed(F) : F.likes[v] = {v} /\ F.ages[v] \in Typed(F)
        /\ \A f \in DOMAIN F.fills :
               /\ DOMAIN F.fills = {f}
               /\ IF F.fills[f].pressed
                  THEN \A was \in F.values : \A v \in After(F, was) :
                           F.fills[f].put[<<was, v>>] \subseteq honoured(v)
                  ELSE \A was \in F.values, h \in Typed(F) :
                    \A now \in F.values \cap honoured(h) :
                           F.fills[f].put[<<was, now>>] \subseteq honoured(h)
               /\ F.edits => F.fills[f].pressed /\ \A v \in F.values : Mute(F, v)
               /\ F.kept => p = "requestPhotos" /\ F.fills[f].pressed /\ Mute(F, F.first)

(* What the server takes, or is known to refuse, a step lets through, and   *)
(* neither time nor an answer makes another of it.                          *)
Sound(p) ==
    LET F == Fields[p]
    IN  {v \in F.values : v \in F.checks \ RefusedIn(p) =>
                              F.sends[v] = None \/ F.stores[F.sends[v]] # {}}
StaysSound(p) ==
    LET F == Fields[p]
    IN  /\ F.early \subseteq Sound(p)
        /\ \A v \in Sound(p) :
               /\ F.ages[v] \in Sound(p)
               /\ \A f \in DOMAIN F.fills, was \in F.values \cup {Left} :
                      F.fills[f].put[<<was, v>>] \subseteq Sound(p)

(* What is left out is empty, or known to be lost; and what a form offers   *)
(* by itself is what it makes of it.                                       *)
Means(p) ==
    LET F == Fields[p]
        offered == OfferedBy(F) \cap F.values
    IN  /\ \A v \in F.values :
               F.sends[v] = None =>
                   IF F.creates
                   THEN "" \in F.values /\ (v = "" \/ (p = "requestSlot" /\ v = "hours alone"))
                   ELSE p = "transporterCapacity" /\ v = "" /\ F.cached /\ F.edits
        /\ F.creates =>
               \A v \in offered :
                   /\ F.ages[v] \in offered
                   /\ \A f \in DOMAIN F.fills, was \in F.values :
                          F.fills[f].put[<<was, v>>] \subseteq offered \/ F.fills[f].pressed

Fit(p) == Kinds(Fields[p]) /\ Closed(Fields[p]) /\ Honours(p) /\ StaysSound(p) /\ Means(p)

-----------------------------------------------------------------------------
(* The tables.  Most fields are typed in freely: any of the types T is made *)
(* of any value at once, and honours itself alone.                          *)
TypedIn(F, T) == \A v \in F.values : F.types[v] = T \ {v} /\ F.likes[v] = {v}

(* What is in L is left out of what is sent, what is in B is refused.       *)
Saves(F, L, B) ==
    \A v \in F.values :
        /\ F.sends[v] = IF v \in L THEN None ELSE v
        /\ F.stores[v] = IF v \in B THEN {} ELSE {v}

(* What is typed in freely can be typed again.                              *)
LEMMA FreelyTyped ==
    ASSUME NEW F, NEW T, T \subseteq F.values, TypedIn(F, T)
    PROVE  /\ \A v \in Typed(F) : v \in F.values /\ v \in F.likes[v]
           /\ \A v \in F.values : F.types[v] \subseteq F.values
           /\ \A v \in F.values : \A w \in After(F, v) : F.types[w] \subseteq After(F, v)
<1>1. \A v \in Typed(F) : v \in T
  BY DEF Typed, TypedIn
<1>2. ASSUME NEW v \in F.values, NEW w \in After(F, v), NEW x \in F.types[w]
      PROVE  x \in After(F, v)
  <2>1. w \in T /\ w \in F.values
    BY <1>2 DEF After, TypedIn
  <2>2. x \in T /\ x # w /\ x \in F.values
    BY <1>2, <2>1 DEF TypedIn
  <2>3. CASE x # v
    BY <1>2, <2>2, <2>3 DEF After, TypedIn
  <2>4. CASE x = v
    <3>1. w \in F.types[v] /\ v \in F.types[w]
      BY <1>2, <2>1, <2>2, <2>4 DEF TypedIn
    <3>2. QED
      BY <2>4, <3>1 DEF After
  <2>5. QED
    BY <2>3, <2>4
<1>3. QED
  BY <1>1, <1>2 DEF TypedIn

LEMMA NoneIsNoValue ==
    ASSUME NEW p \in DOMAIN Fields
    PROVE  /\ None \notin Fields[p].values \cup Fields[p].records \cup Calls(Fields[p])
           /\ None # Left /\ None # Sent
BY FieldsAssumption

(* What can be typed, can be typed again.                                   *)
Retyped(F) ==
    /\ \A v \in Typed(F) : v \in F.likes[v]
    /\ \A v \in F.values : F.types[v] \subseteq F.values
    /\ \A v \in F.values : \A w \in After(F, v) : F.types[w] \subseteq After(F, v)

(* A field as its form makes it, before time passes and anything fills it.  *)
Lost(p, F, L) ==
    \A v \in L :
        IF F.creates THEN "" \in F.values /\ (v = ""
          \/ (p = "requestSlot" /\ v = "hours alone"))
        ELSE p = "transporterCapacity" /\ v = "" /\ F.cached /\ F.edits
Passed(p, F, L, B) == {v \in F.values : v \in F.checks /\ v \in B => v \in RefusedIn(p) \cup L}
Made(p, F, L, B) ==
    /\ p \in DOMAIN Fields /\ Fields[p] = F
    /\ Kinds(F)
    /\ Left \notin F.values /\ Sent \notin F.values \cup F.records
    /\ F.first \in F.values \/ (F.edits /\ DOMAIN F.fills = {})
    /\ IF F.creates THEN F.others = {}
       ELSE F.records \cup F.others \subseteq F.values /\ F.shows = Same(F.values)
    /\ Retyped(F)
    /\ Saves(F, L, B) /\ F.early \subseteq Passed(p, F, L, B) /\ Lost(p, F, L)

(* What time makes of it.                                                   *)
Ageing(p, F) ==
    /\ \A v \in F.values : F.ages[v] \in F.values
    /\ F.ages # Same(F.values) =>
           /\ DOMAIN F.fills = {} /\ OverwrittenIn(p) = {}
           /\ \A v \in Typed(F) : F.likes[v] = {v} /\ F.ages[v] \in Typed(F)
    /\ \A v \in Sound(p) : F.ages[v] \in Sound(p)
    /\ F.creates => \A v \in OfferedBy(F) \cap F.values : F.ages[v] \in OfferedBy(F)

(* What an answer puts into it.                                             *)
Put(F, f, was, v) == F.fills[f].put[<<was, v>>]
Filling(p, F, f) ==
    LET honoured(v) == F.likes[v] \cup OverwrittenIn(p)
    IN  /\ DOMAIN F.fills = {f}
        /\ \A was \in F.values \cup {Left}, v \in F.values :
             Put(F, f, was, v) \subseteq F.values
        /\ IF F.fills[f].pressed
           THEN \A was \in F.values : \A v \in After(F, was) :
             Put(F, f, was, v) \subseteq honoured(v)
           ELSE \A was \in F.values, h \in Typed(F) : \A now \in F.values \cap honoured(h) :
                    Put(F, f, was, now) \subseteq honoured(h)
        /\ F.edits => F.fills[f].pressed /\ \A v \in F.values : Mute(F, v)
        /\ F.kept => p = "requestPhotos" /\ F.fills[f].pressed /\ Mute(F, F.first)
        /\ \A was \in F.values \cup {Left}, v \in Sound(p) :
             Put(F, f, was, v) \subseteq Sound(p)
        /\ F.creates /\ ~F.fills[f].pressed =>
               \A was \in F.values, v \in OfferedBy(F) \cap F.values :
                 Put(F, f, was, v) \subseteq OfferedBy(F)

LEMMA SoundIs ==
    ASSUME NEW p, NEW F, NEW L, NEW B, Made(p, F, L, B)
    PROVE  Sound(p) = Passed(p, F, L, B)
<1>1. p \in DOMAIN Fields /\ Fields[p] = F /\ Saves(F, L, B)
  BY DEF Made
<1>2. None \notin F.values
  BY <1>1, NoneIsNoValue
<1>3. ASSUME NEW v \in F.values
      PROVE  v \in Sound(p) <=> v \in Passed(p, F, L, B)
  <2>1. /\ F.sends[v] = IF v \in L THEN None ELSE v
        /\ F.stores[v] = IF v \in B THEN {} ELSE {v}
    BY <1>1 DEF Saves
  <2>2. v \in Sound(p) <=>
          (v \in F.checks \ RefusedIn(p) => F.sends[v] = None \/ F.stores[F.sends[v]] # {})
    BY <1>1 DEF Sound
  <2>3. v \in Passed(p, F, L, B) <=> (v \in F.checks /\ v \in B => v \in RefusedIn(p) \cup L)
    BY DEF Passed
  <2>4. CASE v \in L
    BY <2>1, <2>2, <2>3, <2>4
  <2>5. CASE v \notin L
    <3>1. F.sends[v] = v /\ v # None
      BY <1>2, <2>1, <2>5
    <3>2. F.stores[F.sends[v]] # {} <=> v \notin B
      BY <2>1, <3>1
    <3> QED
      BY <2>2, <2>3, <2>5, <3>1, <3>2
  <2> QED
    BY <2>4, <2>5
<1> QED
  BY <1>1, <1>3 DEF Sound, Passed

LEMMA MadeCloses ==
    ASSUME NEW p, NEW F, NEW L, NEW B, Made(p, F, L, B), Ageing(p, F),
           \A f \in DOMAIN F.fills : Filling(p, F, f)
    PROVE  Closed(F)
<1>1. /\ p \in DOMAIN Fields /\ Fields[p] = F /\ Saves(F, L, B) /\ Retyped(F)
      /\ Left \notin F.values /\ Sent \notin F.values \cup F.records
  BY DEF Made
<1>2. /\ None \notin F.values /\ None \notin F.records /\ None \notin {Left, Sent}
      /\ None \notin Calls(F)
  BY <1>1, NoneIsNoValue
<1>3. {None, Left} \cap F.values = {} /\ {None, Sent} \cap (F.values \cup F.records) = {}
  BY <1>1, <1>2
<1>4. /\ F.first \in F.values \/ (F.edits /\ DOMAIN F.fills = {})
      /\ IF F.creates THEN F.others = {}
         ELSE F.records \cup F.others \subseteq F.values /\ F.shows = Same(F.values)
  BY DEF Made
<1>5. \A v \in F.values : F.sends[v] \in {v, None} /\ F.stores[v] \subseteq {v}
  BY <1>1 DEF Saves
<1>6. \A v \in F.values : F.types[v] \subseteq F.values /\ F.ages[v] \in F.values
  BY <1>1 DEF Retyped, Ageing
<1>7. \A v \in F.values : \A f \in DOMAIN F.fills, was \in F.values \cup {Left} :
          F.fills[f].put[<<was, v>>] \subseteq F.values
  BY DEF Filling, Put
<1> QED
  BY <1>2, <1>3, <1>4, <1>5, <1>6, <1>7 DEF Closed

LEMMA MadeMeans ==
    ASSUME NEW p, NEW F, NEW L, NEW B, Made(p, F, L, B), Ageing(p, F),
           \A f \in DOMAIN F.fills : Filling(p, F, f)
    PROVE  Means(p)
<1> DEFINE offered == OfferedBy(F) \cap F.values
<1>1. p \in DOMAIN Fields /\ Fields[p] = F /\ Saves(F, L, B) /\ Lost(p, F, L)
  BY DEF Made
<1>2. None \notin F.values
  BY <1>1, NoneIsNoValue
<1>3. ASSUME NEW v \in F.values, F.sends[v] = None
      PROVE  v \in L
  <2>1. CASE v \notin L
    BY <1>1, <1>2, <1>3, <2>1 DEF Saves
  <2> QED
    BY <2>1
<1>4. \A v \in F.values :
          F.sends[v] = None =>
              IF F.creates
              THEN "" \in F.values /\ (v = "" \/ (p = "requestSlot" /\ v = "hours alone"))
              ELSE p = "transporterCapacity" /\ v = "" /\ F.cached /\ F.edits
  BY <1>1, <1>3 DEF Lost
<1>5. F.creates => \A v \in offered : F.ages[v] \in offered
  BY DEF Ageing
<1>6. ASSUME F.creates, NEW f \in DOMAIN F.fills, ~F.fills[f].pressed,
             NEW v \in offered, NEW was \in F.values
      PROVE  F.fills[f].put[<<was, v>>] \subseteq offered
  <2>1. Filling(p, F, f)
    OBVIOUS
  <2>2. F.fills[f].put[<<was, v>>] \subseteq F.values
    BY <2>1 DEF Filling, Put
  <2>3. F.fills[f].put[<<was, v>>] \subseteq OfferedBy(F)
    BY <1>6, <2>1 DEF Filling, Put
  <2> QED
    BY <2>2, <2>3
<1> HIDE DEF offered
<1>7. F.creates =>
          \A v \in offered :
              /\ F.ages[v] \in offered
              /\ \A f \in DOMAIN F.fills, was \in F.values :
                     F.fills[f].put[<<was, v>>] \subseteq offered \/ F.fills[f].pressed
  BY <1>5, <1>6
<1> QED
  BY <1>1, <1>4, <1>7 DEF Means, offered

LEMMA MadeFits ==
    ASSUME NEW p, NEW F, NEW L, NEW B, Made(p, F, L, B), Ageing(p, F),
           \A f \in DOMAIN F.fills : Filling(p, F, f)
    PROVE  Fit(p)
<1>1. p \in DOMAIN Fields /\ Fields[p] = F /\ Kinds(F) /\ Retyped(F)
  BY DEF Made
<1>2. Closed(F) /\ Means(p)
  BY MadeCloses, MadeMeans
<1>3. Honours(p)
  <2>1. /\ \A v \in Typed(F) : v \in F.likes[v]
        /\ \A v \in F.values : \A w \in After(F, v) : F.types[w] \subseteq After(F, v)
    BY <1>1 DEF Retyped
  <2>2. F.ages # Same(F.values) =>
            /\ DOMAIN F.fills = {} /\ OverwrittenIn(p) = {}
            /\ \A v \in Typed(F) : F.likes[v] = {v} /\ F.ages[v] \in Typed(F)
    BY DEF Ageing
  <2>3. \A f \in DOMAIN F.fills :
            /\ DOMAIN F.fills = {f}
            /\ IF F.fills[f].pressed
               THEN \A was \in F.values : \A v \in After(F, was) :
                        F.fills[f].put[<<was, v>>] \subseteq F.likes[v] \cup OverwrittenIn(p)
               ELSE \A was \in F.values, h \in Typed(F) :
                        \A now \in F.values \cap (F.likes[h] \cup OverwrittenIn(p)) :
                            F.fills[f].put[<<was,
                              now>>] \subseteq F.likes[h] \cup OverwrittenIn(p)
            /\ F.edits => F.fills[f].pressed /\ \A v \in F.values : Mute(F, v)
            /\ F.kept => p = "requestPhotos" /\ F.fills[f].pressed /\ Mute(F, F.first)
    BY DEF Filling, Put
  <2> QED
    BY <1>1, <2>1, <2>2, <2>3 DEF Honours
<1>4. StaysSound(p)
  <2>1. F.early \subseteq Sound(p)
    BY SoundIs DEF Made
  <2>2. \A v \in Sound(p) : F.ages[v] \in Sound(p)
    BY DEF Ageing
  <2>3. \A v \in Sound(p) : \A f \in DOMAIN F.fills, was \in F.values \cup {Left} :
            F.fills[f].put[<<was, v>>] \subseteq Sound(p)
    BY DEF Filling, Put
  <2> QED
    BY <1>1, <2>1, <2>2, <2>3 DEF StaysSound
<1> QED
  BY <1>1, <1>2, <1>3, <1>4 DEF Fit

(* Where time changes nothing, and where nothing fills it in.               *)
LEMMA StillAges ==
    ASSUME NEW p, NEW F, Fields[p] = F, F.ages = Same(F.values)
    PROVE  Ageing(p, F)
<1>1. \A v \in F.values : F.ages[v] = v
  BY DEF Same
<1>2. \A v \in Sound(p) : v \in F.values
  BY DEF Sound
<1> QED
  BY <1>1, <1>2 DEF Ageing

LEMMA SteadyFits ==
    ASSUME NEW p, NEW F, NEW L, NEW B, Made(p, F, L, B), F.ages = Same(F.values),
           DOMAIN F.fills = {}
    PROVE  Fit(p)
<1>1. Ageing(p, F)
  BY StillAges DEF Made
<1> QED
  BY <1>1, MadeFits

-----------------------------------------------------------------------------
(* The usual forms: one that creates, one that is opened, one that is read   *)
(* again.                                                                  *)
Usual(F) ==
    /\ \/ /\ F.creates /\ ~F.edits /\ ~F.again /\ F.reads = "none" /\ F.unread = None
          /\ ~F.draft \/ ~F.kept
          /\ F.others = {} /\ F.records = {"nothing"} /\ F.first \in F.values
       \/ /\ ~F.creates /\ ~F.draft /\ ~F.kept
          /\ F.ages = Same(F.values) /\ F.early = F.values /\ F.shows = Same(F.values)
          /\ F.records \subseteq F.values /\ F.others = F.records
          /\ \/ F.edits /\ ~F.again /\ F.reads = "behind" /\ F.unread = None
                /\ (F.first \in F.values \/ DOMAIN F.fills = {})
             \/ /\ F.again /\ ~F.edits /\ F.first \in F.values /\ DOMAIN F.fills = {}
                /\ \/ F.reads = "behind" /\ F.unread = None
                   \/ F.reads = "beside" /\ F.unread = F.first
    /\ Left \notin F.values /\ Sent \notin F.values

LEMMA UsualMade ==
    ASSUME NEW p, NEW F, NEW L, NEW B, p \in DOMAIN Fields, Fields[p] = F, Usual(F), Retyped(F),
           Saves(F, L, B), F.early \subseteq Passed(p, F, L, B), Lost(p, F, L)
    PROVE  Made(p, F, L, B)
<1>1. Kinds(F)
  BY DEF Kinds, Usual
<1>2. Left \notin F.values /\ Sent \notin F.values \cup F.records
  BY DEF Usual, Sent
<1>3. /\ F.first \in F.values \/ (F.edits /\ DOMAIN F.fills = {})
      /\ IF F.creates THEN F.others = {}
         ELSE F.records \cup F.others \subseteq F.values /\ F.shows = Same(F.values)
  BY DEF Usual
<1> QED
  BY <1>1, <1>2, <1>3 DEF Made

(* One that is typed in freely, and in which nothing else happens.          *)
FreeForm(p, F, T, L, B) ==
    /\ p \in DOMAIN Fields /\ Fields[p] = F
    /\ Usual(F) /\ F.ages = Same(F.values) /\ DOMAIN F.fills = {}
    /\ T \subseteq F.values /\ TypedIn(F, T)
    /\ Saves(F, L, B) /\ F.early \subseteq Passed(p, F, L, B) /\ Lost(p, F, L)

LEMMA FreeFits ==
    ASSUME NEW p, NEW F, NEW T, NEW L, NEW B, FreeForm(p, F, T, L, B)
    PROVE  Fit(p)
<1>1. Retyped(F)
  BY FreelyTyped DEF FreeForm, Retyped
<1>2. Made(p, F, L, B)
  BY <1>1, UsualMade DEF FreeForm
<1> QED
  BY <1>2, SteadyFits DEF FreeForm

(* What a form offers that no page fills in.                                *)
LEMMA NothingPut ==
    ASSUME NEW F, NEW S, NEW V, S = {}
    PROVE  UNION {F.fills[f].put[p] : f \in S, p \in V} = {}
BY SMT

ByPage(F) == {f \in DOMAIN F.fills : ~F.fills[f].pressed}
Filled(F) == UNION {F.fills[f].put[p] : f \in ByPage(F), p \in F.values \X {F.first, ""}}
Times(F) == {F.first, F.ages[F.first], F.ages[F.ages[F.first]]}

LEMMA PutBy ==
    ASSUME NEW F, NEW S, NEW V, NEW U, U = UNION {F.fills[f].put[p] : f \in S, p \in V}
    PROVE  \A x : x \in U <=> \E f \in S, p \in V : x \in F.fills[f].put[p]
BY SMT

PutOver(F, f, A, b, c, U) == \A x : x \in U <=> \E p \in A \X {b, c} : x \in F.fills[f].put[p]

LEMMA PutByPairs ==
    ASSUME NEW F, NEW f, NEW A, NEW b, NEW c, NEW U, PutOver(F, f, A, b, c, U)
    PROVE  \A x : x \in U <=> \E was \in A, now \in {b, c} : x \in Put(F, f, was, now)
<1>1. ASSUME NEW p \in A \X {b, c}
      PROVE  \E was \in A, now \in {b, c} : p = <<was, now>>
  BY SMT
<1>2. \A was \in A, now \in {b, c} : <<was, now>> \in A \X {b, c}
  OBVIOUS
<1> DEFINE P == A \X {b, c}
<1>3. \A p \in P : \E was \in A, now \in {b, c} : p = <<was, now>>
  BY <1>1
<1>4. \A was \in A, now \in {b, c} : <<was, now>> \in P
  BY <1>2
<1>5. \A x : x \in U <=> \E p \in P : x \in F.fills[f].put[p]
  BY DEF PutOver
<1> HIDE DEF P
<1>6. ASSUME NEW x \in U
      PROVE  \E was \in A, now \in {b, c} : x \in Put(F, f, was, now)
  <2>1. PICK p \in P : x \in F.fills[f].put[p]
    BY <1>5
  <2>2. PICK was \in A, now \in {b, c} : p = <<was, now>>
    BY <1>3
  <2> QED
    BY <2>1, <2>2 DEF Put
<1>7. ASSUME NEW was \in A, NEW now \in {b, c}, NEW x \in Put(F, f, was, now)
      PROVE  x \in U
  BY <1>4, <1>5 DEF Put
<1> QED
  BY <1>6, <1>7

LEMMA FilledByOne ==
    ASSUME NEW F, NEW f, ByPage(F) = {f}
    PROVE  \A x : x \in Filled(F) <=>
                     \E was \in F.values, now \in {F.first, ""} : x \in Put(F, f, was, now)
<1> DEFINE P == F.values \X {F.first, ""}
<1>1. Filled(F) = UNION {F.fills[g].put[p] : g \in ByPage(F), p \in P}
  BY DEF Filled
<1>2. \A x : x \in Filled(F) <=> \E p \in P : x \in F.fills[f].put[p]
  <2> HIDE DEF P
  <2>1. \A x : x \in Filled(F) <=> \E g \in ByPage(F), p \in P : x \in F.fills[g].put[p]
    BY <1>1, PutBy
  <2> QED
    BY <2>1
<1> DEFINE b == F.first
           c == ""
<1>3. PutOver(F, f, F.values, b, c, Filled(F))
  BY <1>2 DEF PutOver
<1> HIDE DEF b, c
<1>4. \A x : x \in Filled(F) <=> \E was \in F.values, now \in {b, c} : x \in Put(F, f, was, now)
  BY <1>3, PutByPairs
<1> QED
  BY <1>4 DEF b, c

LEMMA OfferedIs ==
    ASSUME NEW F, F.first \in DOMAIN F.ages
    PROVE  OfferedBy(F) = Times(F) \cup Filled(F)
BY DEF OfferedBy, Times, Filled, ByPage

LEMMA OfferedByTime ==
    ASSUME NEW F, \A f \in DOMAIN F.fills : F.fills[f].pressed, F.first \in DOMAIN F.ages
    PROVE  OfferedBy(F) = Times(F)
<1>1. ByPage(F) = {}
  BY DEF ByPage
<1>2. Filled(F) = {}
  BY <1>1, NothingPut DEF Filled
<1> QED
  BY <1>2, OfferedIs

-----------------------------------------------------------------------------
(* A request.                                                              *)

LEMMA DemandTypeFits == Fit("demandType")
<1>1. "demandType" \in DOMAIN Fields /\ Fields["demandType"] = StepType
  BY DEF Fields, PublishFields, RequestFields
<1>2. Usual(StepType) /\ StepType.ages = Same(StepType.values) /\ DOMAIN StepType.fills = {}
  BY DEF Usual, Left, Sent, StepType, Request, Answers, Creation, Same, Only, NoFills
<1>3. {"TRANSPORT", "MOVING"} \subseteq StepType.values
        /\ TypedIn(StepType, {"TRANSPORT", "MOVING"})
  BY DEF TypedIn, StepType, Request, Answers, Creation, Same, Only, NoFills
<1>4. Saves(StepType, {}, {})
  BY DEF Saves, Refusing, StepType, Request, Answers, Creation, Same, Only, NoFills
<1>5. StepType.early \subseteq Passed("demandType", StepType, {}, {})
        /\ Lost("demandType", StepType, {})
  BY DEF Passed, RefusedIn, Lost, StepType, Request, Answers, Creation, Same, Only, NoFills
<1>6. FreeForm("demandType", StepType, {"TRANSPORT", "MOVING"}, {}, {})
  BY <1>1, <1>2, <1>3, <1>4, <1>5 DEF FreeForm
<1> QED
  BY <1>6, FreeFits

LEMMA DemandDescriptionFits == Fit("demandDescription")
<1>1. "demandDescription" \in DOMAIN Fields /\ Fields["demandDescription"] = StepDescription
  BY DEF Fields, PublishFields, RequestFields
<1>2. Usual(StepDescription) /\ StepDescription.ages = Same(StepDescription.values)
        /\ DOMAIN StepDescription.fills = {}
  BY DEF Usual, Left, Sent, StepDescription, Request, Answers, Creation, Same, Only, NoFills
<1>3. {"", "mine"} \subseteq StepDescription.values /\ TypedIn(StepDescription, {"", "mine"})
  BY DEF TypedIn, StepDescription, Request, Answers, Creation, Same, Only, NoFills
<1>4. Saves(StepDescription, {}, {})
  BY DEF Saves, Refusing, StepDescription, Request, Answers, Creation, Same, Only, NoFills
<1>5. StepDescription.early \subseteq Passed("demandDescription", StepDescription, {}, {})
        /\ Lost("demandDescription", StepDescription, {})
  BY DEF Passed, RefusedIn, Lost, StepDescription, Request, Answers, Creation, Same, Only,
     NoFills
<1>6. FreeForm("demandDescription", StepDescription, {"", "mine"}, {}, {})
  BY <1>1, <1>2, <1>3, <1>4, <1>5 DEF FreeForm
<1> QED
  BY <1>6, FreeFits

-----------------------------------------------------------------------------
(* A return trip on the web.                                               *)

LEMMA TripCorridorFits == Fit("tripCorridor")
<1>1. "tripCorridor" \in DOMAIN Fields /\ Fields["tripCorridor"] = TripCorridor
  BY DEF Fields, PublishFields, RequestFields, TripFields
<1>2. Usual(TripCorridor) /\ TripCorridor.ages = Same(TripCorridor.values)
        /\ DOMAIN TripCorridor.fills = {}
  BY DEF Usual, Left, Sent, TripCorridor, Trip, CorridorValues, canSubmit, Answers, Creation,
     Same, Only, NoFills
<1>3. {"", "mine"} \subseteq TripCorridor.values /\ TypedIn(TripCorridor, {"", "mine"})
  BY DEF TypedIn, TripCorridor, Trip, CorridorValues, canSubmit, Answers, Creation, Same,
     Only, NoFills
<1>4. Saves(TripCorridor, {}, {})
  BY DEF Saves, Refusing, TripCorridor, Trip, CorridorValues, canSubmit, Answers, Creation,
     Same, Only, NoFills
<1>5. TripCorridor.early \subseteq Passed("tripCorridor", TripCorridor, {}, {})
        /\ Lost("tripCorridor", TripCorridor, {})
  BY DEF Passed, RefusedIn, Lost, TripCorridor, Trip, CorridorValues, canSubmit, Answers,
     Creation, Same, Only, NoFills
<1>6. FreeForm("tripCorridor", TripCorridor, {"", "mine"}, {}, {})
  BY <1>1, <1>2, <1>3, <1>4, <1>5 DEF FreeForm
<1> QED
  BY <1>6, FreeFits

LEMMA TripPriceFits == Fit("tripPrice")
<1>1. "tripPrice" \in DOMAIN Fields /\ Fields["tripPrice"] = TripPrice
  BY DEF Fields, PublishFields, RequestFields, TripFields
<1>2. Usual(TripPrice) /\ TripPrice.ages = Same(TripPrice.values) /\ DOMAIN TripPrice.fills = {}
  BY DEF Usual, Left, Sent, TripPrice, Answers, Creation, Same, Only, NoFills
<1>3. {"", "mine"} \subseteq TripPrice.values /\ TypedIn(TripPrice, {"", "mine"})
  BY DEF TypedIn, TripPrice, Answers, Creation, Same, Only, NoFills
<1>4. Saves(TripPrice, {""}, {})
  BY DEF Saves, Refusing, TripPrice, Answers, Creation, Same, Only, NoFills
<1>5. TripPrice.early \subseteq Passed("tripPrice", TripPrice, {""}, {})
        /\ Lost("tripPrice", TripPrice, {""})
  BY DEF Passed, RefusedIn, Lost, TripPrice, Answers, Creation, Same, Only, NoFills
<1>6. FreeForm("tripPrice", TripPrice, {"", "mine"}, {""}, {})
  BY <1>1, <1>2, <1>3, <1>4, <1>5 DEF FreeForm
<1> QED
  BY <1>6, FreeFits

LEMMA TripTextFits == Fit("tripText")
<1>1. "tripText" \in DOMAIN Fields /\ Fields["tripText"] = TripText
  BY DEF Fields, PublishFields, RequestFields, TripFields
<1>2. Usual(TripText) /\ TripText.ages = Same(TripText.values) /\ DOMAIN TripText.fills = {}
  BY DEF Usual, Left, Sent, TripText, Answers, Creation, Same, Only, NoFills
<1>3. {"", "mine"} \subseteq TripText.values /\ TypedIn(TripText, {"", "mine"})
  BY DEF TypedIn, TripText, Answers, Creation, Same, Only, NoFills
<1>4. Saves(TripText, {}, {})
  BY DEF Saves, Refusing, TripText, Answers, Creation, Same, Only, NoFills
<1>5. TripText.early \subseteq Passed("tripText", TripText, {}, {})
        /\ Lost("tripText", TripText, {})
  BY DEF Passed, RefusedIn, Lost, TripText, Answers, Creation, Same, Only, NoFills
<1>6. FreeForm("tripText", TripText, {"", "mine"}, {}, {})
  BY <1>1, <1>2, <1>3, <1>4, <1>5 DEF FreeForm
<1> QED
  BY <1>6, FreeFits

LEMMA TripInstantFits == Fit("tripInstant")
<1>1. "tripInstant" \in DOMAIN Fields /\ Fields["tripInstant"] = TripInstant
  BY DEF Fields, PublishFields, RequestFields, TripFields
<1>2. Usual(TripInstant) /\ TripInstant.ages = Same(TripInstant.values)
        /\ DOMAIN TripInstant.fills = {}
  BY DEF Usual, Left, Sent, TripInstant, Answers, Creation, Same, Only, NoFills
<1>3. {"", "instant"} \subseteq TripInstant.values /\ TypedIn(TripInstant, {"", "instant"})
  BY DEF TypedIn, TripInstant, Answers, Creation, Same, Only, NoFills
<1>4. Saves(TripInstant, {}, {})
  BY DEF Saves, Refusing, TripInstant, Answers, Creation, Same, Only, NoFills
<1>5. TripInstant.early \subseteq Passed("tripInstant", TripInstant, {}, {})
        /\ Lost("tripInstant", TripInstant, {})
  BY DEF Passed, RefusedIn, Lost, TripInstant, Answers, Creation, Same, Only, NoFills
<1>6. FreeForm("tripInstant", TripInstant, {"", "instant"}, {}, {})
  BY <1>1, <1>2, <1>3, <1>4, <1>5 DEF FreeForm
<1> QED
  BY <1>6, FreeFits

-----------------------------------------------------------------------------
(* A return trip on the phone.                                             *)

LEMMA PhoneCorridorFits == Fit("phoneCorridor")
<1>1. "phoneCorridor" \in DOMAIN Fields /\ Fields["phoneCorridor"] = PhoneCorridor
  BY DEF Fields, PublishFields, RequestFields, TripFields, PhoneTripFields
<1>2. Usual(PhoneCorridor) /\ PhoneCorridor.ages = Same(PhoneCorridor.values)
        /\ DOMAIN PhoneCorridor.fills = {}
  BY DEF Usual, Left, Sent, PhoneCorridor, publishSchema, CorridorValues, Answers, Creation,
     Same, Only, NoFills
<1>3. {"mine", "same ends"} \subseteq PhoneCorridor.values
        /\ TypedIn(PhoneCorridor, {"mine", "same ends"})
  BY DEF TypedIn, PhoneCorridor, publishSchema, CorridorValues, Answers, Creation, Same, Only,
     NoFills
<1>4. Saves(PhoneCorridor, {}, {})
  BY DEF Saves, Refusing, PhoneCorridor, publishSchema, CorridorValues, Answers, Creation,
     Same, Only, NoFills
<1>5. PhoneCorridor.early \subseteq Passed("phoneCorridor", PhoneCorridor, {}, {})
        /\ Lost("phoneCorridor", PhoneCorridor, {})
  BY DEF Passed, RefusedIn, Lost, PhoneCorridor, publishSchema, CorridorValues, Answers,
     Creation, Same, Only, NoFills
<1>6. FreeForm("phoneCorridor", PhoneCorridor, {"mine", "same ends"}, {}, {})
  BY <1>1, <1>2, <1>3, <1>4, <1>5 DEF FreeForm
<1> QED
  BY <1>6, FreeFits

LEMMA PhoneAddressFits == Fit("phoneAddress")
<1>1. "phoneAddress" \in DOMAIN Fields /\ Fields["phoneAddress"] = PhoneAddress
  BY DEF Fields, PublishFields, RequestFields, TripFields, PhoneTripFields
<1>2. Usual(PhoneAddress) /\ PhoneAddress.ages = Same(PhoneAddress.values)
        /\ DOMAIN PhoneAddress.fills = {}
  BY DEF Usual, Left, Sent, PhoneAddress, publishSchema, Answers, Creation, Same, Only, NoFills
<1>3. {"", "mine", "book", "long"} \subseteq PhoneAddress.values
        /\ TypedIn(PhoneAddress, {"", "mine", "book", "long"})
  BY DEF TypedIn, PhoneAddress, publishSchema, Answers, Creation, Same, Only, NoFills
<1>4. Saves(PhoneAddress, {}, {"long"})
  BY DEF Saves, Refusing, PhoneAddress, publishSchema, Answers, Creation, Same, Only, NoFills
<1>5. PhoneAddress.early \subseteq Passed("phoneAddress", PhoneAddress, {}, {"long"})
        /\ Lost("phoneAddress", PhoneAddress, {})
  BY DEF Passed, RefusedIn, Lost, PhoneAddress, publishSchema, Answers, Creation, Same, Only,
     NoFills
<1>6. FreeForm("phoneAddress", PhoneAddress, {"", "mine", "book", "long"}, {}, {"long"})
  BY <1>1, <1>2, <1>3, <1>4, <1>5 DEF FreeForm
<1> QED
  BY <1>6, FreeFits

LEMMA PhoneCapacityFits == Fit("phoneCapacity")
<1>1. "phoneCapacity" \in DOMAIN Fields /\ Fields["phoneCapacity"] = PhoneCapacity
  BY DEF Fields, PublishFields, RequestFields, TripFields, PhoneTripFields
<1>2. Usual(PhoneCapacity) /\ PhoneCapacity.ages = Same(PhoneCapacity.values)
        /\ DOMAIN PhoneCapacity.fills = {}
  BY DEF Usual, Left, Sent, PhoneCapacity, publishSchema, onChoisirPart, capaciteLibre,
     CapacityValues, CapacitySent, Answers, Creation, Same, Only, NoFills
<1>3. {"", "by hand", "tout", "moitie"} \subseteq PhoneCapacity.values
        /\ TypedIn(PhoneCapacity, {"", "by hand", "tout", "moitie"})
  BY DEF TypedIn, PhoneCapacity, publishSchema, onChoisirPart, capaciteLibre, CapacityValues,
     CapacitySent, Answers, Creation, Same, Only, NoFills
<1>4. Saves(PhoneCapacity, {""}, {})
  BY DEF Saves, Refusing, PhoneCapacity, publishSchema, onChoisirPart, capaciteLibre,
     CapacityValues, CapacitySent, Answers, Creation, Same, Only, NoFills
<1>5. PhoneCapacity.early \subseteq Passed("phoneCapacity", PhoneCapacity, {""}, {})
        /\ Lost("phoneCapacity", PhoneCapacity, {""})
  BY DEF Passed, RefusedIn, Lost, PhoneCapacity, publishSchema, onChoisirPart, capaciteLibre,
     CapacityValues, CapacitySent, Answers, Creation, Same, Only, NoFills
<1>6. FreeForm("phoneCapacity", PhoneCapacity, {"", "by hand", "tout", "moitie"}, {""}, {})
  BY <1>1, <1>2, <1>3, <1>4, <1>5 DEF FreeForm
<1> QED
  BY <1>6, FreeFits

-----------------------------------------------------------------------------
(* A request on a trip.                                                    *)

LEMMA RequestWeightFits == Fit("requestWeight")
<1>1. "requestWeight" \in DOMAIN Fields /\ Fields["requestWeight"] = RequestWeight
  BY DEF Fields, PublishFields, RequestFields, TripFields, PhoneTripFields, SheetFields
<1>2. Usual(RequestWeight) /\ RequestWeight.ages = Same(RequestWeight.values)
        /\ DOMAIN RequestWeight.fills = {}
  BY DEF Usual, Left, Sent, RequestWeight, SendRequestSheet, publishSchema, WeightValues,
     Answers, Creation, Same, Only, NoFills
<1>3. {"", "mine", "above the capacity", "wrong"} \subseteq RequestWeight.values
        /\ TypedIn(RequestWeight, {"", "mine", "above the capacity", "wrong"})
  BY DEF TypedIn, RequestWeight, SendRequestSheet, publishSchema, WeightValues, Answers,
     Creation, Same, Only, NoFills
<1>4. Saves(RequestWeight, {""}, {"above the capacity", "wrong"})
  BY DEF Saves, Refusing, Omitting, RequestWeight, SendRequestSheet, publishSchema,
     WeightValues, Answers, Creation, Same, Only, NoFills
<1>5. RequestWeight.early \subseteq Passed("requestWeight", RequestWeight, {""},
        {"above the capacity", "wrong"}) /\ Lost("requestWeight", RequestWeight, {""})
  BY DEF Passed, RefusedIn, Lost, RequestWeight, SendRequestSheet, publishSchema,
     WeightValues, Answers, Creation, Same, Only, NoFills
<1>6. FreeForm("requestWeight", RequestWeight, {"", "mine", "above the capacity", "wrong"},
        {""}, {"above the capacity", "wrong"})
  BY <1>1, <1>2, <1>3, <1>4, <1>5 DEF FreeForm
<1> QED
  BY <1>6, FreeFits

LEMMA RequestGoodsFits == Fit("requestGoods")
<1>1. "requestGoods" \in DOMAIN Fields /\ Fields["requestGoods"] = RequestGoods
  BY DEF Fields, PublishFields, RequestFields, TripFields, PhoneTripFields, SheetFields
<1>2. Usual(RequestGoods) /\ RequestGoods.ages = Same(RequestGoods.values)
        /\ DOMAIN RequestGoods.fills = {}
  BY DEF Usual, Left, Sent, RequestGoods, SendRequestSheet, publishSchema, Answers, Creation,
     Same, Only, NoFills
<1>3. {"", "mine"} \subseteq RequestGoods.values /\ TypedIn(RequestGoods, {"", "mine"})
  BY DEF TypedIn, RequestGoods, SendRequestSheet, publishSchema, Answers, Creation, Same,
     Only, NoFills
<1>4. Saves(RequestGoods, {}, {})
  BY DEF Saves, Refusing, RequestGoods, SendRequestSheet, publishSchema, Answers, Creation,
     Same, Only, NoFills
<1>5. RequestGoods.early \subseteq Passed("requestGoods", RequestGoods, {}, {})
        /\ Lost("requestGoods", RequestGoods, {})
  BY DEF Passed, RefusedIn, Lost, RequestGoods, SendRequestSheet, publishSchema, Answers,
     Creation, Same, Only, NoFills
<1>6. FreeForm("requestGoods", RequestGoods, {"", "mine"}, {}, {})
  BY <1>1, <1>2, <1>3, <1>4, <1>5 DEF FreeForm
<1> QED
  BY <1>6, FreeFits

LEMMA RequestSlotFits == Fit("requestSlot")
<1>1. "requestSlot" \in DOMAIN Fields /\ Fields["requestSlot"] = RequestSlot
  BY DEF Fields, PublishFields, RequestFields, TripFields, PhoneTripFields, SheetFields
<1>2. Usual(RequestSlot) /\ RequestSlot.ages = Same(RequestSlot.values)
        /\ DOMAIN RequestSlot.fills = {}
  BY DEF Usual, Left, Sent, RequestSlot, SendRequestSheet, publishSchema, SlotValues, Answers,
     Creation, Same, Only, NoFills
<1>3. {"", "day alone", "hours alone", "slot", "backwards"} \subseteq RequestSlot.values
        /\ TypedIn(RequestSlot, {"", "day alone", "hours alone", "slot", "backwards"})
  BY DEF TypedIn, RequestSlot, SendRequestSheet, publishSchema, SlotValues, Answers, Creation,
     Same, Only, NoFills
<1>4. Saves(RequestSlot, {"", "hours alone"}, {"backwards"})
  BY DEF Saves, Refusing, Omitting, RequestSlot, SendRequestSheet, publishSchema, SlotValues,
     Answers, Creation, Same, Only, NoFills
<1>5. RequestSlot.early \subseteq Passed("requestSlot", RequestSlot, {"", "hours alone"},
        {"backwards"}) /\ Lost("requestSlot", RequestSlot, {"", "hours alone"})
  BY DEF Passed, RefusedIn, Lost, RequestSlot, SendRequestSheet, publishSchema, SlotValues,
     Answers, Creation, Same, Only, NoFills
<1>6. FreeForm("requestSlot", RequestSlot, {"", "day alone", "hours alone", "slot",
        "backwards"}, {"", "hours alone"}, {"backwards"})
  BY <1>1, <1>2, <1>3, <1>4, <1>5 DEF FreeForm
<1> QED
  BY <1>6, FreeFits

LEMMA RequestPickupFits == Fit("requestPickup")
<1>1. "requestPickup" \in DOMAIN Fields /\ Fields["requestPickup"] = RequestPickup
  BY DEF Fields, PublishFields, RequestFields, TripFields, PhoneTripFields, SheetFields
<1>2. Usual(RequestPickup) /\ RequestPickup.ages = Same(RequestPickup.values)
        /\ DOMAIN RequestPickup.fills = {}
  BY DEF Usual, Left, Sent, RequestPickup, SendRequestSheet, publishSchema, PickupValues,
     Answers, Creation, Same, Only, NoFills
<1>3. {"", "mine", "book", "no governorate", "long"} \subseteq RequestPickup.values
        /\ TypedIn(RequestPickup, {"", "mine", "book", "no governorate", "long"})
  BY DEF TypedIn, RequestPickup, SendRequestSheet, publishSchema, PickupValues, Answers,
     Creation, Same, Only, NoFills
<1>4. Saves(RequestPickup, {""}, {"long"})
  BY DEF Saves, Refusing, Omitting, RequestPickup, SendRequestSheet, publishSchema,
     PickupValues, Answers, Creation, Same, Only, NoFills
<1>5. RequestPickup.early \subseteq Passed("requestPickup", RequestPickup, {""}, {"long"})
        /\ Lost("requestPickup", RequestPickup, {""})
  BY DEF Passed, RefusedIn, Lost, RequestPickup, SendRequestSheet, publishSchema,
     PickupValues, Answers, Creation, Same, Only, NoFills
<1>6. FreeForm("requestPickup", RequestPickup, {"", "mine", "book", "no governorate", "long"},
        {""}, {"long"})
  BY <1>1, <1>2, <1>3, <1>4, <1>5 DEF FreeForm
<1> QED
  BY <1>6, FreeFits

LEMMA RequestPriceFits == Fit("requestPrice")
<1>1. "requestPrice" \in DOMAIN Fields /\ Fields["requestPrice"] = RequestPrice
  BY DEF Fields, PublishFields, RequestFields, TripFields, PhoneTripFields, SheetFields
<1>2. Usual(RequestPrice) /\ RequestPrice.ages = Same(RequestPrice.values)
        /\ DOMAIN RequestPrice.fills = {}
  BY DEF Usual, Left, Sent, RequestPrice, SendRequestSheet, publishSchema, ProposedValues,
     Answers, Creation, Same, Only, NoFills
<1>3. {"", "mine", "zero", "above the cash ceiling", "wrong"} \subseteq RequestPrice.values
        /\ TypedIn(RequestPrice, {"", "mine", "zero", "above the cash ceiling", "wrong"})
  BY DEF TypedIn, RequestPrice, SendRequestSheet, publishSchema, ProposedValues, Answers,
     Creation, Same, Only, NoFills
<1>4. Saves(RequestPrice, {}, {"zero", "above the cash ceiling"})
  BY DEF Saves, Refusing, RequestPrice, SendRequestSheet, publishSchema, ProposedValues,
     Answers, Creation, Same, Only, NoFills
<1>5. RequestPrice.early \subseteq Passed("requestPrice", RequestPrice, {}, {"zero",
        "above the cash ceiling"}) /\ Lost("requestPrice", RequestPrice, {})
  BY DEF Passed, RefusedIn, Lost, RequestPrice, SendRequestSheet, publishSchema,
     ProposedValues, Answers, Creation, Same, Only, NoFills
<1>6. FreeForm("requestPrice", RequestPrice, {"", "mine", "zero", "above the cash ceiling",
        "wrong"}, {}, {"zero", "above the cash ceiling"})
  BY <1>1, <1>2, <1>3, <1>4, <1>5 DEF FreeForm
<1> QED
  BY <1>6, FreeFits

-----------------------------------------------------------------------------
(* The account page.                                                       *)

LEMMA AccountNotificationsFits == Fit("accountNotifications")
<1>1. "accountNotifications" \in DOMAIN Fields
        /\ Fields["accountNotifications"] = AccountNotifications
  BY DEF Fields, PublishFields, RequestFields, TripFields, PhoneTripFields, SheetFields,
     AccountFields, AccountPageFields
<1>2. Usual(AccountNotifications)
        /\ AccountNotifications.ages = Same(AccountNotifications.values)
             /\ DOMAIN AccountNotifications.fills = {}
  BY DEF Usual, Left, Sent, AccountNotifications, fetchProfile, notificationDefaults, Switch,
     Change, Creation, Same, Only, NoFills
<1>3. {"on", "off"} \subseteq AccountNotifications.values
        /\ TypedIn(AccountNotifications, {"on", "off"})
  BY DEF TypedIn, AccountNotifications, fetchProfile, notificationDefaults, Switch, Change,
     Creation, Same, Only, NoFills
<1>4. Saves(AccountNotifications, {}, {})
  BY DEF Saves, Refusing, AccountNotifications, fetchProfile, notificationDefaults, Switch,
     Change, Creation, Same, Only, NoFills
<1>5. AccountNotifications.early \subseteq Passed("accountNotifications",
        AccountNotifications, {}, {}) /\ Lost("accountNotifications", AccountNotifications, {})
  BY DEF Passed, RefusedIn, Lost, AccountNotifications, fetchProfile, notificationDefaults,
     Switch, Change, Creation, Same, Only, NoFills
<1>6. FreeForm("accountNotifications", AccountNotifications, {"on", "off"}, {}, {})
  BY <1>1, <1>2, <1>3, <1>4, <1>5 DEF FreeForm
<1> QED
  BY <1>6, FreeFits

LEMMA AccountLanguageFits == Fit("accountLanguage")
<1>1. "accountLanguage" \in DOMAIN Fields /\ Fields["accountLanguage"] = AccountLanguage
  BY DEF Fields, PublishFields, RequestFields, TripFields, PhoneTripFields, SheetFields,
     AccountFields, AccountPageFields
<1>2. Usual(AccountLanguage) /\ AccountLanguage.ages = Same(AccountLanguage.values)
        /\ DOMAIN AccountLanguage.fills = {}
  BY DEF Usual, Left, Sent, AccountLanguage, fetchProfile, Change, Creation, Same, Only, NoFills
<1>3. {"fr"} \subseteq AccountLanguage.values /\ TypedIn(AccountLanguage, {"fr"})
  BY DEF TypedIn, AccountLanguage, fetchProfile, Change, Creation, Same, Only, NoFills
<1>4. Saves(AccountLanguage, {}, {})
  BY DEF Saves, Refusing, AccountLanguage, fetchProfile, Change, Creation, Same, Only, NoFills
<1>5. AccountLanguage.early \subseteq Passed("accountLanguage", AccountLanguage, {}, {})
        /\ Lost("accountLanguage", AccountLanguage, {})
  BY DEF Passed, RefusedIn, Lost, AccountLanguage, fetchProfile, Change, Creation, Same, Only,
     NoFills
<1>6. FreeForm("accountLanguage", AccountLanguage, {"fr"}, {}, {})
  BY <1>1, <1>2, <1>3, <1>4, <1>5 DEF FreeForm
<1> QED
  BY <1>6, FreeFits

LEMMA AccountPasswordFits == Fit("accountPassword")
<1>1. "accountPassword" \in DOMAIN Fields /\ Fields["accountPassword"] = changePassword
  BY DEF Fields, PublishFields, RequestFields, TripFields, PhoneTripFields, SheetFields,
     AccountFields, AccountPageFields
<1>2. Usual(changePassword) /\ changePassword.ages = Same(changePassword.values)
        /\ DOMAIN changePassword.fills = {}
  BY DEF Usual, Left, Sent, changePassword, Password, PasswordValues, Creation, Same, Only,
     NoFills
<1>3. {"", "good", "common", "short", "mismatch"} \subseteq changePassword.values
        /\ TypedIn(changePassword, {"", "good", "common", "short", "mismatch"})
  BY DEF TypedIn, changePassword, Password, PasswordValues, Creation, Same, Only, NoFills
<1>4. Saves(changePassword, {}, {"", "common", "short", "mismatch"})
  BY DEF Saves, Refusing, changePassword, Password, PasswordValues, Creation, Same, Only,
     NoFills
<1>5. changePassword.early \subseteq Passed("accountPassword", changePassword, {}, {"",
        "common", "short", "mismatch"}) /\ Lost("accountPassword", changePassword, {})
  BY DEF Passed, RefusedIn, Lost, changePassword, Password, PasswordValues, Creation, Same,
     Only, NoFills
<1>6. FreeForm("accountPassword", changePassword, {"", "good", "common", "short", "mismatch"},
        {}, {"", "common", "short", "mismatch"})
  BY <1>1, <1>2, <1>3, <1>4, <1>5 DEF FreeForm
<1> QED
  BY <1>6, FreeFits

LEMMA ResetPasswordFits == Fit("resetPassword")
<1>1. "resetPassword" \in DOMAIN Fields /\ Fields["resetPassword"] = resetPassword
  BY DEF Fields, PublishFields, RequestFields, TripFields, PhoneTripFields, SheetFields,
     AccountFields, AccountPageFields
<1>2. Usual(resetPassword) /\ resetPassword.ages = Same(resetPassword.values)
        /\ DOMAIN resetPassword.fills = {}
  BY DEF Usual, Left, Sent, resetPassword, Password, PasswordValues, Creation, Same, Only,
     NoFills
<1>3. {"", "good", "common", "short", "mismatch"} \subseteq resetPassword.values
        /\ TypedIn(resetPassword, {"", "good", "common", "short", "mismatch"})
  BY DEF TypedIn, resetPassword, Password, PasswordValues, Creation, Same, Only, NoFills
<1>4. Saves(resetPassword, {}, {"", "short", "mismatch"})
  BY DEF Saves, Refusing, resetPassword, Password, PasswordValues, Creation, Same, Only, NoFills
<1>5. resetPassword.early \subseteq Passed("resetPassword", resetPassword, {}, {"", "short",
        "mismatch"}) /\ Lost("resetPassword", resetPassword, {})
  BY DEF Passed, RefusedIn, Lost, resetPassword, Password, PasswordValues, Creation, Same,
     Only, NoFills
<1>6. FreeForm("resetPassword", resetPassword, {"", "good", "common", "short", "mismatch"},
        {}, {"", "short", "mismatch"})
  BY <1>1, <1>2, <1>3, <1>4, <1>5 DEF FreeForm
<1> QED
  BY <1>6, FreeFits

-----------------------------------------------------------------------------
(* The profile pages.                                                      *)

LEMMA ClientNameFits == Fit("clientName")
<1>1. "clientName" \in DOMAIN Fields /\ Fields["clientName"] = ClientName
  BY DEF Fields, PublishFields, RequestFields, TripFields, PhoneTripFields, SheetFields,
     AccountFields, AccountPageFields, ProfilePageFields
<1>2. Usual(ClientName) /\ ClientName.ages = Same(ClientName.values)
        /\ DOMAIN ClientName.fills = {}
  BY DEF Usual, Left, Sent, ClientName, ClientEdition, NameValues, NameTypes, validateName,
     Edition, Change, Creation, Same, Only, NoFills
<1>3. {"short", "mine"} \subseteq ClientName.values /\ TypedIn(ClientName, {"short", "mine"})
  BY DEF TypedIn, ClientName, ClientEdition, NameValues, NameTypes, validateName, Edition,
     Change, Creation, Same, Only, NoFills
<1>4. Saves(ClientName, {}, {})
  BY DEF Saves, Refusing, ClientName, ClientEdition, NameValues, NameTypes, validateName,
     Edition, Change, Creation, Same, Only, NoFills
<1>5. ClientName.early \subseteq Passed("clientName", ClientName, {}, {})
        /\ Lost("clientName", ClientName, {})
  BY DEF Passed, RefusedIn, Lost, ClientName, ClientEdition, NameValues, NameTypes,
     validateName, Edition, Change, Creation, Same, Only, NoFills
<1>6. FreeForm("clientName", ClientName, {"short", "mine"}, {}, {})
  BY <1>1, <1>2, <1>3, <1>4, <1>5 DEF FreeForm
<1> QED
  BY <1>6, FreeFits

LEMMA ClientPhoneFits == Fit("clientPhone")
<1>1. "clientPhone" \in DOMAIN Fields /\ Fields["clientPhone"] = ClientPhone
  BY DEF Fields, PublishFields, RequestFields, TripFields, PhoneTripFields, SheetFields,
     AccountFields, AccountPageFields, ProfilePageFields
<1>2. Usual(ClientPhone) /\ ClientPhone.ages = Same(ClientPhone.values)
        /\ DOMAIN ClientPhone.fills = {}
  BY DEF Usual, Left, Sent, ClientPhone, PhoneStored, validatePhone, PhoneValues,
     ClientEdition, Text, TextTypes, TextRecords, Edition, Change, Creation, Same, Only, NoFills
<1>3. {"", "mine", "wrong"} \subseteq ClientPhone.values
        /\ TypedIn(ClientPhone, {"", "mine", "wrong"})
  BY DEF TypedIn, ClientPhone, PhoneStored, validatePhone, PhoneValues, ClientEdition, Text,
     TextTypes, TextRecords, Edition, Change, Creation, Same, Only, NoFills
<1>4. Saves(ClientPhone, {}, {"", "wrong"})
  BY DEF Saves, Refusing, ClientPhone, PhoneStored, validatePhone, PhoneValues, ClientEdition,
     Text, TextTypes, TextRecords, Edition, Change, Creation, Same, Only, NoFills
<1>5. ClientPhone.early \subseteq Passed("clientPhone", ClientPhone, {}, {"", "wrong"})
        /\ Lost("clientPhone", ClientPhone, {})
  BY DEF Passed, RefusedIn, Lost, ClientPhone, PhoneStored, validatePhone, PhoneValues,
     ClientEdition, Text, TextTypes, TextRecords, Edition, Change, Creation, Same, Only, NoFills
<1>6. FreeForm("clientPhone", ClientPhone, {"", "mine", "wrong"}, {}, {"", "wrong"})
  BY <1>1, <1>2, <1>3, <1>4, <1>5 DEF FreeForm
<1> QED
  BY <1>6, FreeFits

LEMMA ClientBioFits == Fit("clientBio")
<1>1. "clientBio" \in DOMAIN Fields /\ Fields["clientBio"] = ClientBio
  BY DEF Fields, PublishFields, RequestFields, TripFields, PhoneTripFields, SheetFields,
     AccountFields, AccountPageFields, ProfilePageFields
<1>2. Usual(ClientBio) /\ ClientBio.ages = Same(ClientBio.values) /\ DOMAIN ClientBio.fills = {}
  BY DEF Usual, Left, Sent, ClientBio, ClientEdition, Text, TextTypes, TextRecords, Edition,
     Change, Creation, Same, Only, NoFills
<1>3. {"", "mine"} \subseteq ClientBio.values /\ TypedIn(ClientBio, {"", "mine"})
  BY DEF TypedIn, ClientBio, ClientEdition, Text, TextTypes, TextRecords, Edition, Change,
     Creation, Same, Only, NoFills
<1>4. Saves(ClientBio, {}, {})
  BY DEF Saves, Refusing, ClientBio, ClientEdition, Text, TextTypes, TextRecords, Edition,
     Change, Creation, Same, Only, NoFills
<1>5. ClientBio.early \subseteq Passed("clientBio", ClientBio, {}, {})
        /\ Lost("clientBio", ClientBio, {})
  BY DEF Passed, RefusedIn, Lost, ClientBio, ClientEdition, Text, TextTypes, TextRecords,
     Edition, Change, Creation, Same, Only, NoFills
<1>6. FreeForm("clientBio", ClientBio, {"", "mine"}, {}, {})
  BY <1>1, <1>2, <1>3, <1>4, <1>5 DEF FreeForm
<1> QED
  BY <1>6, FreeFits

LEMMA ClientAddressFits == Fit("clientAddress")
<1>1. "clientAddress" \in DOMAIN Fields /\ Fields["clientAddress"] = ClientAddress
  BY DEF Fields, PublishFields, RequestFields, TripFields, PhoneTripFields, SheetFields,
     AccountFields, AccountPageFields, ProfilePageFields
<1>2. Usual(ClientAddress) /\ ClientAddress.ages = Same(ClientAddress.values)
        /\ DOMAIN ClientAddress.fills = {}
  BY DEF Usual, Left, Sent, ClientAddress, ClientEdition, Text, TextTypes, TextRecords,
     Edition, Change, Creation, Same, Only, NoFills
<1>3. {"", "mine"} \subseteq ClientAddress.values /\ TypedIn(ClientAddress, {"", "mine"})
  BY DEF TypedIn, ClientAddress, ClientEdition, Text, TextTypes, TextRecords, Edition, Change,
     Creation, Same, Only, NoFills
<1>4. Saves(ClientAddress, {}, {})
  BY DEF Saves, Refusing, ClientAddress, ClientEdition, Text, TextTypes, TextRecords, Edition,
     Change, Creation, Same, Only, NoFills
<1>5. ClientAddress.early \subseteq Passed("clientAddress", ClientAddress, {}, {})
        /\ Lost("clientAddress", ClientAddress, {})
  BY DEF Passed, RefusedIn, Lost, ClientAddress, ClientEdition, Text, TextTypes, TextRecords,
     Edition, Change, Creation, Same, Only, NoFills
<1>6. FreeForm("clientAddress", ClientAddress, {"", "mine"}, {}, {})
  BY <1>1, <1>2, <1>3, <1>4, <1>5 DEF FreeForm
<1> QED
  BY <1>6, FreeFits

LEMMA TransporterNameFits == Fit("transporterName")
<1>1. "transporterName" \in DOMAIN Fields /\ Fields["transporterName"] = TransporterName
  BY DEF Fields, PublishFields, RequestFields, TripFields, PhoneTripFields, SheetFields,
     AccountFields, AccountPageFields, ProfilePageFields
<1>2. Usual(TransporterName) /\ TransporterName.ages = Same(TransporterName.values)
        /\ DOMAIN TransporterName.fills = {}
  BY DEF Usual, Left, Sent, TransporterName, TransporterEdition, NameValues, NameTypes,
     validateName, Edition, Change, Creation, Same, Only, NoFills
<1>3. {"short", "mine"} \subseteq TransporterName.values
        /\ TypedIn(TransporterName, {"short", "mine"})
  BY DEF TypedIn, TransporterName, TransporterEdition, NameValues, NameTypes, validateName,
     Edition, Change, Creation, Same, Only, NoFills
<1>4. Saves(TransporterName, {}, {})
  BY DEF Saves, Refusing, TransporterName, TransporterEdition, NameValues, NameTypes,
     validateName, Edition, Change, Creation, Same, Only, NoFills
<1>5. TransporterName.early \subseteq Passed("transporterName", TransporterName, {}, {})
        /\ Lost("transporterName", TransporterName, {})
  BY DEF Passed, RefusedIn, Lost, TransporterName, TransporterEdition, NameValues, NameTypes,
     validateName, Edition, Change, Creation, Same, Only, NoFills
<1>6. FreeForm("transporterName", TransporterName, {"short", "mine"}, {}, {})
  BY <1>1, <1>2, <1>3, <1>4, <1>5 DEF FreeForm
<1> QED
  BY <1>6, FreeFits

LEMMA TransporterPhoneFits == Fit("transporterPhone")
<1>1. "transporterPhone" \in DOMAIN Fields /\ Fields["transporterPhone"] = TransporterPhone
  BY DEF Fields, PublishFields, RequestFields, TripFields, PhoneTripFields, SheetFields,
     AccountFields, AccountPageFields, ProfilePageFields
<1>2. Usual(TransporterPhone) /\ TransporterPhone.ages = Same(TransporterPhone.values)
        /\ DOMAIN TransporterPhone.fills = {}
  BY DEF Usual, Left, Sent, TransporterPhone, PhoneStored, validatePhone, PhoneValues,
     TransporterEdition, Text, TextTypes, TextRecords, Edition, Change, Creation, Same, Only,
     NoFills
<1>3. {"", "mine", "wrong"} \subseteq TransporterPhone.values
        /\ TypedIn(TransporterPhone, {"", "mine", "wrong"})
  BY DEF TypedIn, TransporterPhone, PhoneStored, validatePhone, PhoneValues,
     TransporterEdition, Text, TextTypes, TextRecords, Edition, Change, Creation, Same, Only,
     NoFills
<1>4. Saves(TransporterPhone, {}, {"", "wrong"})
  BY DEF Saves, Refusing, TransporterPhone, PhoneStored, validatePhone, PhoneValues,
     TransporterEdition, Text, TextTypes, TextRecords, Edition, Change, Creation, Same, Only,
     NoFills
<1>5. TransporterPhone.early \subseteq Passed("transporterPhone", TransporterPhone, {}, {"",
        "wrong"}) /\ Lost("transporterPhone", TransporterPhone, {})
  BY DEF Passed, RefusedIn, Lost, TransporterPhone, PhoneStored, validatePhone, PhoneValues,
     TransporterEdition, Text, TextTypes, TextRecords, Edition, Change, Creation, Same, Only,
     NoFills
<1>6. FreeForm("transporterPhone", TransporterPhone, {"", "mine", "wrong"}, {}, {"", "wrong"})
  BY <1>1, <1>2, <1>3, <1>4, <1>5 DEF FreeForm
<1> QED
  BY <1>6, FreeFits

LEMMA TransporterBioFits == Fit("transporterBio")
<1>1. "transporterBio" \in DOMAIN Fields /\ Fields["transporterBio"] = TransporterBio
  BY DEF Fields, PublishFields, RequestFields, TripFields, PhoneTripFields, SheetFields,
     AccountFields, AccountPageFields, ProfilePageFields
<1>2. Usual(TransporterBio) /\ TransporterBio.ages = Same(TransporterBio.values)
        /\ DOMAIN TransporterBio.fills = {}
  BY DEF Usual, Left, Sent, TransporterBio, TransporterEdition, Text, TextTypes, TextRecords,
     Edition, Change, Creation, Same, Only, NoFills
<1>3. {"", "mine"} \subseteq TransporterBio.values /\ TypedIn(TransporterBio, {"", "mine"})
  BY DEF TypedIn, TransporterBio, TransporterEdition, Text, TextTypes, TextRecords, Edition,
     Change, Creation, Same, Only, NoFills
<1>4. Saves(TransporterBio, {}, {})
  BY DEF Saves, Refusing, TransporterBio, TransporterEdition, Text, TextTypes, TextRecords,
     Edition, Change, Creation, Same, Only, NoFills
<1>5. TransporterBio.early \subseteq Passed("transporterBio", TransporterBio, {}, {})
        /\ Lost("transporterBio", TransporterBio, {})
  BY DEF Passed, RefusedIn, Lost, TransporterBio, TransporterEdition, Text, TextTypes,
     TextRecords, Edition, Change, Creation, Same, Only, NoFills
<1>6. FreeForm("transporterBio", TransporterBio, {"", "mine"}, {}, {})
  BY <1>1, <1>2, <1>3, <1>4, <1>5 DEF FreeForm
<1> QED
  BY <1>6, FreeFits

LEMMA TransporterVehicleFits == Fit("transporterVehicle")
<1>1. "transporterVehicle" \in DOMAIN Fields
        /\ Fields["transporterVehicle"] = TransporterVehicle
  BY DEF Fields, PublishFields, RequestFields, TripFields, PhoneTripFields, SheetFields,
     AccountFields, AccountPageFields, ProfilePageFields
<1>2. Usual(TransporterVehicle)
        /\ TransporterVehicle.ages = Same(TransporterVehicle.values)
             /\ DOMAIN TransporterVehicle.fills = {}
  BY DEF Usual, Left, Sent, TransporterVehicle, TransporterEdition, Text, TextTypes,
     TextRecords, Edition, Change, Creation, Same, Only, NoFills
<1>3. {"", "mine"} \subseteq TransporterVehicle.values
        /\ TypedIn(TransporterVehicle, {"", "mine"})
  BY DEF TypedIn, TransporterVehicle, TransporterEdition, Text, TextTypes, TextRecords,
     Edition, Change, Creation, Same, Only, NoFills
<1>4. Saves(TransporterVehicle, {}, {})
  BY DEF Saves, Refusing, TransporterVehicle, TransporterEdition, Text, TextTypes,
     TextRecords, Edition, Change, Creation, Same, Only, NoFills
<1>5. TransporterVehicle.early \subseteq Passed("transporterVehicle", TransporterVehicle, {},
        {}) /\ Lost("transporterVehicle", TransporterVehicle, {})
  BY DEF Passed, RefusedIn, Lost, TransporterVehicle, TransporterEdition, Text, TextTypes,
     TextRecords, Edition, Change, Creation, Same, Only, NoFills
<1>6. FreeForm("transporterVehicle", TransporterVehicle, {"", "mine"}, {}, {})
  BY <1>1, <1>2, <1>3, <1>4, <1>5 DEF FreeForm
<1> QED
  BY <1>6, FreeFits

LEMMA TransporterAreasFits == Fit("transporterAreas")
<1>1. "transporterAreas" \in DOMAIN Fields /\ Fields["transporterAreas"] = TransporterAreas
  BY DEF Fields, PublishFields, RequestFields, TripFields, PhoneTripFields, SheetFields,
     AccountFields, AccountPageFields, ProfilePageFields
<1>2. Usual(TransporterAreas) /\ TransporterAreas.ages = Same(TransporterAreas.values)
        /\ DOMAIN TransporterAreas.fills = {}
  BY DEF Usual, Left, Sent, TransporterAreas, TransporterEdition, Text, TextTypes,
     TextRecords, Edition, Change, Creation, Same, Only, NoFills
<1>3. {"", "mine"} \subseteq TransporterAreas.values /\ TypedIn(TransporterAreas, {"", "mine"})
  BY DEF TypedIn, TransporterAreas, TransporterEdition, Text, TextTypes, TextRecords, Edition,
     Change, Creation, Same, Only, NoFills
<1>4. Saves(TransporterAreas, {}, {})
  BY DEF Saves, Refusing, TransporterAreas, TransporterEdition, Text, TextTypes, TextRecords,
     Edition, Change, Creation, Same, Only, NoFills
<1>5. TransporterAreas.early \subseteq Passed("transporterAreas", TransporterAreas, {}, {})
        /\ Lost("transporterAreas", TransporterAreas, {})
  BY DEF Passed, RefusedIn, Lost, TransporterAreas, TransporterEdition, Text, TextTypes,
     TextRecords, Edition, Change, Creation, Same, Only, NoFills
<1>6. FreeForm("transporterAreas", TransporterAreas, {"", "mine"}, {}, {})
  BY <1>1, <1>2, <1>3, <1>4, <1>5 DEF FreeForm
<1> QED
  BY <1>6, FreeFits

LEMMA TransporterCapacityFits == Fit("transporterCapacity")
<1>1. "transporterCapacity" \in DOMAIN Fields
        /\ Fields["transporterCapacity"] = TransporterCapacity
  BY DEF Fields, PublishFields, RequestFields, TripFields, PhoneTripFields, SheetFields,
     AccountFields, AccountPageFields, ProfilePageFields
<1>2. Usual(TransporterCapacity)
        /\ TransporterCapacity.ages = Same(TransporterCapacity.values)
             /\ DOMAIN TransporterCapacity.fills = {}
  BY DEF Usual, Left, Sent, TransporterCapacity, LoadValues, LoadSent, TransporterEdition,
     Text, TextTypes, TextRecords, Edition, Change, Creation, Same, Only, NoFills
<1>3. {"", "mine", "zero", "two decimals"} \subseteq TransporterCapacity.values
        /\ TypedIn(TransporterCapacity, {"", "mine", "zero", "two decimals"})
  BY DEF TypedIn, TransporterCapacity, LoadValues, LoadSent, TransporterEdition, Text,
     TextTypes, TextRecords, Edition, Change, Creation, Same, Only, NoFills
<1>4. Saves(TransporterCapacity, {""}, {"zero", "two decimals"})
  BY DEF Saves, Refusing, TransporterCapacity, LoadValues, LoadSent, TransporterEdition, Text,
     TextTypes, TextRecords, Edition, Change, Creation, Same, Only, NoFills
<1>5. TransporterCapacity.early \subseteq Passed("transporterCapacity", TransporterCapacity,
        {""}, {"zero", "two decimals"})
          /\ Lost("transporterCapacity", TransporterCapacity, {""})
  BY DEF Passed, RefusedIn, Lost, TransporterCapacity, LoadValues, LoadSent,
     TransporterEdition, Text, TextTypes, TextRecords, Edition, Change, Creation, Same, Only,
     NoFills
<1>6. FreeForm("transporterCapacity", TransporterCapacity, {"", "mine", "zero",
        "two decimals"}, {""}, {"zero", "two decimals"})
  BY <1>1, <1>2, <1>3, <1>4, <1>5 DEF FreeForm
<1> QED
  BY <1>6, FreeFits

LEMMA TransporterSpecsFits == Fit("transporterSpecs")
<1>1. "transporterSpecs" \in DOMAIN Fields /\ Fields["transporterSpecs"] = TransporterSpecs
  BY DEF Fields, PublishFields, RequestFields, TripFields, PhoneTripFields, SheetFields,
     AccountFields, AccountPageFields, ProfilePageFields
<1>2. Usual(TransporterSpecs) /\ TransporterSpecs.ages = Same(TransporterSpecs.values)
        /\ DOMAIN TransporterSpecs.fills = {}
  BY DEF Usual, Left, Sent, TransporterSpecs, SpecsValues, TransporterEdition, Text,
     TextTypes, TextRecords, Edition, Change, Creation, Same, Only, NoFills
<1>3. {"", "mine", "long"} \subseteq TransporterSpecs.values
        /\ TypedIn(TransporterSpecs, {"", "mine", "long"})
  BY DEF TypedIn, TransporterSpecs, SpecsValues, TransporterEdition, Text, TextTypes,
     TextRecords, Edition, Change, Creation, Same, Only, NoFills
<1>4. Saves(TransporterSpecs, {}, {"long"})
  BY DEF Saves, Refusing, TransporterSpecs, SpecsValues, TransporterEdition, Text, TextTypes,
     TextRecords, Edition, Change, Creation, Same, Only, NoFills
<1>5. TransporterSpecs.early \subseteq Passed("transporterSpecs", TransporterSpecs, {},
        {"long"}) /\ Lost("transporterSpecs", TransporterSpecs, {})
  BY DEF Passed, RefusedIn, Lost, TransporterSpecs, SpecsValues, TransporterEdition, Text,
     TextTypes, TextRecords, Edition, Change, Creation, Same, Only, NoFills
<1>6. FreeForm("transporterSpecs", TransporterSpecs, {"", "mine", "long"}, {}, {"long"})
  BY <1>1, <1>2, <1>3, <1>4, <1>5 DEF FreeForm
<1> QED
  BY <1>6, FreeFits

-----------------------------------------------------------------------------
(* The address book, and the panels of the phone.                          *)

LEMMA AddressLabelFits == Fit("addressLabel")
<1>1. "addressLabel" \in DOMAIN Fields /\ Fields["addressLabel"] = AddressLabel
  BY DEF Fields, PublishFields, RequestFields, TripFields, PhoneTripFields, SheetFields,
     AccountFields, AccountPageFields, ProfilePageFields, PanelFields
<1>2. Usual(AddressLabel) /\ AddressLabel.ages = Same(AddressLabel.values)
        /\ DOMAIN AddressLabel.fills = {}
  BY DEF Usual, Left, Sent, AddressLabel, enregistrer, LabelValues, Text, Creation, Same,
     Only, NoFills
<1>3. {"", "mine", "taken"} \subseteq AddressLabel.values
        /\ TypedIn(AddressLabel, {"", "mine", "taken"})
  BY DEF TypedIn, AddressLabel, enregistrer, LabelValues, Text, Creation, Same, Only, NoFills
<1>4. Saves(AddressLabel, {}, {"", "taken"})
  BY DEF Saves, Refusing, AddressLabel, enregistrer, LabelValues, Text, Creation, Same, Only,
     NoFills
<1>5. AddressLabel.early \subseteq Passed("addressLabel", AddressLabel, {}, {"", "taken"})
        /\ Lost("addressLabel", AddressLabel, {})
  BY DEF Passed, RefusedIn, Lost, AddressLabel, enregistrer, LabelValues, Text, Creation,
     Same, Only, NoFills
<1>6. FreeForm("addressLabel", AddressLabel, {"", "mine", "taken"}, {}, {"", "taken"})
  BY <1>1, <1>2, <1>3, <1>4, <1>5 DEF FreeForm
<1> QED
  BY <1>6, FreeFits

LEMMA PhoneLabelFits == Fit("phoneLabel")
<1>1. "phoneLabel" \in DOMAIN Fields /\ Fields["phoneLabel"] = PhoneLabel
  BY DEF Fields, PublishFields, RequestFields, TripFields, PhoneTripFields, SheetFields,
     AccountFields, AccountPageFields, ProfilePageFields, PanelFields
<1>2. Usual(PhoneLabel) /\ PhoneLabel.ages = Same(PhoneLabel.values)
        /\ DOMAIN PhoneLabel.fills = {}
  BY DEF Usual, Left, Sent, PhoneLabel, AddressLabel, enregistrer, LabelValues, Text,
     Creation, Same, Only, NoFills
<1>3. {"", "mine", "taken"} \subseteq PhoneLabel.values
        /\ TypedIn(PhoneLabel, {"", "mine", "taken"})
  BY DEF TypedIn, PhoneLabel, AddressLabel, enregistrer, LabelValues, Text, Creation, Same,
     Only, NoFills
<1>4. Saves(PhoneLabel, {}, {"", "taken"})
  BY DEF Saves, Refusing, PhoneLabel, AddressLabel, enregistrer, LabelValues, Text, Creation,
     Same, Only, NoFills
<1>5. PhoneLabel.early \subseteq Passed("phoneLabel", PhoneLabel, {}, {"", "taken"})
        /\ Lost("phoneLabel", PhoneLabel, {})
  BY DEF Passed, RefusedIn, Lost, PhoneLabel, AddressLabel, enregistrer, LabelValues, Text,
     Creation, Same, Only, NoFills
<1>6. FreeForm("phoneLabel", PhoneLabel, {"", "mine", "taken"}, {}, {"", "taken"})
  BY <1>1, <1>2, <1>3, <1>4, <1>5 DEF FreeForm
<1> QED
  BY <1>6, FreeFits

LEMMA PhoneProfileFits == Fit("phoneProfile")
<1>1. "phoneProfile" \in DOMAIN Fields /\ Fields["phoneProfile"] = EditProfileForm
  BY DEF Fields, PublishFields, RequestFields, TripFields, PhoneTripFields, SheetFields,
     AccountFields, AccountPageFields, ProfilePageFields, PanelFields
<1>2. Usual(EditProfileForm) /\ EditProfileForm.ages = Same(EditProfileForm.values)
        /\ DOMAIN EditProfileForm.fills = {}
  BY DEF Usual, Left, Sent, EditProfileForm, Text, TextTypes, Edition, Change, Creation, Same,
     Only, NoFills
<1>3. {"", "mine"} \subseteq EditProfileForm.values /\ TypedIn(EditProfileForm, {"", "mine"})
  BY DEF TypedIn, EditProfileForm, Text, TextTypes, Edition, Change, Creation, Same, Only,
     NoFills
<1>4. Saves(EditProfileForm, {}, {})
  BY DEF Saves, Refusing, EditProfileForm, Text, TextTypes, Edition, Change, Creation, Same,
     Only, NoFills
<1>5. EditProfileForm.early \subseteq Passed("phoneProfile", EditProfileForm, {}, {})
        /\ Lost("phoneProfile", EditProfileForm, {})
  BY DEF Passed, RefusedIn, Lost, EditProfileForm, Text, TextTypes, Edition, Change, Creation,
     Same, Only, NoFills
<1>6. FreeForm("phoneProfile", EditProfileForm, {"", "mine"}, {}, {})
  BY <1>1, <1>2, <1>3, <1>4, <1>5 DEF FreeForm
<1> QED
  BY <1>6, FreeFits

LEMMA PhonePasswordFits == Fit("phonePassword")
<1>1. "phonePassword" \in DOMAIN Fields /\ Fields["phonePassword"] = ChangePasswordForm
  BY DEF Fields, PublishFields, RequestFields, TripFields, PhoneTripFields, SheetFields,
     AccountFields, AccountPageFields, ProfilePageFields, PanelFields
<1>2. Usual(ChangePasswordForm)
        /\ ChangePasswordForm.ages = Same(ChangePasswordForm.values)
             /\ DOMAIN ChangePasswordForm.fills = {}
  BY DEF Usual, Left, Sent, ChangePasswordForm, Password, PasswordValues, Creation, Same,
     Only, NoFills
<1>3. {"", "good", "common", "short", "mismatch"} \subseteq ChangePasswordForm.values
        /\ TypedIn(ChangePasswordForm, {"", "good", "common", "short", "mismatch"})
  BY DEF TypedIn, ChangePasswordForm, Password, PasswordValues, Creation, Same, Only, NoFills
<1>4. Saves(ChangePasswordForm, {}, {"", "common", "short", "mismatch"})
  BY DEF Saves, Refusing, ChangePasswordForm, Password, PasswordValues, Creation, Same, Only,
     NoFills
<1>5. ChangePasswordForm.early \subseteq Passed("phonePassword", ChangePasswordForm, {}, {"",
        "common", "short", "mismatch"}) /\ Lost("phonePassword", ChangePasswordForm, {})
  BY DEF Passed, RefusedIn, Lost, ChangePasswordForm, Password, PasswordValues, Creation,
     Same, Only, NoFills
<1>6. FreeForm("phonePassword", ChangePasswordForm, {"", "good", "common", "short",
        "mismatch"}, {}, {"", "common", "short", "mismatch"})
  BY <1>1, <1>2, <1>3, <1>4, <1>5 DEF FreeForm
<1> QED
  BY <1>6, FreeFits

LEMMA PhoneResetFits == Fit("phoneReset")
<1>1. "phoneReset" \in DOMAIN Fields /\ Fields["phoneReset"] = ResetPasswordForm
  BY DEF Fields, PublishFields, RequestFields, TripFields, PhoneTripFields, SheetFields,
     AccountFields, AccountPageFields, ProfilePageFields, PanelFields
<1>2. Usual(ResetPasswordForm) /\ ResetPasswordForm.ages = Same(ResetPasswordForm.values)
        /\ DOMAIN ResetPasswordForm.fills = {}
  BY DEF Usual, Left, Sent, ResetPasswordForm, Password, PasswordValues, Creation, Same, Only,
     NoFills
<1>3. {"", "good", "common", "short", "mismatch"} \subseteq ResetPasswordForm.values
        /\ TypedIn(ResetPasswordForm, {"", "good", "common", "short", "mismatch"})
  BY DEF TypedIn, ResetPasswordForm, Password, PasswordValues, Creation, Same, Only, NoFills
<1>4. Saves(ResetPasswordForm, {}, {"", "short", "mismatch"})
  BY DEF Saves, Refusing, ResetPasswordForm, Password, PasswordValues, Creation, Same, Only,
     NoFills
<1>5. ResetPasswordForm.early \subseteq Passed("phoneReset", ResetPasswordForm, {}, {"",
        "short", "mismatch"}) /\ Lost("phoneReset", ResetPasswordForm, {})
  BY DEF Passed, RefusedIn, Lost, ResetPasswordForm, Password, PasswordValues, Creation, Same,
     Only, NoFills
<1>6. FreeForm("phoneReset", ResetPasswordForm, {"", "good", "common", "short", "mismatch"},
        {}, {"", "short", "mismatch"})
  BY <1>1, <1>2, <1>3, <1>4, <1>5 DEF FreeForm
<1> QED
  BY <1>6, FreeFits

LEMMA PhoneNotificationsFits == Fit("phoneNotifications")
<1>1. "phoneNotifications" \in DOMAIN Fields
        /\ Fields["phoneNotifications"] = NotificationPrefsForm
  BY DEF Fields, PublishFields, RequestFields, TripFields, PhoneTripFields, SheetFields,
     AccountFields, AccountPageFields, ProfilePageFields, PanelFields
<1>2. Usual(NotificationPrefsForm)
        /\ NotificationPrefsForm.ages = Same(NotificationPrefsForm.values)
             /\ DOMAIN NotificationPrefsForm.fills = {}
  BY DEF Usual, Left, Sent, NotificationPrefsForm, Switch, Edition, Change, Creation, Same,
     Only, NoFills
<1>3. {"on", "off"} \subseteq NotificationPrefsForm.values
        /\ TypedIn(NotificationPrefsForm, {"on", "off"})
  BY DEF TypedIn, NotificationPrefsForm, Switch, Edition, Change, Creation, Same, Only, NoFills
<1>4. Saves(NotificationPrefsForm, {}, {})
  BY DEF Saves, Refusing, NotificationPrefsForm, Switch, Edition, Change, Creation, Same,
     Only, NoFills
<1>5. NotificationPrefsForm.early \subseteq Passed("phoneNotifications",
        NotificationPrefsForm, {}, {}) /\ Lost("phoneNotifications", NotificationPrefsForm, {})
  BY DEF Passed, RefusedIn, Lost, NotificationPrefsForm, Switch, Edition, Change, Creation,
     Same, Only, NoFills
<1>6. FreeForm("phoneNotifications", NotificationPrefsForm, {"on", "off"}, {}, {})
  BY <1>1, <1>2, <1>3, <1>4, <1>5 DEF FreeForm
<1> QED
  BY <1>6, FreeFits

LEMMA PhoneDocumentFits == Fit("phoneDocument")
<1>1. "phoneDocument" \in DOMAIN Fields /\ Fields["phoneDocument"] = AddDocumentSheet
  BY DEF Fields, PublishFields, RequestFields, TripFields, PhoneTripFields, SheetFields,
     AccountFields, AccountPageFields, ProfilePageFields, PanelFields
<1>2. Usual(AddDocumentSheet) /\ AddDocumentSheet.ages = Same(AddDocumentSheet.values)
        /\ DOMAIN AddDocumentSheet.fills = {}
  BY DEF Usual, Left, Sent, AddDocumentSheet, DocumentValues, Creation, Same, Only, NoFills
<1>3. {"", "no image", "wrong date", "good"} \subseteq AddDocumentSheet.values
        /\ TypedIn(AddDocumentSheet, {"", "no image", "wrong date", "good"})
  BY DEF TypedIn, AddDocumentSheet, DocumentValues, Creation, Same, Only, NoFills
<1>4. Saves(AddDocumentSheet, {}, {"", "no image", "wrong date"})
  BY DEF Saves, Refusing, AddDocumentSheet, DocumentValues, Creation, Same, Only, NoFills
<1>5. AddDocumentSheet.early \subseteq Passed("phoneDocument", AddDocumentSheet, {}, {"",
        "no image", "wrong date"}) /\ Lost("phoneDocument", AddDocumentSheet, {})
  BY DEF Passed, RefusedIn, Lost, AddDocumentSheet, DocumentValues, Creation, Same, Only,
     NoFills
<1>6. FreeForm("phoneDocument", AddDocumentSheet, {"", "no image", "wrong date", "good"}, {},
        {"", "no image", "wrong date"})
  BY <1>1, <1>2, <1>3, <1>4, <1>5 DEF FreeForm
<1> QED
  BY <1>6, FreeFits

LEMMA PhoneWithdrawalFits == Fit("phoneWithdrawal")
<1>1. "phoneWithdrawal" \in DOMAIN Fields /\ Fields["phoneWithdrawal"] = WithdrawalSheet
  BY DEF Fields, PublishFields, RequestFields, TripFields, PhoneTripFields, SheetFields,
     AccountFields, AccountPageFields, ProfilePageFields, PanelFields
<1>2. Usual(WithdrawalSheet) /\ WithdrawalSheet.ages = Same(WithdrawalSheet.values)
        /\ DOMAIN WithdrawalSheet.fills = {}
  BY DEF Usual, Left, Sent, WithdrawalSheet, AmountValues, Creation, Same, Only, NoFills
<1>3. {"", "below the minimum", "good",
        "above the balance"} \subseteq WithdrawalSheet.values
          /\ TypedIn(WithdrawalSheet, {"", "below the minimum", "good", "above the balance"})
  BY DEF TypedIn, WithdrawalSheet, AmountValues, Creation, Same, Only, NoFills
<1>4. Saves(WithdrawalSheet, {}, {"", "below the minimum", "above the balance"})
  BY DEF Saves, Refusing, WithdrawalSheet, AmountValues, Creation, Same, Only, NoFills
<1>5. WithdrawalSheet.early \subseteq Passed("phoneWithdrawal", WithdrawalSheet, {}, {"",
        "below the minimum", "above the balance"})
          /\ Lost("phoneWithdrawal", WithdrawalSheet, {})
  BY DEF Passed, RefusedIn, Lost, WithdrawalSheet, AmountValues, Creation, Same, Only, NoFills
<1>6. FreeForm("phoneWithdrawal", WithdrawalSheet, {"", "below the minimum", "good",
        "above the balance"}, {}, {"", "below the minimum", "above the balance"})
  BY <1>1, <1>2, <1>3, <1>4, <1>5 DEF FreeForm
<1> QED
  BY <1>6, FreeFits

LEMMA PhoneDisputeFits == Fit("phoneDispute")
<1>1. "phoneDispute" \in DOMAIN Fields /\ Fields["phoneDispute"] = OpenDisputeSheet
  BY DEF Fields, PublishFields, RequestFields, TripFields, PhoneTripFields, SheetFields,
     AccountFields, AccountPageFields, ProfilePageFields, PanelFields
<1>2. Usual(OpenDisputeSheet) /\ OpenDisputeSheet.ages = Same(OpenDisputeSheet.values)
        /\ DOMAIN OpenDisputeSheet.fills = {}
  BY DEF Usual, Left, Sent, OpenDisputeSheet, DisputeValues, Creation, Same, Only, NoFills
<1>3. {"", "short", "good", "too long"} \subseteq OpenDisputeSheet.values
        /\ TypedIn(OpenDisputeSheet, {"", "short", "good", "too long"})
  BY DEF TypedIn, OpenDisputeSheet, DisputeValues, Creation, Same, Only, NoFills
<1>4. Saves(OpenDisputeSheet, {}, {"", "short", "too long"})
  BY DEF Saves, Refusing, OpenDisputeSheet, DisputeValues, Creation, Same, Only, NoFills
<1>5. OpenDisputeSheet.early \subseteq Passed("phoneDispute", OpenDisputeSheet, {}, {"",
        "short", "too long"}) /\ Lost("phoneDispute", OpenDisputeSheet, {})
  BY DEF Passed, RefusedIn, Lost, OpenDisputeSheet, DisputeValues, Creation, Same, Only, NoFills
<1>6. FreeForm("phoneDispute", OpenDisputeSheet, {"", "short", "good", "too long"}, {}, {"",
        "short", "too long"})
  BY <1>1, <1>2, <1>3, <1>4, <1>5 DEF FreeForm
<1> QED
  BY <1>6, FreeFits

LEMMA PhoneReviewFits == Fit("phoneReview")
<1>1. "phoneReview" \in DOMAIN Fields /\ Fields["phoneReview"] = OpenReviewSheet
  BY DEF Fields, PublishFields, RequestFields, TripFields, PhoneTripFields, SheetFields,
     AccountFields, AccountPageFields, ProfilePageFields, PanelFields
<1>2. Usual(OpenReviewSheet) /\ OpenReviewSheet.ages = Same(OpenReviewSheet.values)
        /\ DOMAIN OpenReviewSheet.fills = {}
  BY DEF Usual, Left, Sent, OpenReviewSheet, RatingValues, Creation, Same, Only, NoFills
<1>3. {"rated"} \subseteq OpenReviewSheet.values /\ TypedIn(OpenReviewSheet, {"rated"})
  BY DEF TypedIn, OpenReviewSheet, RatingValues, Creation, Same, Only, NoFills
<1>4. Saves(OpenReviewSheet, {}, {})
  BY DEF Saves, Refusing, OpenReviewSheet, RatingValues, Creation, Same, Only, NoFills
<1>5. OpenReviewSheet.early \subseteq Passed("phoneReview", OpenReviewSheet, {}, {})
        /\ Lost("phoneReview", OpenReviewSheet, {})
  BY DEF Passed, RefusedIn, Lost, OpenReviewSheet, RatingValues, Creation, Same, Only, NoFills
<1>6. FreeForm("phoneReview", OpenReviewSheet, {"rated"}, {}, {})
  BY <1>1, <1>2, <1>3, <1>4, <1>5 DEF FreeForm
<1> QED
  BY <1>6, FreeFits

LEMMA PhoneAreasFits == Fit("phoneAreas")
<1>1. "phoneAreas" \in DOMAIN Fields /\ Fields["phoneAreas"] = ServiceAreasPanel
  BY DEF Fields, PublishFields, RequestFields, TripFields, PhoneTripFields, SheetFields,
     AccountFields, AccountPageFields, ProfilePageFields, PanelFields
<1>2. Usual(ServiceAreasPanel) /\ ServiceAreasPanel.ages = Same(ServiceAreasPanel.values)
        /\ DOMAIN ServiceAreasPanel.fills = {}
  BY DEF Usual, Left, Sent, ServiceAreasPanel, Text, TextTypes, TextRecords, Change, Creation,
     Same, Only, NoFills
<1>3. {"", "mine"} \subseteq ServiceAreasPanel.values
        /\ TypedIn(ServiceAreasPanel, {"", "mine"})
  BY DEF TypedIn, ServiceAreasPanel, Text, TextTypes, TextRecords, Change, Creation, Same,
     Only, NoFills
<1>4. Saves(ServiceAreasPanel, {}, {})
  BY DEF Saves, Refusing, ServiceAreasPanel, Text, TextTypes, TextRecords, Change, Creation,
     Same, Only, NoFills
<1>5. ServiceAreasPanel.early \subseteq Passed("phoneAreas", ServiceAreasPanel, {}, {})
        /\ Lost("phoneAreas", ServiceAreasPanel, {})
  BY DEF Passed, RefusedIn, Lost, ServiceAreasPanel, Text, TextTypes, TextRecords, Change,
     Creation, Same, Only, NoFills
<1>6. FreeForm("phoneAreas", ServiceAreasPanel, {"", "mine"}, {}, {})
  BY <1>1, <1>2, <1>3, <1>4, <1>5 DEF FreeForm
<1> QED
  BY <1>6, FreeFits

-----------------------------------------------------------------------------
(* Fields with a choice of their own.                                      *)

LEMMA DemandHintFits == Fit("demandHint")
<1>1. "demandHint" \in DOMAIN Fields /\ Fields["demandHint"] = StepHint
  BY DEF Fields, PublishFields, RequestFields
<1>2. Usual(StepHint) /\ StepHint.ages = Same(StepHint.values) /\ DOMAIN StepHint.fills = {}
  BY DEF Usual, Left, Sent, StepHint, addHintChip, HintValues, Request, Answers, Creation,
     Same, Only, NoFills
<1>3. StepHint.values = {"", "mine", "suggested", "mine and suggested"}
  BY DEF StepHint, addHintChip, HintValues, Request, Answers, Creation, Same, Only, NoFills
<1>4. /\ StepHint.types[""] = {"mine", "suggested"}
      /\ StepHint.types["mine"] = {"", "mine and suggested"}
      /\ StepHint.types["suggested"] = {"", "mine", "suggested"}
      /\ StepHint.types["mine and suggested"] = {"", "mine", "mine and suggested"}
  BY DEF StepHint, addHintChip, HintValues, Request, Answers, Creation, Same, Only, NoFills
<1>5. /\ StepHint.likes[""] = {""}
      /\ StepHint.likes["mine"] = {"mine"}
      /\ StepHint.likes["suggested"] = {"suggested"}
      /\ StepHint.likes["mine and suggested"] = {"mine and suggested"}
  BY DEF StepHint, addHintChip, HintValues, Request, Answers, Creation, Same, Only, NoFills
<1>6. Typed(StepHint) = {"", "mine", "suggested", "mine and suggested"}
  BY <1>3, <1>4 DEF Typed
<1>7. /\ After(StepHint, "") = {"", "mine", "suggested", "mine and suggested"}
      /\ After(StepHint, "mine") = {"", "mine", "suggested", "mine and suggested"}
      /\ After(StepHint, "suggested") = {"", "mine", "suggested", "mine and suggested"}
      /\ After(StepHint, "mine and suggested") = {"", "mine", "suggested", "mine and suggested"}
  BY <1>4 DEF After
<1>8. Retyped(StepHint)
  <2>1. \A v \in Typed(StepHint) : v \in StepHint.likes[v]
    BY <1>5, <1>6
  <2>2. \A v \in StepHint.values : StepHint.types[v] \subseteq StepHint.values
    BY <1>3, <1>4
  <2>3. \A v \in StepHint.values : \A w \in After(StepHint, v) :
          StepHint.types[w] \subseteq After(StepHint, v)
    <3>1. \A v \in StepHint.values : After(StepHint, v) = StepHint.values
      BY <1>3, <1>7
    <3> QED
      BY <2>2, <3>1
  <2> QED
    BY <2>1, <2>2, <2>3 DEF Retyped
<1>9. Saves(StepHint, {}, {})
  BY DEF Saves, Refusing, StepHint, addHintChip, HintValues, Request, Answers, Creation, Same,
     Only, NoFills
<1>10. StepHint.early \subseteq Passed("demandHint", StepHint, {}, {})
         /\ Lost("demandHint", StepHint, {})
  BY DEF Passed, RefusedIn, Lost, StepHint, addHintChip, HintValues, Request, Answers,
     Creation, Same, Only, NoFills
<1>11. Made("demandHint", StepHint, {}, {})
  BY <1>1, <1>2, <1>8, <1>9, <1>10, UsualMade
<1> QED
  BY <1>2, <1>11, SteadyFits

LEMMA DemandSpecificationsFits == Fit("demandSpecifications")
<1>1. "demandSpecifications" \in DOMAIN Fields
        /\ Fields["demandSpecifications"] = StepSpecifications
  BY DEF Fields, PublishFields, RequestFields
<1>2. Usual(StepSpecifications)
        /\ StepSpecifications.ages = Same(StepSpecifications.values)
             /\ DOMAIN StepSpecifications.fills = {}
  BY DEF Usual, Left, Sent, StepSpecifications, updateFormData, SpecificationValues, Request,
     Answers, Creation, Same, Only, NoFills
<1>3. StepSpecifications.values = {"", "moving", "transport", "moving and transport"}
  BY DEF StepSpecifications, updateFormData, SpecificationValues, Request, Answers, Creation,
     Same, Only, NoFills
<1>4. /\ StepSpecifications.types[""] = {"moving", "transport"}
      /\ StepSpecifications.types["moving"] = {"moving and transport"}
      /\ StepSpecifications.types["transport"] = {"moving and transport"}
      /\ StepSpecifications.types["moving and transport"] = {}
  BY DEF StepSpecifications, updateFormData, SpecificationValues, Request, Answers, Creation,
     Same, Only, NoFills
<1>5. /\ StepSpecifications.likes[""] = {""}
      /\ StepSpecifications.likes["moving"] = {"moving"}
      /\ StepSpecifications.likes["transport"] = {"transport"}
      /\ StepSpecifications.likes["moving and transport"] = {"moving and transport"}
  BY DEF StepSpecifications, updateFormData, SpecificationValues, Request, Answers, Creation,
     Same, Only, NoFills
<1>6. Typed(StepSpecifications) = {"moving", "transport", "moving and transport"}
  BY <1>3, <1>4 DEF Typed
<1>7. /\ After(StepSpecifications, "") = {"moving", "transport", "moving and transport"}
      /\ After(StepSpecifications, "moving") = {"moving and transport"}
      /\ After(StepSpecifications, "transport") = {"moving and transport"}
      /\ After(StepSpecifications, "moving and transport") = {}
  BY <1>4 DEF After
<1>8. Retyped(StepSpecifications)
  <2>1. \A v \in Typed(StepSpecifications) : v \in StepSpecifications.likes[v]
    BY <1>5, <1>6
  <2>2. \A v \in StepSpecifications.values :
          StepSpecifications.types[v] \subseteq StepSpecifications.values
    BY <1>3, <1>4
  <2>3. \A v \in StepSpecifications.values : \A w \in After(StepSpecifications, v) :
          StepSpecifications.types[w] \subseteq After(StepSpecifications, v)
    BY <1>3, <1>4, <1>7
  <2> QED
    BY <2>1, <2>2, <2>3 DEF Retyped
<1>9. Saves(StepSpecifications, {}, {})
  BY DEF Saves, Refusing, StepSpecifications, updateFormData, SpecificationValues, Request,
     Answers, Creation, Same, Only, NoFills
<1>10. StepSpecifications.early \subseteq Passed("demandSpecifications", StepSpecifications,
         {}, {}) /\ Lost("demandSpecifications", StepSpecifications, {})
  BY DEF Passed, RefusedIn, Lost, StepSpecifications, updateFormData, SpecificationValues,
     Request, Answers, Creation, Same, Only, NoFills
<1>11. Made("demandSpecifications", StepSpecifications, {}, {})
  BY <1>1, <1>2, <1>8, <1>9, <1>10, UsualMade
<1> QED
  BY <1>2, <1>11, SteadyFits

-----------------------------------------------------------------------------
(* Fields that time changes.                                               *)

LEMMA DemandScheduleFits == Fit("demandSchedule")
<1>1. "demandSchedule" \in DOMAIN Fields /\ Fields["demandSchedule"] = StepSchedule
  BY DEF Fields, PublishFields, RequestFields
<1>2. Usual(StepSchedule) /\ DOMAIN StepSchedule.fills = {} /\ StepSchedule.first = ""
  BY DEF Usual, Left, Sent, StepSchedule, ScheduleValues, ScheduleAges, validateStep, Request,
     Answers, Creation, Same, Only, NoFills
<1>3. StepSchedule.values = {"", "past", "soon", "later"}
        /\ DOMAIN StepSchedule.ages = StepSchedule.values
  BY DEF StepSchedule, ScheduleValues, ScheduleAges, validateStep, Request, Answers, Creation,
     Same, Only, NoFills
<1>4. /\ StepSchedule.ages[""] = ""
      /\ StepSchedule.ages["past"] = "past"
      /\ StepSchedule.ages["soon"] = "past"
      /\ StepSchedule.ages["later"] = "soon"
  BY DEF StepSchedule, ScheduleValues, ScheduleAges, validateStep, Request, Answers, Creation,
     Same, Only, NoFills
<1>5. {"", "past", "soon", "later"} \subseteq StepSchedule.values
        /\ TypedIn(StepSchedule, {"", "past", "soon", "later"})
  BY DEF TypedIn, StepSchedule, ScheduleValues, ScheduleAges, validateStep, Request, Answers,
     Creation, Same, Only, NoFills
<1>6. Retyped(StepSchedule)
  BY <1>5, FreelyTyped DEF Retyped
<1>7. Typed(StepSchedule) = {"", "past", "soon", "later"}
  <2>1. /\ StepSchedule.types[""] = {"past", "soon", "later"}
        /\ StepSchedule.types["past"] = {"", "soon", "later"}
        /\ StepSchedule.types["soon"] = {"", "past", "later"}
        /\ StepSchedule.types["later"] = {"", "past", "soon"}
    BY <1>3, <1>5, ZenonT(40) DEF TypedIn
  <2> QED
    BY <1>3, <2>1 DEF Typed
<1>8. Saves(StepSchedule, {}, {"", "past"})
  BY DEF Saves, Refusing, StepSchedule, ScheduleValues, ScheduleAges, validateStep, Request,
     Answers, Creation, Same, Only, NoFills
<1>9. /\ StepSchedule.early \subseteq Passed("demandSchedule", StepSchedule, {}, {"",
           "past"}) /\ Lost("demandSchedule", StepSchedule, {})
      /\ Passed("demandSchedule", StepSchedule, {}, {"", "past"}) = {"past", "soon", "later"}
  BY DEF Passed, RefusedIn, Lost, StepSchedule, ScheduleValues, ScheduleAges, validateStep,
     Request, Answers, Creation, Same, Only, NoFills
<1>10. Made("demandSchedule", StepSchedule, {}, {"", "past"})
  BY <1>1, <1>2, <1>6, <1>8, <1>9, UsualMade
<1>11. Sound("demandSchedule") = {"past", "soon", "later"}
  BY <1>9, <1>10, SoundIs
<1>12. OfferedBy(StepSchedule) = {""}
  <2>1. OfferedBy(StepSchedule) = Times(StepSchedule)
    BY <1>2, <1>3, OfferedByTime
  <2> QED
    BY <1>2, <1>4, <2>1 DEF Times
<1>13. Ageing("demandSchedule", StepSchedule)
  <2>1. \A v \in StepSchedule.values : StepSchedule.ages[v] \in StepSchedule.values
    BY <1>3, <1>4
  <2>2. OverwrittenIn("demandSchedule") = {}
    BY DEF OverwrittenIn
  <2>3. \A v \in Typed(StepSchedule) :
          StepSchedule.likes[v] = {v} /\ StepSchedule.ages[v] \in Typed(StepSchedule)
    BY <1>4, <1>5, <1>7 DEF TypedIn
  <2>4. \A v \in Sound("demandSchedule") : StepSchedule.ages[v] \in Sound("demandSchedule")
    BY <1>4, <1>11
  <2>5. \A v \in OfferedBy(StepSchedule) \cap StepSchedule.values :
          StepSchedule.ages[v] \in OfferedBy(StepSchedule)
    BY <1>4, <1>12
  <2> QED
    BY <1>2, <2>1, <2>2, <2>3, <2>4, <2>5 DEF Ageing
<1> QED
  BY <1>2, <1>10, <1>13, MadeFits

LEMMA TripDepartureFits == Fit("tripDeparture")
<1>1. "tripDeparture" \in DOMAIN Fields /\ Fields["tripDeparture"] = TripDeparture
  BY DEF Fields, PublishFields, RequestFields, TripFields
<1>2. Usual(TripDeparture) /\ DOMAIN TripDeparture.fills = {} /\ TripDeparture.first = "today"
  BY DEF Usual, Left, Sent, TripDeparture, Trip, DepartureValues, DepartureAges,
     DepartureStored, Answers, Creation, Same, Only, NoFills
<1>3. TripDeparture.values = {"", "today", "later", "past"}
        /\ DOMAIN TripDeparture.ages = TripDeparture.values
  BY DEF TripDeparture, Trip, DepartureValues, DepartureAges, DepartureStored, Answers,
     Creation, Same, Only, NoFills
<1>4. /\ TripDeparture.ages[""] = ""
      /\ TripDeparture.ages["today"] = "past"
      /\ TripDeparture.ages["later"] = "today"
      /\ TripDeparture.ages["past"] = "past"
  BY DEF TripDeparture, Trip, DepartureValues, DepartureAges, DepartureStored, Answers,
     Creation, Same, Only, NoFills
<1>5. {"", "today", "later", "past"} \subseteq TripDeparture.values
        /\ TypedIn(TripDeparture, {"", "today", "later", "past"})
  BY DEF TypedIn, TripDeparture, Trip, DepartureValues, DepartureAges, DepartureStored,
     Answers, Creation, Same, Only, NoFills
<1>6. Retyped(TripDeparture)
  BY <1>5, FreelyTyped DEF Retyped
<1>7. Typed(TripDeparture) = {"", "today", "later", "past"}
  <2>1. /\ TripDeparture.types[""] = {"today", "later", "past"}
        /\ TripDeparture.types["today"] = {"", "later", "past"}
        /\ TripDeparture.types["later"] = {"", "today", "past"}
        /\ TripDeparture.types["past"] = {"", "today", "later"}
    BY <1>3, <1>5, ZenonT(40) DEF TypedIn
  <2> QED
    BY <1>3, <2>1 DEF Typed
<1>8. Saves(TripDeparture, {}, {"", "past"})
  BY DEF Saves, Refusing, TripDeparture, Trip, DepartureValues, DepartureAges,
     DepartureStored, Answers, Creation, Same, Only, NoFills
<1>9. /\ TripDeparture.early \subseteq Passed("tripDeparture", TripDeparture, {}, {"",
           "past"}) /\ Lost("tripDeparture", TripDeparture, {})
      /\ Passed("tripDeparture", TripDeparture, {}, {"", "past"}) = {"", "today", "later",
           "past"}
  BY DEF Passed, RefusedIn, Lost, TripDeparture, Trip, DepartureValues, DepartureAges,
     DepartureStored, Answers, Creation, Same, Only, NoFills
<1>10. Made("tripDeparture", TripDeparture, {}, {"", "past"})
  BY <1>1, <1>2, <1>6, <1>8, <1>9, UsualMade
<1>11. Sound("tripDeparture") = {"", "today", "later", "past"}
  BY <1>9, <1>10, SoundIs
<1>12. OfferedBy(TripDeparture) = {"today", "past"}
  <2>1. OfferedBy(TripDeparture) = Times(TripDeparture)
    BY <1>2, <1>3, OfferedByTime
  <2> QED
    BY <1>2, <1>4, <2>1 DEF Times
<1>13. Ageing("tripDeparture", TripDeparture)
  <2>1. \A v \in TripDeparture.values : TripDeparture.ages[v] \in TripDeparture.values
    BY <1>3, <1>4
  <2>2. OverwrittenIn("tripDeparture") = {}
    BY DEF OverwrittenIn
  <2>3. \A v \in Typed(TripDeparture) :
          TripDeparture.likes[v] = {v} /\ TripDeparture.ages[v] \in Typed(TripDeparture)
    BY <1>4, <1>5, <1>7 DEF TypedIn
  <2>4. \A v \in Sound("tripDeparture") : TripDeparture.ages[v] \in Sound("tripDeparture")
    BY <1>4, <1>11
  <2>5. \A v \in OfferedBy(TripDeparture) \cap TripDeparture.values :
          TripDeparture.ages[v] \in OfferedBy(TripDeparture)
    BY <1>4, <1>12
  <2> QED
    BY <1>2, <2>1, <2>2, <2>3, <2>4, <2>5 DEF Ageing
<1> QED
  BY <1>2, <1>10, <1>13, MadeFits

LEMMA PhoneDepartureFits == Fit("phoneDeparture")
<1>1. "phoneDeparture" \in DOMAIN Fields /\ Fields["phoneDeparture"] = PhoneDeparture
  BY DEF Fields, PublishFields, RequestFields, TripFields, PhoneTripFields
<1>2. Usual(PhoneDeparture) /\ DOMAIN PhoneDeparture.fills = {} /\ PhoneDeparture.first = ""
  BY DEF Usual, Left, Sent, PhoneDeparture, publishSchema, DepartureValues, DepartureAges,
     DepartureStored, Answers, Creation, Same, Only, NoFills
<1>3. PhoneDeparture.values = {"", "today", "later", "past"}
        /\ DOMAIN PhoneDeparture.ages = PhoneDeparture.values
  BY DEF PhoneDeparture, publishSchema, DepartureValues, DepartureAges, DepartureStored,
     Answers, Creation, Same, Only, NoFills
<1>4. /\ PhoneDeparture.ages[""] = ""
      /\ PhoneDeparture.ages["today"] = "past"
      /\ PhoneDeparture.ages["later"] = "today"
      /\ PhoneDeparture.ages["past"] = "past"
  BY DEF PhoneDeparture, publishSchema, DepartureValues, DepartureAges, DepartureStored,
     Answers, Creation, Same, Only, NoFills
<1>5. {"today", "later", "past"} \subseteq PhoneDeparture.values
        /\ TypedIn(PhoneDeparture, {"today", "later", "past"})
  BY DEF TypedIn, PhoneDeparture, publishSchema, DepartureValues, DepartureAges,
     DepartureStored, Answers, Creation, Same, Only, NoFills
<1>6. Retyped(PhoneDeparture)
  BY <1>5, FreelyTyped DEF Retyped
<1>7. Typed(PhoneDeparture) = {"today", "later", "past"}
  <2>1. /\ PhoneDeparture.types[""] = {"today", "later", "past"}
        /\ PhoneDeparture.types["today"] = {"later", "past"}
        /\ PhoneDeparture.types["later"] = {"today", "past"}
        /\ PhoneDeparture.types["past"] = {"today", "later"}
    BY <1>3, <1>5, ZenonT(40) DEF TypedIn
  <2> QED
    BY <1>3, <2>1 DEF Typed
<1>8. Saves(PhoneDeparture, {}, {"", "past"})
  BY DEF Saves, Refusing, PhoneDeparture, publishSchema, DepartureValues, DepartureAges,
     DepartureStored, Answers, Creation, Same, Only, NoFills
<1>9. /\ PhoneDeparture.early \subseteq Passed("phoneDeparture", PhoneDeparture, {}, {"",
           "past"}) /\ Lost("phoneDeparture", PhoneDeparture, {})
      /\ Passed("phoneDeparture", PhoneDeparture, {}, {"", "past"}) = {"", "today", "later",
           "past"}
  BY DEF Passed, RefusedIn, Lost, PhoneDeparture, publishSchema, DepartureValues,
     DepartureAges, DepartureStored, Answers, Creation, Same, Only, NoFills
<1>10. Made("phoneDeparture", PhoneDeparture, {}, {"", "past"})
  BY <1>1, <1>2, <1>6, <1>8, <1>9, UsualMade
<1>11. Sound("phoneDeparture") = {"", "today", "later", "past"}
  BY <1>9, <1>10, SoundIs
<1>12. OfferedBy(PhoneDeparture) = {""}
  <2>1. OfferedBy(PhoneDeparture) = Times(PhoneDeparture)
    BY <1>2, <1>3, OfferedByTime
  <2> QED
    BY <1>2, <1>4, <2>1 DEF Times
<1>13. Ageing("phoneDeparture", PhoneDeparture)
  <2>1. \A v \in PhoneDeparture.values : PhoneDeparture.ages[v] \in PhoneDeparture.values
    BY <1>3, <1>4
  <2>2. OverwrittenIn("phoneDeparture") = {}
    BY DEF OverwrittenIn
  <2>3. \A v \in Typed(PhoneDeparture) :
          PhoneDeparture.likes[v] = {v} /\ PhoneDeparture.ages[v] \in Typed(PhoneDeparture)
    BY <1>4, <1>5, <1>7 DEF TypedIn
  <2>4. \A v \in Sound("phoneDeparture") : PhoneDeparture.ages[v] \in Sound("phoneDeparture")
    BY <1>4, <1>11
  <2>5. \A v \in OfferedBy(PhoneDeparture) \cap PhoneDeparture.values :
          PhoneDeparture.ages[v] \in OfferedBy(PhoneDeparture)
    BY <1>4, <1>12
  <2> QED
    BY <1>2, <2>1, <2>2, <2>3, <2>4, <2>5 DEF Ageing
<1> QED
  BY <1>2, <1>10, <1>13, MadeFits

-----------------------------------------------------------------------------
(* Fields that are filled in.                                              *)

LEMMA DemandAddressFits == Fit("demandAddress")
<1>1. "demandAddress" \in DOMAIN Fields /\ Fields["demandAddress"] = StepAddress
  BY DEF Fields, PublishFields, RequestFields
<1>2. Usual(StepAddress) /\ StepAddress.ages = Same(StepAddress.values)
        /\ StepAddress.first = ""
  BY DEF Usual, Left, Sent, StepAddress, AddressValues, AddressTypes, AddressGps,
     AddressStored, Position, Request, Answers, Creation, Same, Only, NoFills
<1>3. StepAddress.values = {"", "mine", "book", "long", "located"}
  BY DEF StepAddress, AddressValues, AddressTypes, AddressGps, AddressStored, Position,
     Request, Answers, Creation, Same, Only, NoFills
<1>4. /\ StepAddress.types[""] = {"mine", "book", "long"}
      /\ StepAddress.types["mine"] = {"", "book", "long"}
      /\ StepAddress.types["book"] = {"", "mine", "long"}
      /\ StepAddress.types["long"] = {"", "mine", "book"}
      /\ StepAddress.types["located"] = {"", "mine", "book", "long"}
  BY DEF StepAddress, AddressValues, AddressTypes, AddressGps, AddressStored, Position,
     Request, Answers, Creation, Same, Only, NoFills
<1>5. /\ StepAddress.likes[""] = {""}
      /\ StepAddress.likes["mine"] = {"mine"}
      /\ StepAddress.likes["book"] = {"book"}
      /\ StepAddress.likes["long"] = {"long"}
      /\ StepAddress.likes["located"] = {"located"}
  BY DEF StepAddress, AddressValues, AddressTypes, AddressGps, AddressStored, Position,
     Request, Answers, Creation, Same, Only, NoFills
<1>6. Typed(StepAddress) = {"", "mine", "book", "long"}
  BY <1>3, <1>4, ZenonT(40) DEF Typed
<1>7. /\ After(StepAddress, "") = {"", "mine", "book", "long"}
      /\ After(StepAddress, "mine") = {"", "mine", "book", "long"}
      /\ After(StepAddress, "book") = {"", "mine", "book", "long"}
      /\ After(StepAddress, "long") = {"", "mine", "book", "long"}
      /\ After(StepAddress, "located") = {"", "mine", "book", "long"}
  BY <1>4, ZenonT(40) DEF After
<1>8. Retyped(StepAddress)
  <2>1. \A v \in Typed(StepAddress) : v \in StepAddress.likes[v]
    BY <1>5, <1>6
  <2>2. \A v \in StepAddress.values : StepAddress.types[v] \subseteq StepAddress.values
    BY <1>3, <1>4
  <2>3. \A v \in StepAddress.values : \A w \in After(StepAddress, v) :
          StepAddress.types[w] \subseteq After(StepAddress, v)
    BY <1>3, <1>4, <1>7
  <2> QED
    BY <2>1, <2>2, <2>3 DEF Retyped
<1>9. Saves(StepAddress, {}, {"", "long"})
  BY DEF Saves, Refusing, StepAddress, AddressValues, AddressTypes, AddressGps, AddressStored,
     Position, Request, Answers, Creation, Same, Only, NoFills
<1>10. /\ StepAddress.early \subseteq Passed("demandAddress", StepAddress, {}, {"",
            "long"}) /\ Lost("demandAddress", StepAddress, {})
      /\ Passed("demandAddress", StepAddress, {}, {"", "long"}) = {"mine", "book", "long",
           "located"}
  BY DEF Passed, RefusedIn, Lost, StepAddress, AddressValues, AddressTypes, AddressGps,
     AddressStored, Position, Request, Answers, Creation, Same, Only, NoFills
<1>11. Made("demandAddress", StepAddress, {}, {"", "long"})
  BY <1>1, <1>2, <1>8, <1>9, <1>10, UsualMade
<1>12. Sound("demandAddress") = {"mine", "book", "long", "located"}
  BY <1>10, <1>11, SoundIs
<1>13. DOMAIN StepAddress.fills = {"gps"} /\ StepAddress.fills["gps"].pressed = TRUE
  BY DEF Fill, StepAddress, AddressValues, AddressTypes, AddressGps, AddressStored, Position,
     Request, Answers, Creation, Same, Only, NoFills
<1>14. \A was \in StepAddress.values \cup {Left}, v \in StepAddress.values :
         Put(StepAddress, "gps", was, v) = {v} \cup {"located", "long"}
  BY ZenonT(40) DEF Put, Fill, StepAddress, AddressValues, AddressTypes, AddressGps, AddressStored,
     Position, Request, Answers, Creation, Same, Only, NoFills
<1>15. ASSUME NEW was \in StepAddress.values \cup {Left}, NEW v \in StepAddress.values,
         NEW x \in Put(StepAddress, "gps", was, v)
      PROVE  x = v \/ x \in {"located", "long"}
  BY <1>14
<1>16. OverwrittenIn("demandAddress") = {"located", "long"}
  BY DEF OverwrittenIn
<1>17. Filling("demandAddress", StepAddress, "gps")
  <2>1. \A was \in StepAddress.values \cup {Left}, v \in StepAddress.values :
          Put(StepAddress, "gps", was, v) \subseteq StepAddress.values
    BY <1>3, <1>15
  <2>2. \A was \in StepAddress.values : \A v \in After(StepAddress, was) :
            Put(StepAddress, "gps", was,
              v) \subseteq StepAddress.likes[v] \cup OverwrittenIn("demandAddress")
    BY <1>3, <1>5, <1>7, <1>15, <1>16
  <2>3. \A was \in StepAddress.values \cup {Left}, v \in Sound("demandAddress") :
          Put(StepAddress, "gps", was, v) \subseteq Sound("demandAddress")
    BY <1>3, <1>12, <1>15
  <2>4. ~StepAddress.edits
    BY DEF StepAddress, AddressValues, AddressTypes, AddressGps, AddressStored, Position,
     Request, Answers, Creation, Same, Only, NoFills
  <2>5. ~StepAddress.kept
    BY DEF StepAddress, AddressValues, AddressTypes, AddressGps, AddressStored, Position,
     Request, Answers, Creation, Same, Only, NoFills
  <2> QED
    BY <1>13, <2>1, <2>2, <2>3, <2>4, <2>5 DEF Filling
<1>18. Ageing("demandAddress", StepAddress)
  BY <1>1, <1>2, StillAges
<1> QED
  BY <1>11, <1>13, <1>17, <1>18, MadeFits

LEMMA DemandGovernorateFits == Fit("demandGovernorate")
<1>1. "demandGovernorate" \in DOMAIN Fields /\ Fields["demandGovernorate"] = StepGovernorate
  BY DEF Fields, PublishFields, RequestFields
<1>2. Usual(StepGovernorate) /\ StepGovernorate.ages = Same(StepGovernorate.values)
        /\ StepGovernorate.first = "linked"
  BY DEF Usual, Left, Sent, StepGovernorate, GovernorateValues, Position, Request, Answers,
     Creation, Same, Only, NoFills
<1>3. StepGovernorate.values = {"", "mine", "book", "linked", "located"}
  BY DEF StepGovernorate, GovernorateValues, Position, Request, Answers, Creation, Same, Only,
     NoFills
<1>4. /\ StepGovernorate.types[""] = {"mine", "book"}
      /\ StepGovernorate.types["mine"] = {"", "book"}
      /\ StepGovernorate.types["book"] = {"", "mine"}
      /\ StepGovernorate.types["linked"] = {"", "mine", "book"}
      /\ StepGovernorate.types["located"] = {"", "mine", "book"}
  BY DEF StepGovernorate, GovernorateValues, Position, Request, Answers, Creation, Same, Only,
     NoFills
<1>5. /\ StepGovernorate.likes[""] = {""}
      /\ StepGovernorate.likes["mine"] = {"mine"}
      /\ StepGovernorate.likes["book"] = {"book"}
      /\ StepGovernorate.likes["linked"] = {"linked"}
      /\ StepGovernorate.likes["located"] = {"located"}
  BY DEF StepGovernorate, GovernorateValues, Position, Request, Answers, Creation, Same, Only,
     NoFills
<1>6. Typed(StepGovernorate) = {"", "mine", "book"}
  BY <1>3, <1>4 DEF Typed
<1>7. /\ After(StepGovernorate, "") = {"", "mine", "book"}
      /\ After(StepGovernorate, "mine") = {"", "mine", "book"}
      /\ After(StepGovernorate, "book") = {"", "mine", "book"}
      /\ After(StepGovernorate, "linked") = {"", "mine", "book"}
      /\ After(StepGovernorate, "located") = {"", "mine", "book"}
  BY <1>4 DEF After
<1>8. Retyped(StepGovernorate)
  <2>1. \A v \in Typed(StepGovernorate) : v \in StepGovernorate.likes[v]
    BY <1>5, <1>6
  <2>2. \A v \in StepGovernorate.values :
          StepGovernorate.types[v] \subseteq StepGovernorate.values
    BY <1>3, <1>4
  <2>3. \A v \in StepGovernorate.values : \A w \in After(StepGovernorate, v) :
          StepGovernorate.types[w] \subseteq After(StepGovernorate, v)
    BY <1>3, <1>4, <1>7
  <2> QED
    BY <2>1, <2>2, <2>3 DEF Retyped
<1>9. Saves(StepGovernorate, {}, {})
  BY DEF Saves, Refusing, StepGovernorate, GovernorateValues, Position, Request, Answers,
     Creation, Same, Only, NoFills
<1>10. /\ StepGovernorate.early \subseteq Passed("demandGovernorate", StepGovernorate, {},
            {}) /\ Lost("demandGovernorate", StepGovernorate, {})
      /\ Passed("demandGovernorate", StepGovernorate, {}, {}) = {"", "mine", "book", "linked",
           "located"}
  BY DEF Passed, RefusedIn, Lost, StepGovernorate, GovernorateValues, Position, Request,
     Answers, Creation, Same, Only, NoFills
<1>11. Made("demandGovernorate", StepGovernorate, {}, {})
  BY <1>1, <1>2, <1>8, <1>9, <1>10, UsualMade
<1>12. Sound("demandGovernorate") = {"", "mine", "book", "linked", "located"}
  BY <1>10, <1>11, SoundIs
<1>13. DOMAIN StepGovernorate.fills = {"gps"} /\ StepGovernorate.fills["gps"].pressed = TRUE
  BY DEF Fill, StepGovernorate, GovernorateValues, Position, Request, Answers, Creation, Same,
     Only, NoFills
<1>14. \A was \in StepGovernorate.values \cup {Left}, v \in StepGovernorate.values :
         Put(StepGovernorate, "gps", was, v) = {v} \cup {"located"}
  BY DEF Put, Fill, StepGovernorate, GovernorateValues, Position, Request, Answers, Creation,
     Same, Only, NoFills
<1>15. ASSUME NEW was \in StepGovernorate.values \cup {Left},
         NEW v \in StepGovernorate.values, NEW x \in Put(StepGovernorate, "gps", was, v)
      PROVE  x = v \/ x = "located"
  BY <1>14
<1>16. OverwrittenIn("demandGovernorate") = {"located"}
  BY DEF OverwrittenIn
<1>17. Filling("demandGovernorate", StepGovernorate, "gps")
  <2>1. \A was \in StepGovernorate.values \cup {Left}, v \in StepGovernorate.values :
          Put(StepGovernorate, "gps", was, v) \subseteq StepGovernorate.values
    BY <1>3, <1>15
  <2>2. \A was \in StepGovernorate.values : \A v \in After(StepGovernorate, was) :
            Put(StepGovernorate, "gps", was,
              v) \subseteq StepGovernorate.likes[v] \cup OverwrittenIn("demandGovernorate")
    BY <1>3, <1>5, <1>7, <1>15, <1>16, ZenonT(40)
  <2>3. \A was \in StepGovernorate.values \cup {Left}, v \in Sound("demandGovernorate") :
          Put(StepGovernorate, "gps", was, v) \subseteq Sound("demandGovernorate")
    BY <1>3, <1>12, <1>15
  <2>4. ~StepGovernorate.edits
    BY DEF StepGovernorate, GovernorateValues, Position, Request, Answers, Creation, Same,
     Only, NoFills
  <2>5. ~StepGovernorate.kept
    BY DEF StepGovernorate, GovernorateValues, Position, Request, Answers, Creation, Same,
     Only, NoFills
  <2> QED
    BY <1>13, <2>1, <2>2, <2>3, <2>4, <2>5 DEF Filling
<1>18. Ageing("demandGovernorate", StepGovernorate)
  BY <1>1, <1>2, StillAges
<1> QED
  BY <1>11, <1>13, <1>17, <1>18, MadeFits

LEMMA DemandPhotosFits == Fit("demandPhotos")
<1>1. "demandPhotos" \in DOMAIN Fields /\ Fields["demandPhotos"] = StepPhotos
  BY DEF Fields, PublishFields, RequestFields
<1>2. Usual(StepPhotos) /\ StepPhotos.ages = Same(StepPhotos.values) /\ StepPhotos.first = "old"
  BY DEF Usual, Left, Sent, StepPhotos, PhotoValues, handleFiles, removePhoto, photosChosen,
     Request, Answers, Creation, Same, Only, NoFills
<1>3. StepPhotos.values = {"", "old", "new", "old and new"}
  BY DEF StepPhotos, PhotoValues, handleFiles, removePhoto, photosChosen, Request, Answers,
     Creation, Same, Only, NoFills
<1>4. /\ StepPhotos.types[""] = {}
      /\ StepPhotos.types["old"] = {""}
      /\ StepPhotos.types["new"] = {""}
      /\ StepPhotos.types["old and new"] = {"old", "new"}
  BY DEF StepPhotos, PhotoValues, handleFiles, removePhoto, photosChosen, Request, Answers,
     Creation, Same, Only, NoFills
<1>5. /\ StepPhotos.likes[""] = {"", "new"}
      /\ StepPhotos.likes["old"] = {"old", "old and new"}
      /\ StepPhotos.likes["new"] = {"new"}
      /\ StepPhotos.likes["old and new"] = {"old and new"}
  BY DEF StepPhotos, PhotoValues, handleFiles, removePhoto, photosChosen, Request, Answers,
     Creation, Same, Only, NoFills
<1>6. Typed(StepPhotos) = {"", "old", "new"}
  BY <1>3, <1>4 DEF Typed
<1>7. /\ After(StepPhotos, "") = {}
      /\ After(StepPhotos, "old") = {""}
      /\ After(StepPhotos, "new") = {""}
      /\ After(StepPhotos, "old and new") = {"", "old", "new"}
  BY <1>4, ZenonT(40) DEF After
<1>8. Retyped(StepPhotos)
  <2>1. \A v \in Typed(StepPhotos) : v \in StepPhotos.likes[v]
    BY <1>5, <1>6
  <2>2. \A v \in StepPhotos.values : StepPhotos.types[v] \subseteq StepPhotos.values
    BY <1>3, <1>4
  <2>3. \A v \in StepPhotos.values : \A w \in After(StepPhotos, v) :
          StepPhotos.types[w] \subseteq After(StepPhotos, v)
    BY <1>3, <1>4, <1>7
  <2> QED
    BY <2>1, <2>2, <2>3 DEF Retyped
<1>9. Saves(StepPhotos, {}, {})
  BY DEF Saves, Refusing, StepPhotos, PhotoValues, handleFiles, removePhoto, photosChosen,
     Request, Answers, Creation, Same, Only, NoFills
<1>10. /\ StepPhotos.early \subseteq Passed("demandPhotos", StepPhotos, {}, {})
            /\ Lost("demandPhotos", StepPhotos, {})
      /\ Passed("demandPhotos", StepPhotos, {}, {}) = {"", "old", "new", "old and new"}
  BY DEF Passed, RefusedIn, Lost, StepPhotos, PhotoValues, handleFiles, removePhoto,
     photosChosen, Request, Answers, Creation, Same, Only, NoFills
<1>11. Made("demandPhotos", StepPhotos, {}, {})
  BY <1>1, <1>2, <1>8, <1>9, <1>10, UsualMade
<1>12. Sound("demandPhotos") = {"", "old", "new", "old and new"}
  BY <1>10, <1>11, SoundIs
<1>13. DOMAIN StepPhotos.fills = {"upload"} /\ StepPhotos.fills["upload"].pressed = TRUE
  BY DEF Fill, StepPhotos, PhotoValues, handleFiles, removePhoto, photosChosen, Request,
     Answers, Creation, Same, Only, NoFills
<1>14. \A was \in StepPhotos.values \cup {Left}, v \in StepPhotos.values :
         Put(StepPhotos, "upload", was, v) = IF was \in {"old",
           "old and new"} THEN {"old and new"} ELSE {"new"}
  BY DEF Put, Fill, StepPhotos, PhotoValues, handleFiles, removePhoto, photosChosen, Request,
     Answers, Creation, Same, Only, NoFills
<1>15. ASSUME NEW was \in StepPhotos.values \cup {Left}, NEW v \in StepPhotos.values,
         NEW x \in Put(StepPhotos, "upload", was, v)
      PROVE  x = IF was \in {"old", "old and new"} THEN "old and new" ELSE "new"
  BY <1>14
<1>16. OverwrittenIn("demandPhotos") = {"old and new"}
  BY DEF OverwrittenIn
<1>17. Filling("demandPhotos", StepPhotos, "upload")
  <2>1. \A was \in StepPhotos.values \cup {Left}, v \in StepPhotos.values :
          Put(StepPhotos, "upload", was, v) \subseteq StepPhotos.values
    BY <1>3, <1>15
  <2>2. \A was \in StepPhotos.values : \A v \in After(StepPhotos, was) :
            Put(StepPhotos, "upload", was,
              v) \subseteq StepPhotos.likes[v] \cup OverwrittenIn("demandPhotos")
    BY <1>3, <1>5, <1>7, <1>15, <1>16
  <2>3. \A was \in StepPhotos.values \cup {Left}, v \in Sound("demandPhotos") :
          Put(StepPhotos, "upload", was, v) \subseteq Sound("demandPhotos")
    BY <1>3, <1>12, <1>15
  <2>4. ~StepPhotos.edits
    BY DEF StepPhotos, PhotoValues, handleFiles, removePhoto, photosChosen, Request, Answers,
     Creation, Same, Only, NoFills
  <2>5. ~StepPhotos.kept
    BY DEF StepPhotos, PhotoValues, handleFiles, removePhoto, photosChosen, Request, Answers,
     Creation, Same, Only, NoFills
  <2> QED
    BY <1>13, <2>1, <2>2, <2>3, <2>4, <2>5 DEF Filling
<1>18. Ageing("demandPhotos", StepPhotos)
  BY <1>1, <1>2, StillAges
<1> QED
  BY <1>11, <1>13, <1>17, <1>18, MadeFits

LEMMA DemandBudgetFits == Fit("demandBudget")
<1>1. "demandBudget" \in DOMAIN Fields /\ Fields["demandBudget"] = StepBudget
  BY DEF Fields, PublishFields, RequestFields
<1>2. Usual(StepBudget) /\ StepBudget.ages = Same(StepBudget.values) /\ StepBudget.first = ""
  BY DEF Usual, Left, Sent, StepBudget, BudgetValues, fetchEstimate, IfWasEmpty, BudgetSent,
     Request, Answers, Creation, Same, Only, NoFills
<1>3. StepBudget.values = {"", "mine", "wrong", "estimate"}
  BY DEF StepBudget, BudgetValues, fetchEstimate, IfWasEmpty, BudgetSent, Request, Answers,
     Creation, Same, Only, NoFills
<1>4. /\ StepBudget.types[""] = {"mine", "wrong"}
      /\ StepBudget.types["mine"] = {"", "wrong"}
      /\ StepBudget.types["wrong"] = {"", "mine"}
      /\ StepBudget.types["estimate"] = {"", "mine", "wrong"}
  BY DEF StepBudget, BudgetValues, fetchEstimate, IfWasEmpty, BudgetSent, Request, Answers,
     Creation, Same, Only, NoFills
<1>5. /\ StepBudget.likes[""] = {""}
      /\ StepBudget.likes["mine"] = {"mine"}
      /\ StepBudget.likes["wrong"] = {"wrong"}
      /\ StepBudget.likes["estimate"] = {"estimate"}
  BY DEF StepBudget, BudgetValues, fetchEstimate, IfWasEmpty, BudgetSent, Request, Answers,
     Creation, Same, Only, NoFills
<1>6. Typed(StepBudget) = {"", "mine", "wrong"}
  BY <1>3, <1>4 DEF Typed
<1>7. /\ After(StepBudget, "") = {"", "mine", "wrong"}
      /\ After(StepBudget, "mine") = {"", "mine", "wrong"}
      /\ After(StepBudget, "wrong") = {"", "mine", "wrong"}
      /\ After(StepBudget, "estimate") = {"", "mine", "wrong"}
  BY <1>4 DEF After
<1>8. Retyped(StepBudget)
  <2>1. \A v \in Typed(StepBudget) : v \in StepBudget.likes[v]
    BY <1>5, <1>6
  <2>2. \A v \in StepBudget.values : StepBudget.types[v] \subseteq StepBudget.values
    BY <1>3, <1>4
  <2>3. \A v \in StepBudget.values : \A w \in After(StepBudget, v) :
          StepBudget.types[w] \subseteq After(StepBudget, v)
    BY <1>3, <1>4, <1>7
  <2> QED
    BY <2>1, <2>2, <2>3 DEF Retyped
<1>9. Saves(StepBudget, {""}, {})
  BY DEF Saves, Refusing, StepBudget, BudgetValues, fetchEstimate, IfWasEmpty, BudgetSent,
     Request, Answers, Creation, Same, Only, NoFills
<1>10. /\ StepBudget.early \subseteq Passed("demandBudget", StepBudget, {""}, {})
            /\ Lost("demandBudget", StepBudget, {""})
      /\ Passed("demandBudget", StepBudget, {""}, {}) = {"", "mine", "wrong", "estimate"}
  BY DEF Passed, RefusedIn, Lost, StepBudget, BudgetValues, fetchEstimate, IfWasEmpty,
     BudgetSent, Request, Answers, Creation, Same, Only, NoFills
<1>11. Made("demandBudget", StepBudget, {""}, {})
  BY <1>1, <1>2, <1>8, <1>9, <1>10, UsualMade
<1>12. Sound("demandBudget") = {"", "mine", "wrong", "estimate"}
  BY <1>10, <1>11, SoundIs
<1>13. DOMAIN StepBudget.fills = {"estimate"} /\ StepBudget.fills["estimate"].pressed = FALSE
  BY DEF Fill, StepBudget, BudgetValues, fetchEstimate, IfWasEmpty, BudgetSent, Request,
     Answers, Creation, Same, Only, NoFills
<1>14. \A was \in StepBudget.values \cup {Left}, v \in StepBudget.values :
          (was = "" => Put(StepBudget, "estimate", was, v) = {"estimate"}) /\ (was # "" =>
            Put(StepBudget, "estimate", was, v) = {v})
  BY DEF Put, Fill, StepBudget, BudgetValues, fetchEstimate, IfWasEmpty, BudgetSent, Request,
     Answers, Creation, Same, Only, NoFills
<1>15. ASSUME NEW was \in StepBudget.values \cup {Left}, NEW v \in StepBudget.values,
         NEW x \in Put(StepBudget, "estimate", was, v)
      PROVE  (was = "" => x = "estimate") /\ (was # "" => x = v)
  <2>1. CASE was = ""
    <3>1. Put(StepBudget, "estimate", was, v) = {"estimate"}
      BY <1>14, <2>1
    <3> QED
      BY <2>1, <3>1
  <2>2. CASE was # ""
    <3>1. Put(StepBudget, "estimate", was, v) = {v}
      BY <1>14, <2>2
    <3> QED
      BY <2>2, <3>1
  <2> QED
    BY <2>1, <2>2
<1>16. OverwrittenIn("demandBudget") = {"estimate"}
  BY DEF OverwrittenIn
<1>17. OfferedBy(StepBudget) = {"", "estimate"}
  <2>1. Filled(StepBudget) = {"", "estimate"}
    <3>1. ByPage(StepBudget) = {"estimate"}
      BY <1>13 DEF ByPage
    <3>2. \A x : x \in Filled(StepBudget) <=>
                    \E was \in StepBudget.values, now \in {StepBudget.first, ""} :
                      x \in Put(StepBudget, "estimate", was, now)
      BY <3>1, FilledByOne
    <3>3. \A x \in Filled(StepBudget) : x \in {"", "estimate"}
      BY <1>2, <1>3, <1>15, <3>2
    <3>4. /\ "" \in Filled(StepBudget)
          /\ "estimate" \in Filled(StepBudget)
      <4>1. Put(StepBudget, "estimate", "mine", "") = {""}
        <5>1. ASSUME NEW w \in StepBudget.values, w # ""
              PROVE  Put(StepBudget, "estimate", w, "") = {""}
          BY <1>3, <1>14, <5>1
        <5> QED
          BY <1>3, <5>1
      <4>2. Put(StepBudget, "estimate", "", "") = {"estimate"}
        BY <1>3, <1>14
      <4> QED
        BY <1>2, <1>3, <3>2, <4>1, <4>2
    <3> QED
      BY <3>3, <3>4
  <2>2. StepBudget.first \in DOMAIN StepBudget.ages
          /\ StepBudget.ages[StepBudget.first] = StepBudget.first
    BY <1>2, <1>3 DEF Same
  <2>3. Times(StepBudget) = {""}
    BY <1>2, <2>2 DEF Times
  <2> QED
    BY <2>1, <2>2, <2>3, OfferedIs
<1>18. Filling("demandBudget", StepBudget, "estimate")
  <2>1. \A was \in StepBudget.values \cup {Left}, v \in StepBudget.values :
          Put(StepBudget, "estimate", was, v) \subseteq StepBudget.values
    BY <1>3, <1>15
  <2>2. \A was \in StepBudget.values, h \in Typed(StepBudget) :
            \A v \in StepBudget.values
                    \cap (StepBudget.likes[h] \cup OverwrittenIn("demandBudget")) :
                Put(StepBudget, "estimate", was,
                  v) \subseteq StepBudget.likes[h] \cup OverwrittenIn("demandBudget")
    BY <1>3, <1>5, <1>6, <1>15, <1>16
  <2>3. \A was \in StepBudget.values \cup {Left}, v \in Sound("demandBudget") :
          Put(StepBudget, "estimate", was, v) \subseteq Sound("demandBudget")
    BY <1>3, <1>12, <1>15
  <2>4. ~StepBudget.edits
    BY DEF StepBudget, BudgetValues, fetchEstimate, IfWasEmpty, BudgetSent, Request, Answers,
     Creation, Same, Only, NoFills
  <2>5. ~StepBudget.kept
    BY DEF StepBudget, BudgetValues, fetchEstimate, IfWasEmpty, BudgetSent, Request, Answers,
     Creation, Same, Only, NoFills
  <2>6. \A was \in StepBudget.values, v \in OfferedBy(StepBudget) \cap StepBudget.values :
          Put(StepBudget, "estimate", was, v) \subseteq OfferedBy(StepBudget)
    BY <1>3, <1>15, <1>17
  <2> QED
    BY <1>13, <2>1, <2>2, <2>3, <2>4, <2>5, <2>6 DEF Filling
<1>19. Ageing("demandBudget", StepBudget)
  BY <1>1, <1>2, StillAges
<1> QED
  BY <1>11, <1>13, <1>18, <1>19, MadeFits

LEMMA TripVehicleFits == Fit("tripVehicle")
<1>1. "tripVehicle" \in DOMAIN Fields /\ Fields["tripVehicle"] = TripVehicle
  BY DEF Fields, PublishFields, RequestFields, TripFields
<1>2. Usual(TripVehicle) /\ TripVehicle.ages = Same(TripVehicle.values)
        /\ TripVehicle.first = ""
  BY DEF Usual, Left, Sent, TripVehicle, VehicleValues, vehiclePrefill, IfEmpty,
     typeFromLabel, VehicleLabels, Trip, Answers, Creation, Same, Only, NoFills
<1>3. TripVehicle.values = {"", "camion", "camionnette"}
  BY DEF TripVehicle, VehicleValues, vehiclePrefill, IfEmpty, typeFromLabel, VehicleLabels,
     Trip, Answers, Creation, Same, Only, NoFills
<1>4. /\ TripVehicle.types[""] = {"camion", "camionnette"}
      /\ TripVehicle.types["camion"] = {"camionnette"}
      /\ TripVehicle.types["camionnette"] = {"camion"}
  BY DEF TripVehicle, VehicleValues, vehiclePrefill, IfEmpty, typeFromLabel, VehicleLabels,
     Trip, Answers, Creation, Same, Only, NoFills
<1>5. /\ TripVehicle.likes[""] = {""}
      /\ TripVehicle.likes["camion"] = {"camion"}
      /\ TripVehicle.likes["camionnette"] = {"camionnette"}
  BY DEF TripVehicle, VehicleValues, vehiclePrefill, IfEmpty, typeFromLabel, VehicleLabels,
     Trip, Answers, Creation, Same, Only, NoFills
<1>6. Typed(TripVehicle) = {"camion", "camionnette"}
  BY <1>3, <1>4 DEF Typed
<1>7. /\ After(TripVehicle, "") = {"camion", "camionnette"}
      /\ After(TripVehicle, "camion") = {"camion", "camionnette"}
      /\ After(TripVehicle, "camionnette") = {"camion", "camionnette"}
  BY <1>4 DEF After
<1>8. Retyped(TripVehicle)
  <2>1. \A v \in Typed(TripVehicle) : v \in TripVehicle.likes[v]
    BY <1>5, <1>6
  <2>2. \A v \in TripVehicle.values : TripVehicle.types[v] \subseteq TripVehicle.values
    BY <1>3, <1>4
  <2>3. \A v \in TripVehicle.values : \A w \in After(TripVehicle, v) :
          TripVehicle.types[w] \subseteq After(TripVehicle, v)
    BY <1>3, <1>4, <1>7
  <2> QED
    BY <2>1, <2>2, <2>3 DEF Retyped
<1>9. Saves(TripVehicle, {}, {})
  BY DEF Saves, Refusing, TripVehicle, VehicleValues, vehiclePrefill, IfEmpty, typeFromLabel,
     VehicleLabels, Trip, Answers, Creation, Same, Only, NoFills
<1>10. /\ TripVehicle.early \subseteq Passed("tripVehicle", TripVehicle, {}, {})
            /\ Lost("tripVehicle", TripVehicle, {})
      /\ Passed("tripVehicle", TripVehicle, {}, {}) = {"", "camion", "camionnette"}
  BY DEF Passed, RefusedIn, Lost, TripVehicle, VehicleValues, vehiclePrefill, IfEmpty,
     typeFromLabel, VehicleLabels, Trip, Answers, Creation, Same, Only, NoFills
<1>11. Made("tripVehicle", TripVehicle, {}, {})
  BY <1>1, <1>2, <1>8, <1>9, <1>10, UsualMade
<1>12. Sound("tripVehicle") = {"", "camion", "camionnette"}
  BY <1>10, <1>11, SoundIs
<1>13. DOMAIN TripVehicle.fills = {"profile"} /\ TripVehicle.fills["profile"].pressed = FALSE
  BY DEF Fill, TripVehicle, VehicleValues, vehiclePrefill, IfEmpty, typeFromLabel,
     VehicleLabels, Trip, Answers, Creation, Same, Only, NoFills
<1>14. \A was \in TripVehicle.values \cup {Left}, v \in TripVehicle.values :
          (v = "" => Put(TripVehicle, "profile", was, v) = {"", "camion"}) /\ (v # "" =>
            Put(TripVehicle, "profile", was, v) = {v})
  <2>1. {typeFromLabel[p] : p \in VehicleLabels} = {"", "camion"}
    BY DEF typeFromLabel, VehicleLabels
  <2> QED
    BY <2>1 DEF Put, Fill, TripVehicle, VehicleValues, vehiclePrefill, IfEmpty, Trip, Answers,
     Creation, Same, Only, NoFills
<1>15. ASSUME NEW was \in TripVehicle.values \cup {Left}, NEW v \in TripVehicle.values,
         NEW x \in Put(TripVehicle, "profile", was, v)
      PROVE  (v = "" => x \in {"", "camion"}) /\ (v # "" => x = v)
  <2>1. CASE v = ""
    <3>1. Put(TripVehicle, "profile", was, v) = {"", "camion"}
      BY <1>14, <2>1
    <3> QED
      BY <2>1, <3>1
  <2>2. CASE v # ""
    <3>1. Put(TripVehicle, "profile", was, v) = {v}
      BY <1>14, <2>2
    <3> QED
      BY <2>2, <3>1
  <2> QED
    BY <2>1, <2>2
<1>16. OverwrittenIn("tripVehicle") = {}
  BY DEF OverwrittenIn
<1>17. OfferedBy(TripVehicle) = {"", "camion"}
  <2>1. Filled(TripVehicle) = {"", "camion"}
    <3>1. ByPage(TripVehicle) = {"profile"}
      BY <1>13 DEF ByPage
    <3>2. \A x : x \in Filled(TripVehicle) <=>
                    \E was \in TripVehicle.values, now \in {TripVehicle.first, ""} :
                      x \in Put(TripVehicle, "profile", was, now)
      BY <3>1, FilledByOne
    <3>3. \A x \in Filled(TripVehicle) : x \in {"", "camion"}
      BY <1>2, <1>3, <1>15, <3>2
    <3>4. /\ "" \in Filled(TripVehicle)
          /\ "camion" \in Filled(TripVehicle)
      <4>1. Put(TripVehicle, "profile", "", "") = {"", "camion"}
        BY <1>3, <1>14
      <4>2. Put(TripVehicle, "profile", "", "") = {"", "camion"}
        BY <1>3, <1>14
      <4> QED
        BY <1>2, <1>3, <3>2, <4>1, <4>2
    <3> QED
      BY <3>3, <3>4
  <2>2. TripVehicle.first \in DOMAIN TripVehicle.ages
          /\ TripVehicle.ages[TripVehicle.first] = TripVehicle.first
    BY <1>2, <1>3 DEF Same
  <2>3. Times(TripVehicle) = {""}
    BY <1>2, <2>2 DEF Times
  <2> QED
    BY <2>1, <2>2, <2>3, OfferedIs
<1>18. Filling("tripVehicle", TripVehicle, "profile")
  <2>1. \A was \in TripVehicle.values \cup {Left}, v \in TripVehicle.values :
          Put(TripVehicle, "profile", was, v) \subseteq TripVehicle.values
    BY <1>3, <1>15
  <2>2. \A was \in TripVehicle.values, h \in Typed(TripVehicle) :
            \A v \in TripVehicle.values
                    \cap (TripVehicle.likes[h] \cup OverwrittenIn("tripVehicle")) :
                Put(TripVehicle, "profile", was,
                  v) \subseteq TripVehicle.likes[h] \cup OverwrittenIn("tripVehicle")
    BY <1>3, <1>5, <1>6, <1>15, <1>16
  <2>3. \A was \in TripVehicle.values \cup {Left}, v \in Sound("tripVehicle") :
          Put(TripVehicle, "profile", was, v) \subseteq Sound("tripVehicle")
    BY <1>3, <1>12, <1>15
  <2>4. ~TripVehicle.edits
    BY DEF TripVehicle, VehicleValues, vehiclePrefill, IfEmpty, typeFromLabel, VehicleLabels,
     Trip, Answers, Creation, Same, Only, NoFills
  <2>5. ~TripVehicle.kept
    BY DEF TripVehicle, VehicleValues, vehiclePrefill, IfEmpty, typeFromLabel, VehicleLabels,
     Trip, Answers, Creation, Same, Only, NoFills
  <2>6. \A was \in TripVehicle.values, v \in OfferedBy(TripVehicle) \cap TripVehicle.values :
          Put(TripVehicle, "profile", was, v) \subseteq OfferedBy(TripVehicle)
    BY <1>3, <1>15, <1>17
  <2> QED
    BY <1>13, <2>1, <2>2, <2>3, <2>4, <2>5, <2>6 DEF Filling
<1>19. Ageing("tripVehicle", TripVehicle)
  BY <1>1, <1>2, StillAges
<1> QED
  BY <1>11, <1>13, <1>18, <1>19, MadeFits

LEMMA TripCapacityFits == Fit("tripCapacity")
<1>1. "tripCapacity" \in DOMAIN Fields /\ Fields["tripCapacity"] = TripCapacity
  BY DEF Fields, PublishFields, RequestFields, TripFields
<1>2. Usual(TripCapacity) /\ TripCapacity.ages = Same(TripCapacity.values)
        /\ TripCapacity.first = ""
  BY DEF Usual, Left, Sent, TripCapacity, CapacityValues, capaciteLibre, CapacitySent,
     IfEmpty, Answers, Creation, Same, Only, NoFills
<1>3. TripCapacity.values = {"", "profile", "tout", "moitie", "by hand"}
  BY DEF TripCapacity, CapacityValues, capaciteLibre, CapacitySent, IfEmpty, Answers,
     Creation, Same, Only, NoFills
<1>4. /\ TripCapacity.types[""] = {"tout", "moitie", "by hand"}
      /\ TripCapacity.types["profile"] = {"", "tout", "moitie", "by hand"}
      /\ TripCapacity.types["tout"] = {"", "moitie", "by hand"}
      /\ TripCapacity.types["moitie"] = {"", "tout", "by hand"}
      /\ TripCapacity.types["by hand"] = {"", "tout", "moitie"}
  BY DEF TripCapacity, CapacityValues, capaciteLibre, CapacitySent, IfEmpty, Answers,
     Creation, Same, Only, NoFills
<1>5. /\ TripCapacity.likes[""] = {"", "profile"}
      /\ TripCapacity.likes["profile"] = {"profile"}
      /\ TripCapacity.likes["tout"] = {"tout"}
      /\ TripCapacity.likes["moitie"] = {"moitie"}
      /\ TripCapacity.likes["by hand"] = {"by hand"}
  BY DEF TripCapacity, CapacityValues, capaciteLibre, CapacitySent, IfEmpty, Answers,
     Creation, Same, Only, NoFills
<1>6. Typed(TripCapacity) = {"", "tout", "moitie", "by hand"}
  BY <1>3, <1>4, ZenonT(40) DEF Typed
<1>7. /\ After(TripCapacity, "") = {"", "tout", "moitie", "by hand"}
      /\ After(TripCapacity, "profile") = {"", "tout", "moitie", "by hand"}
      /\ After(TripCapacity, "tout") = {"", "tout", "moitie", "by hand"}
      /\ After(TripCapacity, "moitie") = {"", "tout", "moitie", "by hand"}
      /\ After(TripCapacity, "by hand") = {"", "tout", "moitie", "by hand"}
  BY <1>4, ZenonT(40) DEF After
<1>8. Retyped(TripCapacity)
  <2>1. \A v \in Typed(TripCapacity) : v \in TripCapacity.likes[v]
    BY <1>5, <1>6
  <2>2. \A v \in TripCapacity.values : TripCapacity.types[v] \subseteq TripCapacity.values
    BY <1>3, <1>4
  <2>3. \A v \in TripCapacity.values : \A w \in After(TripCapacity, v) :
          TripCapacity.types[w] \subseteq After(TripCapacity, v)
    BY <1>3, <1>4, <1>7
  <2> QED
    BY <2>1, <2>2, <2>3 DEF Retyped
<1>9. Saves(TripCapacity, {""}, {})
  BY DEF Saves, Refusing, TripCapacity, CapacityValues, capaciteLibre, CapacitySent, IfEmpty,
     Answers, Creation, Same, Only, NoFills
<1>10. /\ TripCapacity.early \subseteq Passed("tripCapacity", TripCapacity, {""}, {})
            /\ Lost("tripCapacity", TripCapacity, {""})
      /\ Passed("tripCapacity", TripCapacity, {""}, {}) = {"", "profile", "tout", "moitie",
           "by hand"}
  BY DEF Passed, RefusedIn, Lost, TripCapacity, CapacityValues, capaciteLibre, CapacitySent,
     IfEmpty, Answers, Creation, Same, Only, NoFills
<1>11. Made("tripCapacity", TripCapacity, {""}, {})
  BY <1>1, <1>2, <1>8, <1>9, <1>10, UsualMade
<1>12. Sound("tripCapacity") = {"", "profile", "tout", "moitie", "by hand"}
  BY <1>10, <1>11, SoundIs
<1>13. DOMAIN TripCapacity.fills = {"profile"} /\ TripCapacity.fills["profile"].pressed = FALSE
  BY DEF Fill, TripCapacity, CapacityValues, capaciteLibre, CapacitySent, IfEmpty, Answers,
     Creation, Same, Only, NoFills
<1>14. \A was \in TripCapacity.values \cup {Left}, v \in TripCapacity.values :
          (v = "" => Put(TripCapacity, "profile", was, v) = {"", "profile"}) /\ (v # "" =>
            Put(TripCapacity, "profile", was, v) = {v})
  BY ZenonT(40) DEF Put, Fill, TripCapacity, CapacityValues, capaciteLibre, CapacitySent, IfEmpty,
     Answers, Creation, Same, Only, NoFills
<1>15. ASSUME NEW was \in TripCapacity.values \cup {Left}, NEW v \in TripCapacity.values,
         NEW x \in Put(TripCapacity, "profile", was, v)
      PROVE  (v = "" => x \in {"", "profile"}) /\ (v # "" => x = v)
  <2>1. CASE v = ""
    <3>1. Put(TripCapacity, "profile", was, v) = {"", "profile"}
      BY <1>14, <2>1
    <3> QED
      BY <2>1, <3>1
  <2>2. CASE v # ""
    <3>1. Put(TripCapacity, "profile", was, v) = {v}
      BY <1>14, <2>2
    <3> QED
      BY <2>2, <3>1
  <2> QED
    BY <2>1, <2>2
<1>16. OverwrittenIn("tripCapacity") = {}
  BY DEF OverwrittenIn
<1>17. OfferedBy(TripCapacity) = {"", "profile"}
  <2>1. Filled(TripCapacity) = {"", "profile"}
    <3>1. ByPage(TripCapacity) = {"profile"}
      BY <1>13 DEF ByPage
    <3>2. \A x : x \in Filled(TripCapacity) <=>
                    \E was \in TripCapacity.values, now \in {TripCapacity.first, ""} :
                      x \in Put(TripCapacity, "profile", was, now)
      BY <3>1, FilledByOne
    <3>3. \A x \in Filled(TripCapacity) : x \in {"", "profile"}
      BY <1>2, <1>3, <1>15, <3>2
    <3>4. /\ "" \in Filled(TripCapacity)
          /\ "profile" \in Filled(TripCapacity)
      <4>1. Put(TripCapacity, "profile", "", "") = {"", "profile"}
        BY <1>3, <1>14
      <4>2. Put(TripCapacity, "profile", "", "") = {"", "profile"}
        BY <1>3, <1>14
      <4> QED
        BY <1>2, <1>3, <3>2, <4>1, <4>2
    <3> QED
      BY <3>3, <3>4
  <2>2. TripCapacity.first \in DOMAIN TripCapacity.ages
          /\ TripCapacity.ages[TripCapacity.first] = TripCapacity.first
    BY <1>2, <1>3 DEF Same
  <2>3. Times(TripCapacity) = {""}
    BY <1>2, <2>2 DEF Times
  <2> QED
    BY <2>1, <2>2, <2>3, OfferedIs
<1>18. Filling("tripCapacity", TripCapacity, "profile")
  <2>1. \A was \in TripCapacity.values \cup {Left}, v \in TripCapacity.values :
          Put(TripCapacity, "profile", was, v) \subseteq TripCapacity.values
    BY <1>3, <1>15
  <2>2. \A was \in TripCapacity.values, h \in Typed(TripCapacity) :
            \A v \in TripCapacity.values
                    \cap (TripCapacity.likes[h] \cup OverwrittenIn("tripCapacity")) :
                Put(TripCapacity, "profile", was,
                  v) \subseteq TripCapacity.likes[h] \cup OverwrittenIn("tripCapacity")
    BY <1>3, <1>5, <1>6, <1>15, <1>16
  <2>3. \A was \in TripCapacity.values \cup {Left}, v \in Sound("tripCapacity") :
          Put(TripCapacity, "profile", was, v) \subseteq Sound("tripCapacity")
    BY <1>3, <1>12, <1>15
  <2>4. ~TripCapacity.edits
    BY DEF TripCapacity, CapacityValues, capaciteLibre, CapacitySent, IfEmpty, Answers,
     Creation, Same, Only, NoFills
  <2>5. ~TripCapacity.kept
    BY DEF TripCapacity, CapacityValues, capaciteLibre, CapacitySent, IfEmpty, Answers,
     Creation, Same, Only, NoFills
  <2>6. \A was \in TripCapacity.values,
          v \in OfferedBy(TripCapacity) \cap TripCapacity.values :
            Put(TripCapacity, "profile", was, v) \subseteq OfferedBy(TripCapacity)
    BY <1>3, <1>15, <1>17
  <2> QED
    BY <1>13, <2>1, <2>2, <2>3, <2>4, <2>5, <2>6 DEF Filling
<1>19. Ageing("tripCapacity", TripCapacity)
  BY <1>1, <1>2, StillAges
<1> QED
  BY <1>11, <1>13, <1>18, <1>19, MadeFits

LEMMA PhonePriceFits == Fit("phonePrice")
<1>1. "phonePrice" \in DOMAIN Fields /\ Fields["phonePrice"] = PhonePrice
  BY DEF Fields, PublishFields, RequestFields, TripFields, PhoneTripFields
<1>2. Usual(PhonePrice) /\ PhonePrice.ages = Same(PhonePrice.values) /\ PhonePrice.first = ""
  BY DEF Usual, Left, Sent, PhonePrice, publishSchema, PriceValues, onEstimate, Overwrites,
     Answers, Creation, Same, Only, NoFills
<1>3. PhonePrice.values = {"", "mine", "wrong", "estimate"}
  BY DEF PhonePrice, publishSchema, PriceValues, onEstimate, Overwrites, Answers, Creation,
     Same, Only, NoFills
<1>4. /\ PhonePrice.types[""] = {"mine", "wrong"}
      /\ PhonePrice.types["mine"] = {"", "wrong"}
      /\ PhonePrice.types["wrong"] = {"", "mine"}
      /\ PhonePrice.types["estimate"] = {"", "mine", "wrong"}
  BY DEF PhonePrice, publishSchema, PriceValues, onEstimate, Overwrites, Answers, Creation,
     Same, Only, NoFills
<1>5. /\ PhonePrice.likes[""] = {""}
      /\ PhonePrice.likes["mine"] = {"mine"}
      /\ PhonePrice.likes["wrong"] = {"wrong"}
      /\ PhonePrice.likes["estimate"] = {"estimate"}
  BY DEF PhonePrice, publishSchema, PriceValues, onEstimate, Overwrites, Answers, Creation,
     Same, Only, NoFills
<1>6. Typed(PhonePrice) = {"", "mine", "wrong"}
  BY <1>3, <1>4 DEF Typed
<1>7. /\ After(PhonePrice, "") = {"", "mine", "wrong"}
      /\ After(PhonePrice, "mine") = {"", "mine", "wrong"}
      /\ After(PhonePrice, "wrong") = {"", "mine", "wrong"}
      /\ After(PhonePrice, "estimate") = {"", "mine", "wrong"}
  BY <1>4 DEF After
<1>8. Retyped(PhonePrice)
  <2>1. \A v \in Typed(PhonePrice) : v \in PhonePrice.likes[v]
    BY <1>5, <1>6
  <2>2. \A v \in PhonePrice.values : PhonePrice.types[v] \subseteq PhonePrice.values
    BY <1>3, <1>4
  <2>3. \A v \in PhonePrice.values : \A w \in After(PhonePrice, v) :
          PhonePrice.types[w] \subseteq After(PhonePrice, v)
    BY <1>3, <1>4, <1>7
  <2> QED
    BY <2>1, <2>2, <2>3 DEF Retyped
<1>9. Saves(PhonePrice, {}, {})
  BY DEF Saves, Refusing, PhonePrice, publishSchema, PriceValues, onEstimate, Overwrites,
     Answers, Creation, Same, Only, NoFills
<1>10. /\ PhonePrice.early \subseteq Passed("phonePrice", PhonePrice, {}, {})
            /\ Lost("phonePrice", PhonePrice, {})
      /\ Passed("phonePrice", PhonePrice, {}, {}) = {"", "mine", "wrong", "estimate"}
  BY DEF Passed, RefusedIn, Lost, PhonePrice, publishSchema, PriceValues, onEstimate,
     Overwrites, Answers, Creation, Same, Only, NoFills
<1>11. Made("phonePrice", PhonePrice, {}, {})
  BY <1>1, <1>2, <1>8, <1>9, <1>10, UsualMade
<1>12. Sound("phonePrice") = {"", "mine", "wrong", "estimate"}
  BY <1>10, <1>11, SoundIs
<1>13. DOMAIN PhonePrice.fills = {"estimate"} /\ PhonePrice.fills["estimate"].pressed = TRUE
  BY DEF Fill, PhonePrice, publishSchema, PriceValues, onEstimate, Overwrites, Answers,
     Creation, Same, Only, NoFills
<1>14. \A was \in PhonePrice.values \cup {Left}, v \in PhonePrice.values :
         Put(PhonePrice, "estimate", was, v) = {"estimate"}
  BY DEF Put, Fill, PhonePrice, publishSchema, PriceValues, onEstimate, Overwrites, Answers,
     Creation, Same, Only, NoFills
<1>15. ASSUME NEW was \in PhonePrice.values \cup {Left}, NEW v \in PhonePrice.values,
         NEW x \in Put(PhonePrice, "estimate", was, v)
      PROVE  x = "estimate"
  BY <1>14
<1>16. OverwrittenIn("phonePrice") = {"estimate"}
  BY DEF OverwrittenIn
<1>17. Filling("phonePrice", PhonePrice, "estimate")
  <2>1. \A was \in PhonePrice.values \cup {Left}, v \in PhonePrice.values :
          Put(PhonePrice, "estimate", was, v) \subseteq PhonePrice.values
    BY <1>3, <1>15
  <2>2. \A was \in PhonePrice.values : \A v \in After(PhonePrice, was) :
            Put(PhonePrice, "estimate", was,
              v) \subseteq PhonePrice.likes[v] \cup OverwrittenIn("phonePrice")
    BY <1>3, <1>5, <1>7, <1>15, <1>16
  <2>3. \A was \in PhonePrice.values \cup {Left}, v \in Sound("phonePrice") :
          Put(PhonePrice, "estimate", was, v) \subseteq Sound("phonePrice")
    BY <1>3, <1>12, <1>15
  <2>4. ~PhonePrice.edits
    BY DEF PhonePrice, publishSchema, PriceValues, onEstimate, Overwrites, Answers, Creation,
     Same, Only, NoFills
  <2>5. ~PhonePrice.kept
    BY DEF PhonePrice, publishSchema, PriceValues, onEstimate, Overwrites, Answers, Creation,
     Same, Only, NoFills
  <2> QED
    BY <1>13, <2>1, <2>2, <2>3, <2>4, <2>5 DEF Filling
<1>18. Ageing("phonePrice", PhonePrice)
  BY <1>1, <1>2, StillAges
<1> QED
  BY <1>11, <1>13, <1>17, <1>18, MadeFits

LEMMA RequestPhotosFits == Fit("requestPhotos")
<1>1. "requestPhotos" \in DOMAIN Fields /\ Fields["requestPhotos"] = RequestPhotos
  BY DEF Fields, PublishFields, RequestFields, TripFields, PhoneTripFields, SheetFields
<1>2. Usual(RequestPhotos) /\ RequestPhotos.ages = Same(RequestPhotos.values)
        /\ RequestPhotos.first = ""
  BY DEF Usual, Left, Sent, RequestPhotos, SendRequestSheet, publishSchema, PhotoValues,
     ajouterPhotos, removePhoto, photosChosen, Answers, Creation, Same, Only, NoFills
<1>3. RequestPhotos.values = {"", "old", "new", "old and new"}
  BY DEF RequestPhotos, SendRequestSheet, publishSchema, PhotoValues, ajouterPhotos,
     removePhoto, photosChosen, Answers, Creation, Same, Only, NoFills
<1>4. /\ RequestPhotos.types[""] = {}
      /\ RequestPhotos.types["old"] = {""}
      /\ RequestPhotos.types["new"] = {""}
      /\ RequestPhotos.types["old and new"] = {"old", "new"}
  BY DEF RequestPhotos, SendRequestSheet, publishSchema, PhotoValues, ajouterPhotos,
     removePhoto, photosChosen, Answers, Creation, Same, Only, NoFills
<1>5. /\ RequestPhotos.likes[""] = {"", "new"}
      /\ RequestPhotos.likes["old"] = {"old", "old and new"}
      /\ RequestPhotos.likes["new"] = {"new"}
      /\ RequestPhotos.likes["old and new"] = {"old and new"}
  BY DEF RequestPhotos, SendRequestSheet, publishSchema, PhotoValues, ajouterPhotos,
     removePhoto, photosChosen, Answers, Creation, Same, Only, NoFills
<1>6. Typed(RequestPhotos) = {"", "old", "new"}
  BY <1>3, <1>4 DEF Typed
<1>7. /\ After(RequestPhotos, "") = {}
      /\ After(RequestPhotos, "old") = {""}
      /\ After(RequestPhotos, "new") = {""}
      /\ After(RequestPhotos, "old and new") = {"", "old", "new"}
  BY <1>4, ZenonT(40) DEF After
<1>8. Retyped(RequestPhotos)
  <2>1. \A v \in Typed(RequestPhotos) : v \in RequestPhotos.likes[v]
    BY <1>5, <1>6
  <2>2. \A v \in RequestPhotos.values : RequestPhotos.types[v] \subseteq RequestPhotos.values
    BY <1>3, <1>4
  <2>3. \A v \in RequestPhotos.values : \A w \in After(RequestPhotos, v) :
          RequestPhotos.types[w] \subseteq After(RequestPhotos, v)
    BY <1>3, <1>4, <1>7
  <2> QED
    BY <2>1, <2>2, <2>3 DEF Retyped
<1>9. Saves(RequestPhotos, {""}, {})
  BY DEF Saves, Refusing, Omitting, RequestPhotos, SendRequestSheet, publishSchema,
     PhotoValues, ajouterPhotos, removePhoto, photosChosen, Answers, Creation, Same, Only,
     NoFills
<1>10. /\ RequestPhotos.early \subseteq Passed("requestPhotos", RequestPhotos, {""}, {})
            /\ Lost("requestPhotos", RequestPhotos, {""})
      /\ Passed("requestPhotos", RequestPhotos, {""}, {}) = {"", "old", "new", "old and new"}
  BY DEF Passed, RefusedIn, Lost, RequestPhotos, SendRequestSheet, publishSchema, PhotoValues,
     ajouterPhotos, removePhoto, photosChosen, Answers, Creation, Same, Only, NoFills
<1>11. Made("requestPhotos", RequestPhotos, {""}, {})
  BY <1>1, <1>2, <1>8, <1>9, <1>10, UsualMade
<1>12. Sound("requestPhotos") = {"", "old", "new", "old and new"}
  BY <1>10, <1>11, SoundIs
<1>13. DOMAIN RequestPhotos.fills = {"upload"} /\ RequestPhotos.fills["upload"].pressed = TRUE
  BY DEF Fill, RequestPhotos, SendRequestSheet, publishSchema, PhotoValues, ajouterPhotos,
     removePhoto, photosChosen, Answers, Creation, Same, Only, NoFills
<1>14. \A was \in RequestPhotos.values \cup {Left}, v \in RequestPhotos.values :
          /\ was \in {"", Left} =>
               Put(RequestPhotos, "upload", was, v) = {IF v \in {"",
                 "old"} THEN "old" ELSE "old and new"}
          /\ was = "old" => Put(RequestPhotos, "upload", was, v) = {IF v \in {"",
               "new"} THEN "new" ELSE "old and new"}
          /\ was \in {"new", "old and new"} =>
               Put(RequestPhotos, "upload", was, v) = {IF v \in {""} THEN "new" ELSE v}
  <2> SUFFICES ASSUME NEW was \in RequestPhotos.values \cup {Left},
        NEW v \in RequestPhotos.values
                PROVE  
          /\ was \in {"", Left} =>
               Put(RequestPhotos, "upload", was, v) = {IF v \in {"",
                 "old"} THEN "old" ELSE "old and new"}
          /\ was = "old" => Put(RequestPhotos, "upload", was, v) = {IF v \in {"",
               "new"} THEN "new" ELSE "old and new"}
          /\ was \in {"new", "old and new"} =>
               Put(RequestPhotos, "upload", was, v) = {IF v \in {""} THEN "new" ELSE v}
    OBVIOUS
  <2>0. RequestPhotos.values = {"", "old", "new", "old and new"} /\ Left = "left"
    BY <1>3 DEF Left
  <2>1. RequestPhotos.fills["upload"] = ajouterPhotos
    BY DEF RequestPhotos, SendRequestSheet, publishSchema, PhotoValues, removePhoto,
     photosChosen, Answers, Creation, Same, Only, NoFills
  <2>2. CASE was \in {"", Left}
    <3>1. ajouterPhotos.put[<<was, v>>] = {IF v \in {"", "old"} THEN "old" ELSE "old and new"}
      BY <2>0, <2>2 DEF Fill, ajouterPhotos, PhotoValues, Left
    <3>2. Put(RequestPhotos, "upload", was, v) = {IF v \in {"",
            "old"} THEN "old" ELSE "old and new"}
      BY <2>1, <3>1 DEF Put
    <3> QED
      BY <2>0, <2>2, <3>2
  <2>3. CASE was = "old"
    <3>1. ajouterPhotos.put[<<was, v>>] = {IF v \in {"", "new"} THEN "new" ELSE "old and new"}
      BY <2>0, <2>3 DEF Fill, ajouterPhotos, PhotoValues, Left
    <3>2. Put(RequestPhotos, "upload", was, v) = {IF v \in {"",
            "new"} THEN "new" ELSE "old and new"}
      BY <2>1, <3>1 DEF Put
    <3> QED
      BY <2>0, <2>3, <3>2
  <2>4. CASE was \in {"new", "old and new"}
    <3>1. ajouterPhotos.put[<<was, v>>] = {IF v \in {""} THEN "new" ELSE v}
      BY <2>0, <2>4 DEF Fill, ajouterPhotos, PhotoValues, Left
    <3>2. Put(RequestPhotos, "upload", was, v) = {IF v \in {""} THEN "new" ELSE v}
      BY <2>1, <3>1 DEF Put
    <3> QED
      BY <2>0, <2>4, <3>2
  <2> QED
    BY <2>0, <2>2, <2>3, <2>4
<1>15. ASSUME NEW was \in RequestPhotos.values \cup {Left}, NEW v \in RequestPhotos.values,
         NEW x \in Put(RequestPhotos, "upload", was, v)
      PROVE  
          /\ was \in {"", Left} => x = IF v \in {"", "old"} THEN "old" ELSE "old and new"
          /\ was = "old" => x = IF v \in {"", "new"} THEN "new" ELSE "old and new"
          /\ was \in {"new", "old and new"} => x = IF v \in {""} THEN "new" ELSE v
  <2>0. was \in {"", Left} \/ was = "old" \/ was \in {"new", "old and new"}
    BY <1>3
  <2>1. CASE was \in {"", Left}
    <3>1. Put(RequestPhotos, "upload", was, v) = {IF v \in {"",
            "old"} THEN "old" ELSE "old and new"}
      BY <1>14, <2>1
    <3> QED
      BY <2>1, <3>1 DEF Left
  <2>2. CASE was = "old"
    <3>1. Put(RequestPhotos, "upload", was, v) = {IF v \in {"",
            "new"} THEN "new" ELSE "old and new"}
      BY <1>14, <2>2
    <3> QED
      BY <2>2, <3>1 DEF Left
  <2>3. CASE was \in {"new", "old and new"}
    <3>1. Put(RequestPhotos, "upload", was, v) = {IF v \in {""} THEN "new" ELSE v}
      BY <1>14, <2>3
    <3> QED
      BY <2>3, <3>1 DEF Left
  <2> QED
    BY <2>0, <2>1, <2>2, <2>3
<1>16. OverwrittenIn("requestPhotos") = {}
  BY DEF OverwrittenIn
<1>17. Filling("requestPhotos", RequestPhotos, "upload")
  <2>1. \A was \in RequestPhotos.values \cup {Left}, v \in RequestPhotos.values :
          Put(RequestPhotos, "upload", was, v) \subseteq RequestPhotos.values
    BY <1>3, <1>15
  <2>2. \A was \in RequestPhotos.values : \A v \in After(RequestPhotos, was) :
            Put(RequestPhotos, "upload", was,
              v) \subseteq RequestPhotos.likes[v] \cup OverwrittenIn("requestPhotos")
    BY <1>3, <1>5, <1>7, <1>15, <1>16, ZenonT(40)
  <2>3. \A was \in RequestPhotos.values \cup {Left}, v \in Sound("requestPhotos") :
          Put(RequestPhotos, "upload", was, v) \subseteq Sound("requestPhotos")
    BY <1>3, <1>12, <1>15
  <2>4. ~RequestPhotos.edits
    BY DEF RequestPhotos, SendRequestSheet, publishSchema, PhotoValues, ajouterPhotos,
     removePhoto, photosChosen, Answers, Creation, Same, Only, NoFills
  <2>5. Mute(RequestPhotos, RequestPhotos.first)
    BY <1>2, <1>4 DEF Mute
  <2> QED
    BY <1>13, <2>1, <2>2, <2>3, <2>4, <2>5 DEF Filling
<1>18. Ageing("requestPhotos", RequestPhotos)
  BY <1>1, <1>2, StillAges
<1> QED
  BY <1>11, <1>13, <1>17, <1>18, MadeFits

LEMMA TransporterPhotoFits == Fit("transporterPhoto")
<1>1. "transporterPhoto" \in DOMAIN Fields /\ Fields["transporterPhoto"] = TransporterPhoto
  BY DEF Fields, PublishFields, RequestFields, TripFields, PhoneTripFields, SheetFields,
     AccountFields, AccountPageFields, ProfilePageFields
<1>2. Usual(TransporterPhoto) /\ TransporterPhoto.ages = Same(TransporterPhoto.values)
        /\ TransporterPhoto.first = ""
  BY DEF Usual, Left, Sent, TransporterPhoto, handleVehicleCropped, Overwrites,
     TransporterEdition, Text, TextRecords, Edition, Change, Creation, Same, Only, NoFills
<1>3. TransporterPhoto.values = {"", "saved", "theirs", "mine"}
  BY DEF TransporterPhoto, handleVehicleCropped, Overwrites, TransporterEdition, Text,
     TextRecords, Edition, Change, Creation, Same, Only, NoFills
<1>4. /\ TransporterPhoto.types[""] = {}
      /\ TransporterPhoto.types["saved"] = {}
      /\ TransporterPhoto.types["theirs"] = {}
      /\ TransporterPhoto.types["mine"] = {}
  BY DEF TransporterPhoto, handleVehicleCropped, Overwrites, TransporterEdition, Text,
     TextRecords, Edition, Change, Creation, Same, Only, NoFills
<1>5. /\ TransporterPhoto.likes[""] = {""}
      /\ TransporterPhoto.likes["saved"] = {"saved"}
      /\ TransporterPhoto.likes["theirs"] = {"theirs"}
      /\ TransporterPhoto.likes["mine"] = {"mine"}
  BY DEF TransporterPhoto, handleVehicleCropped, Overwrites, TransporterEdition, Text,
     TextRecords, Edition, Change, Creation, Same, Only, NoFills
<1>6. Typed(TransporterPhoto) = {}
  BY <1>3, <1>4 DEF Typed
<1>7. /\ After(TransporterPhoto, "") = {}
      /\ After(TransporterPhoto, "saved") = {}
      /\ After(TransporterPhoto, "theirs") = {}
      /\ After(TransporterPhoto, "mine") = {}
  BY <1>4 DEF After
<1>8. Retyped(TransporterPhoto)
  <2>1. \A v \in Typed(TransporterPhoto) : v \in TransporterPhoto.likes[v]
    BY <1>5, <1>6
  <2>2. \A v \in TransporterPhoto.values :
          TransporterPhoto.types[v] \subseteq TransporterPhoto.values
    BY <1>3, <1>4
  <2>3. \A v \in TransporterPhoto.values : \A w \in After(TransporterPhoto, v) :
          TransporterPhoto.types[w] \subseteq After(TransporterPhoto, v)
    BY <1>3, <1>4, <1>7
  <2> QED
    BY <2>1, <2>2, <2>3 DEF Retyped
<1>9. Saves(TransporterPhoto, {}, {})
  BY DEF Saves, Refusing, TransporterPhoto, handleVehicleCropped, Overwrites,
     TransporterEdition, Text, TextRecords, Edition, Change, Creation, Same, Only, NoFills
<1>10. /\ TransporterPhoto.early \subseteq Passed("transporterPhoto", TransporterPhoto, {},
            {}) /\ Lost("transporterPhoto", TransporterPhoto, {})
      /\ Passed("transporterPhoto", TransporterPhoto, {}, {}) = {"", "saved", "theirs", "mine"}
  BY DEF Passed, RefusedIn, Lost, TransporterPhoto, handleVehicleCropped, Overwrites,
     TransporterEdition, Text, TextRecords, Edition, Change, Creation, Same, Only, NoFills
<1>11. Made("transporterPhoto", TransporterPhoto, {}, {})
  BY <1>1, <1>2, <1>8, <1>9, <1>10, UsualMade
<1>12. Sound("transporterPhoto") = {"", "saved", "theirs", "mine"}
  BY <1>10, <1>11, SoundIs
<1>13. DOMAIN TransporterPhoto.fills = {"upload"}
         /\ TransporterPhoto.fills["upload"].pressed = TRUE
  BY DEF Fill, TransporterPhoto, handleVehicleCropped, Overwrites, TransporterEdition, Text,
     TextRecords, Edition, Change, Creation, Same, Only, NoFills
<1>14. \A was \in TransporterPhoto.values \cup {Left}, v \in TransporterPhoto.values :
         Put(TransporterPhoto, "upload", was, v) = {"mine"}
  BY DEF Put, Fill, TransporterPhoto, handleVehicleCropped, Overwrites, TransporterEdition,
     Text, TextRecords, Edition, Change, Creation, Same, Only, NoFills
<1>15. ASSUME NEW was \in TransporterPhoto.values \cup {Left},
         NEW v \in TransporterPhoto.values, NEW x \in Put(TransporterPhoto, "upload", was, v)
      PROVE  x = "mine"
  BY <1>14
<1>16. OverwrittenIn("transporterPhoto") = {}
  BY DEF OverwrittenIn
<1>17. Filling("transporterPhoto", TransporterPhoto, "upload")
  <2>1. \A was \in TransporterPhoto.values \cup {Left}, v \in TransporterPhoto.values :
          Put(TransporterPhoto, "upload", was, v) \subseteq TransporterPhoto.values
    BY <1>3, <1>15
  <2>2. \A was \in TransporterPhoto.values : \A v \in After(TransporterPhoto, was) :
            Put(TransporterPhoto, "upload", was,
              v) \subseteq TransporterPhoto.likes[v] \cup OverwrittenIn("transporterPhoto")
    BY <1>3, <1>5, <1>7, <1>15, <1>16
  <2>3. \A was \in TransporterPhoto.values \cup {Left}, v \in Sound("transporterPhoto") :
          Put(TransporterPhoto, "upload", was, v) \subseteq Sound("transporterPhoto")
    BY <1>3, <1>12, <1>15
  <2>4. TransporterPhoto.edits => \A v \in TransporterPhoto.values : Mute(TransporterPhoto, v)
    BY <1>3, <1>4 DEF Mute
  <2>5. ~TransporterPhoto.kept
    BY DEF TransporterPhoto, handleVehicleCropped, Overwrites, TransporterEdition, Text,
     TextRecords, Edition, Change, Creation, Same, Only, NoFills
  <2> QED
    BY <1>13, <2>1, <2>2, <2>3, <2>4, <2>5 DEF Filling
<1>18. Ageing("transporterPhoto", TransporterPhoto)
  BY <1>1, <1>2, StillAges
<1> QED
  BY <1>11, <1>13, <1>17, <1>18, MadeFits

-----------------------------------------------------------------------------
(* Every field, of the web and of the phone: its tables are closed, what    *)
(* fills it in honours what was typed, what a step lets through stays sound, *)
(* and what it leaves out was empty, but for the cases OverwrittenIn,        *)
(* RefusedIn and Means name.                                               *)
THEOREM EveryField == \A p \in DOMAIN Fields : Fit(p)
<1>1. /\ DOMAIN PublishFields = DOMAIN RequestFields \cup DOMAIN TripFields
             \cup DOMAIN PhoneTripFields \cup DOMAIN SheetFields
      /\ DOMAIN AccountFields = DOMAIN AccountPageFields \cup DOMAIN ProfilePageFields
             \cup DOMAIN PanelFields
      /\ DOMAIN Fields = DOMAIN PublishFields \cup DOMAIN AccountFields
  BY DEF Fields, PublishFields, AccountFields
<1>2. ASSUME NEW p \in DOMAIN RequestFields  PROVE Fit(p)
  <2>1. p \in {"demandType", "demandAddress", "demandGovernorate", "demandHint",
     "demandSpecifications", "demandDescription", "demandPhotos", "demandSchedule",
     "demandBudget"}
    BY DEF RequestFields
  <2> QED
    BY <2>1, DemandTypeFits, DemandAddressFits, DemandGovernorateFits, DemandHintFits,
       DemandSpecificationsFits, DemandDescriptionFits, DemandPhotosFits, DemandScheduleFits,
       DemandBudgetFits
<1>3. ASSUME NEW p \in DOMAIN TripFields  PROVE Fit(p)
  <2>1. p \in {"tripCorridor", "tripDeparture", "tripVehicle", "tripCapacity", "tripPrice",
     "tripText", "tripInstant"}
    BY DEF TripFields
  <2> QED
    BY <2>1, TripCorridorFits, TripDepartureFits, TripVehicleFits, TripCapacityFits,
       TripPriceFits, TripTextFits, TripInstantFits
<1>4. ASSUME NEW p \in DOMAIN PhoneTripFields  PROVE Fit(p)
  <2>1. p \in {"phoneCorridor", "phoneDeparture", "phonePrice", "phoneAddress", "phoneCapacity"}
    BY DEF PhoneTripFields
  <2> QED
    BY <2>1, PhoneCorridorFits, PhoneDepartureFits, PhonePriceFits, PhoneAddressFits,
       PhoneCapacityFits
<1>5. ASSUME NEW p \in DOMAIN SheetFields  PROVE Fit(p)
  <2>1. p \in {"requestWeight", "requestGoods", "requestSlot", "requestPickup",
     "requestPrice", "requestPhotos"}
    BY DEF SheetFields
  <2> QED
    BY <2>1, RequestWeightFits, RequestGoodsFits, RequestSlotFits, RequestPickupFits,
       RequestPriceFits, RequestPhotosFits
<1>6. ASSUME NEW p \in DOMAIN AccountPageFields  PROVE Fit(p)
  <2>1. p \in {"accountNotifications", "accountLanguage", "accountPassword", "resetPassword"}
    BY DEF AccountPageFields
  <2> QED
    BY <2>1, AccountNotificationsFits, AccountLanguageFits, AccountPasswordFits,
       ResetPasswordFits
<1>7. ASSUME NEW p \in DOMAIN ProfilePageFields  PROVE Fit(p)
  <2>1. p \in {"clientName", "clientPhone", "clientBio", "clientAddress", "transporterName",
     "transporterPhone", "transporterBio", "transporterVehicle", "transporterCapacity",
     "transporterAreas", "transporterSpecs", "transporterPhoto"}
    BY DEF ProfilePageFields
  <2> QED
    BY <2>1, ClientNameFits, ClientPhoneFits, ClientBioFits, ClientAddressFits,
       TransporterNameFits, TransporterPhoneFits, TransporterBioFits, TransporterVehicleFits,
       TransporterCapacityFits, TransporterAreasFits, TransporterSpecsFits, TransporterPhotoFits
<1>8. ASSUME NEW p \in DOMAIN PanelFields  PROVE Fit(p)
  <2>1. p \in {"addressLabel", "phoneLabel", "phoneProfile", "phonePassword", "phoneReset",
     "phoneNotifications", "phoneAreas", "phoneDocument", "phoneWithdrawal", "phoneDispute",
     "phoneReview"}
    BY DEF PanelFields
  <2> QED
    BY <2>1, AddressLabelFits, PhoneLabelFits, PhoneProfileFits, PhonePasswordFits,
       PhoneResetFits, PhoneNotificationsFits, PhoneAreasFits, PhoneDocumentFits,
       PhoneWithdrawalFits, PhoneDisputeFits, PhoneReviewFits
<1> QED
  BY <1>1, <1>2, <1>3, <1>4, <1>5, <1>6, <1>7, <1>8

-----------------------------------------------------------------------------
(* The invariant.                                                          *)

(* What a field, or the server, may hold.                                   *)
Recs == Field.records \cup Field.values

Types ==
    /\ scr \in DOMAIN Fields
    /\ rec \in Recs
    /\ {cache, seen, mine} \subseteq Recs \cup {None}
    /\ reading \in Recs \cup {None, Sent}
    /\ val \in Field.values \/ (Field.edits /\ ~open /\ val = Field.first)
    /\ {loaded, open, own} \subseteq BOOLEAN /\ step \in {"fill", "sure"}
    /\ asked \in [Fills -> Field.values \cup {Left, None}]
    /\ hand \in Typed(Field) \cup {None}

(* A form that creates reads nothing; one that is opened has been read, and *)
(* is not read again while it is open, nor saved when it is not.            *)
PageHolds ==
    /\ Field.creates => reading = None
    /\ Field.reads # "behind" => loaded
    /\ (~Field.again /\ loaded) => reading = None
    /\ (Field.edits /\ open) => loaded /\ seen # None
    /\ (Field.edits /\ call # None) => open

(* The draft is what the form shows.                                        *)
DraftHolds ==
    draft # None => Field.draft /\ val \in Field.values /\ draft = [val |-> val, step |-> step]

(* While a pressed fill is on its way, what is shown is what it was asked    *)
(* for or was typed since, unless nothing can be typed.                     *)
Awaits(f) ==
    asked[f] # None =>
        /\ asked[f] = Left => Field.kept
        /\ Field.fills[f].pressed =>
              \/ hand = None /\ (val = asked[f] \/ Mute(Field, val))
              \/ /\ asked[f] \in Field.values /\ val \in After(Field, asked[f])
                 /\ hand \in {None, val}
AskedHolds == \A f \in Fills : Awaits(f)

TypedHolds == hand # None => val \in Field.likes[hand] \cup KnownOverwritten

SoundHolds == step = "sure" => val \in Sound(scr)

(* What is not the person's is what the form offers, or what it has read.   *)
Unmeant(v, sn) ==
    IF Field.creates THEN v \in Offered \/ KnownLeaked
    ELSE IF sn = None THEN v = Field.unread ELSE v = sn
OwnHolds == (~own /\ loaded /\ (open \/ ~Field.edits)) => Unmeant(val, seen)

CallHolds ==
    call # None =>
        /\ call \in Calls(Field)
        /\ call.shown \in Field.checks \cap Sound(scr) /\ call.value = Field.sends[call.shown]
        /\ call.got = "done" => call.res \in Recs /\ (call.value # None => call.res = call.shown)
        /\ ~call.own => Unmeant(call.shown, call.seen)

(* What was saved and nobody changed is what a page opened to edit it has    *)
(* read, or will read, or is about to hear.                                 *)
MineHolds ==
    (Field.edits /\ ~Field.cached /\ mine # None) =>
        IF call # None /\ call.got = "done" THEN call.res = rec
        ELSE /\ seen \in {None, rec} /\ reading \in {None, Sent, rec}
             /\ call # None => call.seen = rec

Inv ==
    /\ Types /\ PageHolds /\ DraftHolds /\ AskedHolds /\ TypedHolds
    /\ SoundHolds /\ OwnHolds /\ CallHolds /\ MineHolds

-----------------------------------------------------------------------------
(* What the tables say of the field before the person.                      *)

LEMMA FieldFacts ==
    ASSUME scr \in DOMAIN Fields
    PROVE  Kinds(Field) /\ Closed(Field) /\ Honours(scr) /\ StaysSound(scr) /\ Means(scr)
BY EveryField DEF Fit, Field

LEMMA KindFacts ==
    ASSUME scr \in DOMAIN Fields
    PROVE  /\ Field.creates => /\ FirstReading = None /\ Field.unread = None
                               /\ ~Field.edits /\ ~Field.again
           /\ Field.edits => Field.reads = "behind" /\ Field.unread = None /\ ~Field.again
           /\ Field.again => /\ Fills = {}
                             /\ \/ Field.reads = "behind" /\ Field.unread = None
                                \/ Field.reads = "beside" /\ Field.unread = Field.first
           /\ Field.creates \/ Field.edits \/ Field.again
           /\ ~Field.creates => /\ ~Field.draft /\ ~Field.kept
                                /\ Field.early = Field.values
                                /\ \A v \in Field.values : Field.ages[v] = v
           /\ Field.draft => ~Field.kept
           /\ FirstReading = None <=> Field.reads = "none"
           /\ Field.reads = "none" => Field.creates
BY FieldFacts DEF Kinds, Same, FirstReading, Fills, Sent, Closed

LEMMA ValueFacts ==
    ASSUME scr \in DOMAIN Fields
    PROVE  /\ None \notin Field.values /\ Left \notin Field.values
           /\ None \notin Recs /\ Sent \notin Recs /\ None # Left /\ None # Sent
           /\ Field.first \in Field.values \/ (Field.edits /\ Fills = {})
           /\ IF Field.creates THEN Field.others = {}
              ELSE Recs = Field.values /\ Field.others \subseteq Field.values
                   /\ \A v \in Recs : Field.shows[v] = v
           /\ \A v \in Field.values :
                 /\ Field.types[v] \subseteq Field.values /\ Field.ages[v] \in Field.values
                 /\ Field.sends[v] \in {v, None} /\ Field.stores[v] \subseteq {v}
           /\ \A f \in Fills : \A was \in Field.values \cup {Left}, v \in Field.values :
                 Field.fills[f].put[<<was, v>>] \subseteq Field.values
           /\ Typed(Field) \subseteq Field.values
           /\ \A v \in Field.values : Field.types[v] \subseteq Typed(Field)
<1>1. Closed(Field)
  BY FieldFacts
<1>2. Typed(Field) \subseteq Field.values
  BY <1>1 DEF Closed, Typed
<1>3. \A v \in Field.values : Field.types[v] \subseteq Typed(Field)
  BY DEF Typed
<1>4. ~Field.creates => Recs = Field.values /\ \A v \in Recs : Field.shows[v] = v
  BY <1>1 DEF Closed, Recs, Same
<1>5. \A f \in Fills : \A was \in Field.values \cup {Left}, v \in Field.values :
         Field.fills[f].put[<<was, v>>] \subseteq Field.values
  BY <1>1 DEF Closed, Fills
<1>6. /\ None \notin Recs /\ Sent \notin Recs
      /\ None \notin Field.values /\ Left \notin Field.values /\ None # Left /\ None # Sent
  BY <1>1 DEF Closed, Recs
<1> QED
  BY <1>1, <1>2, <1>3, <1>4, <1>5, <1>6 DEF Closed, Fills

LEMMA FillFacts ==
    ASSUME scr \in DOMAIN Fields, NEW f \in Fills
    PROVE  /\ Fills = {f}
           /\ ~Field.again /\ Field.first \in Field.values
           /\ \A v \in Field.values : Field.ages[v] = v
           /\ IF Field.fills[f].pressed
              THEN \A was \in Field.values : \A v \in After(Field, was) :
                      Field.fills[f].put[<<was, v>>] \subseteq Field.likes[v] \cup OverwrittenIn(scr)
              ELSE \A was \in Field.values, h \in Typed(Field) :
                      \A now \in Field.values \cap (Field.likes[h] \cup OverwrittenIn(scr)) :
                         Field.fills[f].put[<<was, now>>] \subseteq Field.likes[h] \cup OverwrittenIn(scr)
           /\ Field.edits => /\ Field.fills[f].pressed /\ \A v \in Field.values : Mute(Field, v)
                             /\ Typed(Field) = {}
           /\ Field.kept => /\ KnownLeaked /\ Field.fills[f].pressed
                            /\ Mute(Field, Field.first)
<1>1. Honours(scr) /\ Kinds(Field) /\ Closed(Field)
  BY FieldFacts
<1>2. Fills = {f}
  BY <1>1 DEF Honours, Field, Fills
<1>3. ~Field.again /\ Field.first \in Field.values
  BY <1>2, KindFacts, ValueFacts
<1>4. \A v \in Field.values : Field.ages[v] = v
  BY <1>1, <1>2 DEF Honours, Field, Fills, Same
<1>5. IF Field.fills[f].pressed
      THEN \A was \in Field.values : \A v \in After(Field, was) :
              Field.fills[f].put[<<was, v>>] \subseteq Field.likes[v] \cup OverwrittenIn(scr)
      ELSE \A was \in Field.values, h \in Typed(Field) :
              \A now \in Field.values \cap (Field.likes[h] \cup OverwrittenIn(scr)) :
                 Field.fills[f].put[<<was, now>>] \subseteq Field.likes[h] \cup OverwrittenIn(scr)
  BY <1>1 DEF Honours, Field, Fills
<1>6. Field.edits => Field.fills[f].pressed /\ \A v \in Field.values : Mute(Field, v)
  BY <1>1 DEF Honours, Field, Fills
<1>7. Field.edits => Typed(Field) = {}
  BY <1>6 DEF Typed, Mute
<1>8. Field.kept => KnownLeaked /\ Field.fills[f].pressed /\ Mute(Field, Field.first)
  BY <1>1 DEF Honours, Field, Fills, KnownLeaked
<1> QED
  BY <1>2, <1>3, <1>4, <1>5, <1>6, <1>7, <1>8

LEMMA TypingFacts ==
    ASSUME scr \in DOMAIN Fields
    PROVE  /\ \A v \in Typed(Field) : v \in Field.likes[v]
           /\ \A v \in Field.values : \A w \in After(Field, v) :
                 Field.types[w] \subseteq After(Field, v)
           /\ \A v \in Field.values : Field.types[v] \subseteq After(Field, v)
           /\ (\E v \in Field.values : Field.ages[v] # v) =>
                 /\ Fills = {} /\ OverwrittenIn(scr) = {}
                 /\ \A v \in Typed(Field) : Field.likes[v] = {v} /\ Field.ages[v] \in Typed(Field)
<1>1. Honours(scr)
  BY FieldFacts
<1>2. (\E v \in Field.values : Field.ages[v] # v) => Field.ages # Same(Field.values)
  BY DEF Same
<1>3. \A v \in Typed(Field) : v \in Field.likes[v]
  BY <1>1 DEF Honours, Field
<1>4. \A v \in Field.values : \A w \in After(Field, v) : Field.types[w] \subseteq After(Field, v)
  BY <1>1 DEF Honours, Field
<1>5. \A v \in Field.values : Field.types[v] \subseteq After(Field, v)
  BY DEF After
<1>6. Field.ages # Same(Field.values) =>
         /\ Fills = {} /\ OverwrittenIn(scr) = {}
         /\ \A v \in Typed(Field) : Field.likes[v] = {v} /\ Field.ages[v] \in Typed(Field)
  BY <1>1 DEF Honours, Field, Fills
<1> QED
  BY <1>2, <1>3, <1>4, <1>5, <1>6

LEMMA SoundFacts ==
    ASSUME scr \in DOMAIN Fields
    PROVE  /\ Field.early \subseteq Sound(scr) /\ Sound(scr) \subseteq Field.values
           /\ \A v \in Sound(scr) : Field.ages[v] \in Sound(scr)
           /\ \A f \in Fills : \A v \in Sound(scr), was \in Field.values \cup {Left} :
                 Field.fills[f].put[<<was, v>>] \subseteq Sound(scr)
           /\ ~Field.creates => Sound(scr) = Field.values
<1>1. StaysSound(scr)
  BY FieldFacts
<1>2. Field.early \subseteq Sound(scr) /\ \A v \in Sound(scr) : Field.ages[v] \in Sound(scr)
  BY <1>1 DEF StaysSound, Field
<1>3. \A f \in Fills : \A v \in Sound(scr), was \in Field.values \cup {Left} :
         Field.fills[f].put[<<was, v>>] \subseteq Sound(scr)
  BY <1>1 DEF StaysSound, Field, Fills
<1>4. Sound(scr) \subseteq Field.values
  BY DEF Sound, Field
<1> QED
  BY <1>2, <1>3, <1>4, KindFacts

LEMMA MeaningFacts ==
    ASSUME scr \in DOMAIN Fields
    PROVE  /\ \A v \in Field.values :
                 Field.sends[v] = None =>
                     IF Field.creates
                     THEN "" \in Field.values /\ (v = "" \/ (scr = "requestSlot" /\ v = "hours alone"))
                     ELSE scr = "transporterCapacity" /\ v = "" /\ Field.cached /\ Field.edits
           /\ Field.creates =>
                 \A v \in Offered \cap Field.values :
                     /\ Field.ages[v] \in Offered
                     /\ \A f \in Fills : \A was \in Field.values :
                           Field.fills[f].put[<<was, v>>] \subseteq Offered \/ Field.fills[f].pressed
           /\ Field.creates /\ Field.first \in Field.values => Field.first \in Offered
<1>1. Means(scr)
  BY FieldFacts
<1>2. \A v \in Field.values :
         Field.sends[v] = None =>
             IF Field.creates
             THEN "" \in Field.values /\ (v = "" \/ (scr = "requestSlot" /\ v = "hours alone"))
             ELSE scr = "transporterCapacity" /\ v = "" /\ Field.cached /\ Field.edits
  BY <1>1 DEF Means, Field
<1>3. Field.creates =>
         \A v \in Offered \cap Field.values :
             /\ Field.ages[v] \in Offered
             /\ \A f \in Fills : \A was \in Field.values :
                   Field.fills[f].put[<<was, v>>] \subseteq Offered \/ Field.fills[f].pressed
  BY <1>1 DEF Means, Field, Fills, Offered
<1>4. Field.first \in Offered
  BY DEF Offered, OfferedBy
<1> QED
  BY <1>2, <1>3, <1>4

-----------------------------------------------------------------------------
(* The person stays before one field.                                      *)

LEMMA Frame ==
    ASSUME [Next]_vars
    PROVE  /\ scr' = scr /\ Field' = Field /\ Fills' = Fills /\ Recs' = Recs
           /\ FirstReading' = FirstReading /\ Offered' = Offered
           /\ KnownLeaked' = KnownLeaked
<1>1. scr' = scr
  BY DEF Next, vars, server, page, ghosts, Serve, ReadDone, ReadFail, Again, Edit, Cancel, Age, Check,
         Back, Return, Type, Ask, FillDone, FillFail, Send, Accept, Refuse, Lose, Answered, Failed,
         Others, CacheExpires
<1>2. Field' = Field
  BY <1>1 DEF Field
<1> QED
  BY <1>1, <1>2 DEF Fills, Recs, FirstReading, Offered, KnownLeaked

LEMMA ResultsAre ==
    ASSUME Inv, call # None
    PROVE  \A r \in Results :
              /\ r \in Recs
              /\ call.value # None => r = call.shown
              /\ call.value = None => r = IF Field.creates THEN "" ELSE rec
<1>1. /\ call.shown \in Field.values /\ call.value = Field.sends[call.shown]
      /\ scr \in DOMAIN Fields
  BY SoundFacts DEF Inv, CallHolds, Types
<1>2. call.value \in {call.shown, None} /\ Field.stores[call.shown] \subseteq {call.shown}
  BY <1>1, ValueFacts
<1>3. call.value = None /\ Field.creates => "" \in Field.values
  BY <1>1, MeaningFacts
<1> QED
  BY <1>1, <1>2, <1>3 DEF Results, Recs, Inv, Types

LEMMA FilledIn ==
    ASSUME Inv, NEW f \in Fills, asked[f] # None
    PROVE  /\ asked[f] \in Field.values \cup {Left} /\ val \in Field.values
           /\ Field.fills[f].put[<<asked[f], val>>] \subseteq Field.values
<1>1. asked[f] \in Field.values \cup {Left} /\ val \in Field.values /\ scr \in DOMAIN Fields
  BY FillFacts DEF Inv, Types
<1> QED
  BY <1>1, ValueFacts

LEMMA TypesStep ==
    ASSUME Inv, [Next]_vars
    PROVE  Types'
<1> USE DEF server, page, ghosts
<1>1. scr \in DOMAIN Fields /\ Types
  BY DEF Inv, Types
<1>2. /\ scr' = scr /\ Field' = Field /\ Fills' = Fills /\ Recs' = Recs
      /\ FirstReading' = FirstReading
  BY Frame
<1>3. /\ Field.values \subseteq Recs /\ Field.records \subseteq Recs /\ FirstReading \in {None, Sent}
  BY DEF Recs, FirstReading
<1>4. CASE UNCHANGED vars
  BY <1>4, <1>1, <1>2 DEF Types, vars
<1>5. CASE Serve
  BY <1>5, <1>1, <1>2 DEF Types, Serve
<1>6. CASE ReadDone
  <2>1. ~Field.creates /\ reading \in Recs
    BY <1>6, <1>1 DEF ReadDone, Types, Inv, PageHolds
  <2>2. Field.shows[reading] = reading /\ reading \in Field.values /\ reading # None
    BY <2>1, <1>1, ValueFacts
  <2> QED
    BY <2>1, <2>2, <1>6, <1>1, <1>2 DEF Types, ReadDone
<1>7. CASE ReadFail
  <2>1. loaded \/ Field.unread = None
    BY <1>1, KindFacts DEF Inv, PageHolds
  <2> QED
    BY <2>1, <1>7, <1>1, <1>2 DEF Types, ReadFail
<1>8. CASE Again
  BY <1>8, <1>1, <1>2 DEF Types, Again
<1>9. CASE Edit
  <2>1. ~Field.creates /\ seen \in Recs
    BY <1>9, <1>1, KindFacts DEF Edit, Types
  <2>2. Field.shows[seen] = seen /\ seen \in Field.values
    BY <2>1, <1>1, ValueFacts
  <2> QED
    BY <2>2, <1>9, <1>1, <1>2 DEF Types, Edit
<1>10. CASE Cancel
  BY <1>10, <1>1, <1>2 DEF Types, Cancel
<1>11. CASE Age
  BY <1>11, <1>1, <1>2, ValueFacts, TypingFacts DEF Types, Age, Inv, TypedHolds
<1>12. CASE Check
  BY <1>12, <1>1, <1>2 DEF Types, Check
<1>13. CASE Back
  BY <1>13, <1>1, <1>2 DEF Types, Back
<1>14. CASE Return
  <2>1. asked' \in [Fills -> Field.values \cup {Left, None}]
    BY <1>14, <1>1, <1>2 DEF Return, Types, Idle
  <2>2. val' \in Field.values \/ (Field.edits /\ ~open' /\ val' = Field.first)
    <3>1. CASE draft = None
      BY <3>1, <1>14, <1>1, ValueFacts DEF Return
    <3>2. CASE draft # None
      BY <3>2, <1>14, <1>1 DEF Return, Inv, DraftHolds
    <3> QED
      BY <3>1, <3>2
  <2>3. step' \in {"fill", "sure"}
    BY <1>14, <1>1 DEF Return, Types, Inv, DraftHolds
  <2>4. reading' \in Recs \cup {None, Sent} /\ {loaded', open', own'} \subseteq BOOLEAN
    BY <1>14, <1>1, <1>3 DEF Return, Types
  <2>5. hand' \in Typed(Field) \cup {None} /\ UNCHANGED <<scr, rec, cache, mine>> /\ seen' = None
    BY <1>14, <1>1 DEF Return, Types
  <2> QED
    BY <2>1, <2>2, <2>3, <2>4, <2>5, <1>1, <1>2 DEF Types
<1>15. ASSUME NEW v \in Field.values, Type(v) PROVE Types'
  BY <1>15, <1>1, <1>2, ValueFacts DEF Types, Type, Usable
<1>16. ASSUME NEW f \in Fills, Ask(f) PROVE Types'
  <2>1. val \in Field.values
    BY <1>16, <1>1 DEF Types, Ask, Usable
  <2>2. asked' \in [Fills -> Field.values \cup {Left, None}]
    BY <2>1, <1>16, <1>1 DEF Types, Ask
  <2> QED
    BY <2>2, <1>16, <1>1, <1>2 DEF Types, Ask
<1>17. ASSUME NEW f \in Fills, FillDone(f) PROVE Types'
  <2>1. val' \in Field.values
    BY <1>17, FilledIn DEF FillDone
  <2>2. asked' \in [Fills -> Field.values \cup {Left, None}]
    BY <1>17, <1>1 DEF Types, FillDone
  <2>3. own' \in BOOLEAN
    BY <1>17, <1>1 DEF Types, FillDone
  <2> QED
    BY <2>1, <2>2, <2>3, <1>17, <1>1, <1>2 DEF Types, FillDone
<1>18. ASSUME NEW f \in Fills, FillFail(f) PROVE Types'
  BY <1>18, <1>1, <1>2 DEF Types, FillFail
<1>19. CASE Send
  BY <1>19, <1>1, <1>2 DEF Types, Send
<1>20. CASE Accept
  BY <1>20, <1>1, <1>2, ResultsAre DEF Types, Accept
<1>21. CASE Refuse
  BY <1>21, <1>1, <1>2 DEF Types, Refuse
<1>22. CASE Lose
  BY <1>22, <1>1, <1>2 DEF Types, Lose
<1>23. CASE Answered
  BY <1>23, <1>1, <1>2 DEF Types, Answered, Inv, CallHolds
<1>24. CASE Failed
  BY <1>24, <1>1, <1>2 DEF Types, Failed
<1>25. CASE Others
  BY <1>25, <1>1, <1>2, <1>3, ValueFacts DEF Types, Others
<1>26. CASE CacheExpires
  BY <1>26, <1>1, <1>2 DEF Types, CacheExpires
<1> QED
  BY <1>4, <1>5, <1>6, <1>7, <1>8, <1>9, <1>10, <1>11, <1>12, <1>13, <1>14, <1>15, <1>16, <1>17,
     <1>18, <1>19, <1>20, <1>21, <1>22, <1>23, <1>24, <1>25, <1>26 DEF Next

LEMMA PageStep ==
    ASSUME Inv, [Next]_vars
    PROVE  PageHolds'
<1> USE DEF server, page, ghosts
<1>1. scr \in DOMAIN Fields /\ Types /\ PageHolds
  BY DEF Inv, Types
<1>2. Field' = Field /\ FirstReading' = FirstReading
  BY Frame
<1>3. CASE UNCHANGED <<seen, reading, loaded, open, call>>
  BY <1>3, <1>1, <1>2 DEF PageHolds
<1>4. CASE Serve
  BY <1>4, <1>1, <1>2, ValueFacts DEF PageHolds, Serve
<1>5. CASE ReadDone
  BY <1>5, <1>1, <1>2 DEF PageHolds, ReadDone
<1>6. CASE ReadFail
  <2>1. loaded \/ Field.unread = None
    BY <1>1, KindFacts DEF PageHolds
  <2> QED
    BY <2>1, <1>6, <1>1, <1>2 DEF PageHolds, ReadFail
<1>7. CASE Again
  BY <1>7, <1>1, <1>2, KindFacts DEF PageHolds, Again
<1>8. CASE Edit
  BY <1>8, <1>1, <1>2 DEF PageHolds, Edit
<1>9. CASE Cancel
  BY <1>9, <1>1, <1>2 DEF PageHolds, Cancel
<1>10. CASE Return
  BY <1>10, <1>1, <1>2, KindFacts DEF PageHolds, Return
<1>11. CASE Send
  BY <1>11, <1>1, <1>2 DEF PageHolds, Send, Usable
<1>12. CASE Accept \/ Refuse \/ Lose
  BY <1>12, <1>1, <1>2 DEF PageHolds, Accept, Refuse, Lose
<1>13. CASE Answered
  BY <1>13, <1>1, <1>2 DEF PageHolds, Answered
<1>14. CASE Failed
  BY <1>14, <1>1, <1>2 DEF PageHolds, Failed
<1> QED
  BY <1>3, <1>4, <1>5, <1>6, <1>7, <1>8, <1>9, <1>10, <1>11, <1>12, <1>13, <1>14
     DEF Next, vars, Type, Ask, FillDone, FillFail, Age, Check, Back, Others, CacheExpires

LEMMA DraftStep ==
    ASSUME Inv, [Next]_vars
    PROVE  DraftHolds'
<1> USE DEF server, page, ghosts
<1>1. scr \in DOMAIN Fields /\ Types /\ DraftHolds
  BY DEF Inv, Types
<1>2. Field' = Field /\ Fills' = Fills
  BY Frame
<1>3. CASE UNCHANGED <<val, step, draft>>
  BY <1>3, <1>1, <1>2 DEF DraftHolds
<1>4. ASSUME NEW v \in Field.values, NEW s, val' = v, step' = s, Keep(v, s)
      PROVE  DraftHolds'
  BY <1>4, <1>1, <1>2 DEF DraftHolds, Keep
<1>5. CASE ReadDone \/ ReadFail \/ Edit
  <2>1. ReadFail => UNCHANGED <<val, step, draft>>
    BY <1>1, KindFacts DEF ReadFail, Inv, PageHolds
  <2>2. ReadDone \/ Edit => ~Field.creates
    BY <1>1, KindFacts DEF ReadDone, Edit, Inv, PageHolds
  <2>3. ReadDone \/ Edit => draft' = None
    BY <2>2, <1>1, KindFacts DEF ReadDone, Edit, DraftHolds
  <2> QED
    BY <2>1, <2>3, <1>3, <1>5 DEF DraftHolds
<1>6. ASSUME NEW v \in Field.values, Type(v) PROVE DraftHolds'
  <2>1. val' = v /\ step' = step /\ Keep(v, step)
    BY <1>6 DEF Type
  <2> QED
    BY <2>1, <1>4
<1>7. ASSUME NEW f \in Fills, FillDone(f) PROVE DraftHolds'
  <2>1. val' \in Field.values /\ step' = step /\ Keep(val', step)
    BY <1>7, FilledIn DEF FillDone
  <2> QED
    BY <2>1, <1>4
<1>8. CASE Age
  BY <1>8, <1>1, <1>2, ValueFacts DEF Age, DraftHolds
<1>9. CASE Check \/ Back
  <2>1. val \in Field.values /\ val' = val
    BY <1>9, <1>1 DEF Check, Back, Usable, Types
  <2>2. Keep(val, step')
    BY <1>9 DEF Check, Back
  <2> QED
    BY <2>1, <2>2, <1>4
<1>10. CASE Return
  <2>1. CASE draft = None
    <3>1. Field.draft => val' \in Field.values
      BY <2>1, <1>10, <1>1, ValueFacts, KindFacts DEF Return
    <3> QED
      BY <3>1, <2>1, <1>10, <1>2 DEF Return, Keep, DraftHolds
  <2>2. CASE draft # None
    BY <2>2, <1>10, <1>1, <1>2 DEF Return, Keep, DraftHolds
  <2> QED
    BY <2>1, <2>2
<1>11. CASE Answered
  <2>1. draft' = None
    BY <1>11, <1>1, KindFacts DEF Answered, DraftHolds
  <2> QED
    BY <2>1 DEF DraftHolds
<1> QED
  BY <1>3, <1>5, <1>6, <1>7, <1>8, <1>9, <1>10, <1>11
     DEF Next, vars, Serve, Again, Cancel, Ask, FillFail, Send, Accept, Refuse, Lose, Failed, Others,
         CacheExpires

LEMMA SoundStep ==
    ASSUME Inv, [Next]_vars
    PROVE  SoundHolds'
<1> USE DEF server, page, ghosts
<1>1. scr \in DOMAIN Fields /\ Types /\ SoundHolds /\ scr' = scr
  BY Frame DEF Inv, Types
<1>2. CASE UNCHANGED <<val, step>>
  BY <1>2, <1>1 DEF SoundHolds
<1>3. CASE step' # "sure"
  BY <1>3 DEF SoundHolds
<1>4. CASE ReadDone \/ ReadFail
  <2>1. ReadFail => UNCHANGED <<val, step>>
    BY <1>1, KindFacts DEF ReadFail, Inv, PageHolds
  <2>2. ASSUME ReadDone PROVE  val' \in Field.values \cup {val} /\ step' = step /\ ~Field.creates
    <3>1. ~Field.creates /\ reading \in Recs
      BY <2>2, <1>1 DEF ReadDone, Types, Inv, PageHolds
    <3> QED
      BY <3>1, <2>2, <1>1, ValueFacts DEF ReadDone
  <2>3. ~Field.creates => Sound(scr) = Field.values
    BY <1>1, SoundFacts
  <2> QED
    BY <2>1, <2>2, <2>3, <1>1, <1>2, <1>4 DEF SoundHolds
<1>5. CASE Edit \/ Back \/ Answered
  BY <1>5, <1>3 DEF Edit, Back, Answered
<1>6. ASSUME NEW v \in Field.values, Type(v) PROVE SoundHolds'
  BY <1>6, <1>3 DEF Type
<1>7. ASSUME NEW f \in Fills, FillDone(f) PROVE SoundHolds'
  <2>1. asked[f] \in Field.values \cup {Left} /\ step' = step
    BY <1>7, FilledIn DEF FillDone
  <2>2. val \in Sound(scr) => Field.fills[f].put[<<asked[f], val>>] \subseteq Sound(scr)
    BY <2>1, <1>1, SoundFacts
  <2> QED
    BY <2>1, <2>2, <1>7, <1>1 DEF FillDone, SoundHolds
<1>8. CASE Age
  BY <1>8, <1>1, SoundFacts DEF Age, SoundHolds
<1>9. CASE Check
  BY <1>9, <1>1, SoundFacts DEF Check, SoundHolds
<1>10. CASE Return
  BY <1>10, <1>1, <1>2, <1>3 DEF Return, Inv, DraftHolds
<1> QED
  BY <1>2, <1>4, <1>5, <1>6, <1>7, <1>8, <1>9, <1>10
     DEF Next, vars, Serve, Again, Cancel, Ask, FillFail, Send, Accept, Refuse, Lose, Failed, Others,
         CacheExpires

LEMMA AskedStep ==
    ASSUME Inv, [Next]_vars
    PROVE  AskedHolds'
<1> USE DEF server, page, ghosts
<1>1. scr \in DOMAIN Fields /\ Types
  BY DEF Inv, Types
<1>2. Field' = Field /\ Fills' = Fills
  BY Frame
<1> SUFFICES ASSUME NEW f \in Fills, asked'[f] # None
             PROVE  Awaits(f)'
  BY <1>2 DEF AskedHolds, Awaits, Fills
<1>3. asked[f] # None => Awaits(f)
  BY DEF Inv, AskedHolds
<1>4. /\ Fills = {f} /\ ~Field.again /\ val \in Field.values
      /\ \A v \in Field.values : Field.ages[v] = v
      /\ Field.edits => \A v \in Field.values : Mute(Field, v)
      /\ Field.edits => hand = None
  BY <1>1, FillFacts DEF Types
<1>5. CASE UNCHANGED <<asked, val, hand>>
  BY <1>5, <1>3, <1>2 DEF Awaits
<1>6. CASE ReadDone \/ ReadFail
  <2>1. UNCHANGED <<asked, val, hand>>
    BY <1>6, <1>1, <1>4, KindFacts DEF ReadDone, ReadFail, Inv, PageHolds
  <2> QED
    BY <2>1, <1>5
<1>7. CASE Edit
  <2>1. val' \in Field.values /\ Field.edits /\ hand' = None /\ asked' = asked
    BY <1>7, <1>1, ValueFacts, KindFacts DEF Edit, Types
  <2> QED
    BY <2>1, <1>2, <1>3, <1>4 DEF Awaits
<1>8. ASSUME NEW v \in Field.values, Type(v) PROVE Awaits(f)'
  <2>1. asked' = asked /\ val' = v /\ hand' = v /\ v \in Field.types[val]
    BY <1>8 DEF Type
  <2>2. ~Mute(Field, val)
    BY <2>1 DEF Mute
  <2>3. Field.fills[f].pressed => asked[f] \in Field.values /\ val \in After(Field, asked[f]) \cup {asked[f]}
    BY <2>1, <2>2, <1>3, <1>4 DEF Awaits
  <2>4. Field.fills[f].pressed => v \in After(Field, asked[f])
    BY <2>1, <2>3, <1>1, TypingFacts
  <2> QED
    BY <2>1, <2>3, <2>4, <1>2, <1>3 DEF Awaits
<1>9. ASSUME NEW g \in Fills, Ask(g) PROVE Awaits(f)'
  <2>1. g = f /\ asked'[f] = val /\ val' = val /\ (Field.fills[f].pressed => hand' = None)
    BY <1>9, <1>1, <1>4 DEF Ask, Types
  <2> QED
    BY <2>1, <1>2, <1>4, <1>1, ValueFacts DEF Awaits
<1>10. ASSUME NEW g \in Fills, FillDone(g) \/ FillFail(g) PROVE Awaits(f)'
  <2>1. g = f /\ asked'[f] = None
    BY <1>10, <1>1, <1>4 DEF FillDone, FillFail, Types
  <2> QED
    BY <2>1
<1>11. CASE Age
  BY <1>11, <1>4 DEF Age
<1>12. CASE Return
  <2>1. Field.kept /\ asked'[f] = Left
    BY <1>12 DEF Return, Idle
  <2>2. draft = None /\ val' = Field.first /\ hand' = None
    BY <2>1, <1>12, <1>1, KindFacts DEF Return, Inv, DraftHolds
  <2>3. Mute(Field, Field.first)
    BY <2>1, <1>1, FillFacts
  <2> QED
    BY <2>1, <2>2, <2>3, <1>2 DEF Awaits
<1>13. CASE Accept
  BY <1>13, <1>2, <1>3 DEF Accept, Awaits
<1> QED
  BY <1>5, <1>6, <1>7, <1>8, <1>9, <1>10, <1>11, <1>12, <1>13
     DEF Next, vars, Serve, Again, Cancel, Check, Back, Send, Refuse, Lose, Answered, Failed, Others,
         CacheExpires

LEMMA TypedStep ==
    ASSUME Inv, [Next]_vars
    PROVE  TypedHolds'
<1> USE DEF server, page, ghosts
<1>1. scr \in DOMAIN Fields /\ Types /\ TypedHolds
  BY DEF Inv, Types
<1>2. Field' = Field /\ scr' = scr
  BY Frame
<1>3. CASE UNCHANGED <<val, own>> /\ hand' \in {hand, None}
  BY <1>3, <1>1, <1>2 DEF TypedHolds, KnownOverwritten
<1>4. CASE hand' = None
  BY <1>4 DEF TypedHolds
<1>5. CASE ReadDone
  <2>1. ~Field.creates /\ reading \in Recs
    BY <1>5, <1>1 DEF ReadDone, Types, Inv, PageHolds
  <2>2. Field.shows[reading] = reading /\ reading \in Field.values /\ reading # None
    BY <2>1, <1>1, ValueFacts
  <2>3. CASE Field.edits
    BY <2>3, <1>3, <1>5 DEF ReadDone
  <2>4. CASE ~Field.edits
    <3>1. Field.again /\ own' = FALSE /\ val' \in Field.values
      BY <2>1, <2>2, <2>4, <1>1, <1>5, KindFacts DEF ReadDone
    <3> QED
      BY <3>1, <1>2 DEF TypedHolds, KnownOverwritten
  <2> QED
    BY <2>3, <2>4
<1>6. CASE ReadFail
  BY <1>6, <1>1, <1>3, KindFacts DEF ReadFail, Inv, PageHolds
<1>7. CASE Edit
  BY <1>7, <1>4 DEF Edit
<1>8. ASSUME NEW v \in Field.values, Type(v) PROVE TypedHolds'
  <2>1. val \in Field.values /\ val' = v /\ hand' = v /\ v \in Field.types[val]
    BY <1>8, <1>1 DEF Type, Usable, Types
  <2>2. v \in Field.likes[v]
    BY <2>1, <1>1, ValueFacts, TypingFacts
  <2> QED
    BY <2>1, <2>2, <1>2 DEF TypedHolds
<1>9. ASSUME NEW f \in Fills, FillDone(f) PROVE TypedHolds'
  <2>1. asked[f] \in Field.values \cup {Left} /\ val \in Field.values /\ hand' = hand
    BY <1>9, FilledIn DEF FillDone
  <2>2. ~Field.again /\ val' \in Field.fills[f].put[<<asked[f], val>>]
    BY <1>9, <1>1, FillFacts DEF FillDone
  <2> SUFFICES ASSUME hand # None
               PROVE  val' \in Field.likes[hand] \cup OverwrittenIn(scr)
    BY <2>1, <1>2 DEF TypedHolds, KnownOverwritten
  <2>3. hand \in Typed(Field) /\ val \in Field.likes[hand] \cup OverwrittenIn(scr)
    BY <2>2, <1>1 DEF TypedHolds, KnownOverwritten, Types
  <2>4. CASE Field.fills[f].pressed
    <3>1. asked[f] \in Field.values /\ val \in After(Field, asked[f]) /\ hand = val
      BY <2>4, <1>9 DEF FillDone, Inv, AskedHolds, Awaits
    <3> QED
      BY <3>1, <2>2, <2>4, <1>1, FillFacts
  <2>5. CASE ~Field.fills[f].pressed
    <3>1. asked[f] \in Field.values
      BY <2>1, <2>5, <1>9, <1>1, FillFacts DEF FillDone, Inv, AskedHolds, Awaits
    <3> QED
      BY <3>1, <2>1, <2>2, <2>3, <2>5, <1>1, FillFacts
  <2> QED
    BY <2>4, <2>5
<1>10. CASE Age
  <2>1. val \in Field.values /\ Field.ages[val] # val /\ own' = own
    BY <1>10, <1>1 DEF Age, Types
  <2>2. /\ ~Field.again /\ OverwrittenIn(scr) = {}
        /\ \A v \in Typed(Field) : Field.likes[v] = {v} /\ Field.ages[v] \in Typed(Field)
    BY <2>1, <1>1, KindFacts, TypingFacts
  <2>3. hand # None => hand = val /\ hand \in Typed(Field)
    BY <2>2, <1>1 DEF TypedHolds, KnownOverwritten, Types
  <2>4. hand' # None => hand # None /\ hand' = Field.ages[hand] /\ val' = hand'
    BY <2>1, <2>3, <1>10, <1>1, ValueFacts DEF Age
  <2>5. hand' # None => Field.likes[hand'] = {val'}
    BY <2>2, <2>3, <2>4
  <2> QED
    BY <2>5, <1>2 DEF TypedHolds
<1>11. CASE Return
  <2>1. CASE draft = None
    BY <2>1, <1>11, <1>4 DEF Return
  <2>2. CASE draft # None
    <3>1. val' = val /\ hand' = hand /\ own' = own
      BY <2>2, <1>11, <1>1 DEF Return, Inv, DraftHolds, Types
    <3> QED
      BY <3>1, <1>3
  <2> QED
    BY <2>1, <2>2
<1> QED
  BY <1>3, <1>5, <1>6, <1>7, <1>8, <1>9, <1>10, <1>11
     DEF Next, vars, Serve, Again, Cancel, Ask, FillFail, Check, Back, Send, Accept, Refuse, Lose,
         Answered, Failed, Others, CacheExpires

LEMMA OwnStep ==
    ASSUME Inv, [Next]_vars
    PROVE  OwnHolds'
<1> USE DEF server, page, ghosts
<1>1. scr \in DOMAIN Fields /\ Types /\ PageHolds /\ OwnHolds
  BY DEF Inv, Types
<1>2. Field' = Field /\ Offered' = Offered /\ KnownLeaked' = KnownLeaked
  BY Frame
<1>3. CASE UNCHANGED <<val, seen, own, loaded, open>>
  BY <1>3, <1>1, <1>2 DEF OwnHolds, Unmeant
<1>4. CASE own' \/ (Field.edits /\ ~open')
  BY <1>4, <1>2 DEF OwnHolds
<1>5. CASE ReadDone
  <2>1. ~Field.creates /\ reading \in Recs
    BY <1>5, <1>1 DEF ReadDone, Types, PageHolds
  <2>2. Field.shows[reading] = reading /\ reading # None
    BY <2>1, <1>1, ValueFacts
  <2>3. CASE Field.edits
    <3>1. ~loaded
      BY <2>2, <2>3, <1>1, KindFacts DEF PageHolds
    <3>2. ~open /\ open' = open
      BY <3>1, <2>3, <1>5, <1>1 DEF ReadDone, PageHolds, Types
    <3> QED
      BY <3>2, <2>3, <1>4
  <2>4. CASE ~Field.edits
    BY <2>1, <2>2, <2>4, <1>5, <1>2 DEF ReadDone, OwnHolds, Unmeant
  <2> QED
    BY <2>3, <2>4
<1>6. CASE ReadFail
  BY <1>6, <1>1, <1>3, KindFacts DEF ReadFail, PageHolds
<1>7. CASE Edit
  <2>1. ~Field.creates /\ seen \in Recs /\ seen # None
    BY <1>7, <1>1, KindFacts DEF Edit, Types
  <2>2. val' = seen /\ seen' = seen
    BY <2>1, <1>7, <1>1, ValueFacts DEF Edit
  <2> QED
    BY <2>1, <2>2, <1>2 DEF OwnHolds, Unmeant
<1>8. CASE Cancel
  BY <1>8, <1>4 DEF Cancel
<1>9. ASSUME NEW v \in Field.values, Type(v) PROVE OwnHolds'
  BY <1>9, <1>4 DEF Type
<1>10. ASSUME NEW f \in Fills, FillDone(f) PROVE OwnHolds'
  <2> SUFFICES ASSUME ~own' PROVE OwnHolds'
    BY <1>4
  <2>1. ~own /\ (~Field.fills[f].pressed \/ asked[f] = Left)
    BY <1>10, <1>1 DEF FillDone, Types
  <2>2. asked[f] \in Field.values \cup {Left} /\ val \in Field.values
    BY <1>10, FilledIn DEF FillDone
  <2>3. asked[f] = Left => Field.kept
    BY <1>10 DEF FillDone, Inv, AskedHolds, Awaits
  <2>4. Field.creates
    BY <2>1, <2>3, <1>1, KindFacts, FillFacts
  <2>5. CASE KnownLeaked
    BY <2>4, <2>5, <1>2 DEF OwnHolds, Unmeant
  <2>6. CASE ~KnownLeaked
    <3>1. ~Field.fills[f].pressed /\ asked[f] \in Field.values
      BY <2>1, <2>2, <2>3, <2>6, <1>1, FillFacts
    <3>2. val \in Offered
      BY <2>1, <2>4, <2>6, <1>1, KindFacts DEF OwnHolds, Unmeant, PageHolds, FirstReading
    <3>3. val' \in Offered
      BY <3>1, <3>2, <2>2, <2>4, <1>10, <1>1, MeaningFacts DEF FillDone
    <3> QED
      BY <3>3, <2>4, <1>2 DEF OwnHolds, Unmeant
  <2> QED
    BY <2>5, <2>6
<1>11. CASE Age
  <2>1. val \in Field.values /\ Field.creates
    BY <1>11, <1>1, KindFacts DEF Age, Types
  <2>2. own' = own /\ loaded' = loaded /\ open' = open /\ val' = Field.ages[val]
    BY <1>11 DEF Age
  <2>3. val \in Offered => val' \in Offered
    BY <2>1, <2>2, <1>1, MeaningFacts
  <2> QED
    BY <2>1, <2>2, <2>3, <1>1, <1>2 DEF OwnHolds, Unmeant
<1>12. CASE Return
  <2>1. CASE Field.creates /\ draft = None
    <3>1. Field.first \in Offered
      BY <2>1, <1>1, ValueFacts, KindFacts, MeaningFacts
    <3> QED
      BY <3>1, <2>1, <1>12, <1>2 DEF Return, OwnHolds, Unmeant
  <2>2. CASE Field.creates /\ draft # None
    <3>1. val' = val /\ own' = own
      BY <2>2, <1>12, <1>1 DEF Return, Inv, DraftHolds, Types
    <3>2. loaded /\ ~Field.edits
      BY <2>2, <1>1, FieldFacts DEF PageHolds, Kinds
    <3> QED
      BY <3>1, <3>2, <2>2, <1>1, <1>2 DEF OwnHolds, Unmeant
  <2>3. CASE Field.edits
    BY <2>3, <1>12, <1>4 DEF Return
  <2>4. CASE ~Field.creates /\ Field.again
    <3>1. draft = None
      BY <2>4, <1>1, KindFacts DEF Inv, DraftHolds
    <3> QED
      BY <3>1, <2>4, <1>12, <1>1, <1>2, KindFacts DEF Return, OwnHolds, Unmeant
  <2> QED
    BY <2>1, <2>2, <2>3, <2>4, <1>1, KindFacts
<1>13. CASE Answered
  <2>1. CASE Field.edits
    BY <2>1, <1>13, <1>4 DEF Answered
  <2>2. CASE Field.creates
    BY <2>2, <1>13, <1>1, <1>2, KindFacts DEF Answered, OwnHolds, Unmeant
  <2>3. CASE ~Field.edits /\ ~Field.creates
    <3>1. call.shown \in Field.values /\ call.value = Field.sends[call.shown]
      BY <1>13, <1>1, SoundFacts DEF Answered, Inv, CallHolds
    <3>2. call.value # None
      BY <3>1, <2>3, <1>1, MeaningFacts
    <3>3. call.res = call.shown /\ call.shown # None
      BY <3>1, <3>2, <1>13, <1>1, ValueFacts DEF Answered, Inv, CallHolds
    <3>4. UNCHANGED <<val, own, loaded>> /\ seen' = IF val = call.shown THEN call.res ELSE seen
      BY <2>3, <1>13 DEF Answered
    <3>5. (~own /\ loaded) => Unmeant(val, seen)
      BY <2>3, <1>1 DEF OwnHolds
    <3> QED
      BY <3>3, <3>4, <3>5, <2>3, <1>2 DEF OwnHolds, Unmeant
  <2> QED
    BY <2>1, <2>2, <2>3
<1> QED
  BY <1>3, <1>5, <1>6, <1>7, <1>8, <1>9, <1>10, <1>11, <1>12, <1>13
     DEF Next, vars, Serve, Again, Ask, FillFail, Check, Back, Send, Accept, Refuse, Lose, Failed,
         Others, CacheExpires

LEMMA CallStep ==
    ASSUME Inv, [Next]_vars
    PROVE  CallHolds'
<1> USE DEF server, page, ghosts
<1>1. scr \in DOMAIN Fields /\ Types /\ CallHolds
  BY DEF Inv, Types
<1>2. /\ Field' = Field /\ Offered' = Offered /\ KnownLeaked' = KnownLeaked
      /\ Recs' = Recs /\ scr' = scr
  BY Frame
<1>3. CASE UNCHANGED call
  BY <1>3, <1>1, <1>2 DEF CallHolds, Unmeant
<1>4. CASE call' = None
  BY <1>4 DEF CallHolds
<1>5. CASE Send
  <2>1. /\ call' = [value |-> Field.sends[val], shown |-> val, own |-> own, seen |-> seen,
                    res |-> None, got |-> "sent"]
        /\ val \in Field.checks /\ own \in BOOLEAN /\ seen \in Recs \cup {None}
    BY <1>5, <1>1 DEF Send, Types
  <2>2. val \in Sound(scr)
    BY <1>5 DEF Send, Inv, SoundHolds
  <2>3. ~own => Unmeant(val, seen)
    BY <1>5 DEF Send, Usable, Inv, OwnHolds
  <2>4. val \in Field.values /\ Field.sends[val] \in Field.values \cup {None}
    BY <2>2, <1>1, SoundFacts, ValueFacts
  <2>5. call' \in Calls(Field)
    BY <2>1, <2>4 DEF Calls, Recs
  <2> QED
    BY <2>1, <2>2, <2>3, <2>5, <1>2 DEF CallHolds, Unmeant
<1>6. CASE Accept
  <2>1. call # None /\ call' = [call EXCEPT !.got = "done", !.res = rec'] /\ rec' \in Results
    BY <1>6 DEF Accept
  <2>2. rec' \in Recs /\ (call.value # None => rec' = call.shown)
    BY <2>1, ResultsAre
  <2>3. call' \in Calls(Field)
    BY <2>1, <2>2, <1>1 DEF CallHolds, Calls, Recs
  <2>4. /\ call'.shown = call.shown /\ call'.value = call.value /\ call'.own = call.own
        /\ call'.seen = call.seen /\ call'.got = "done" /\ call'.res = rec'
    BY <2>1, <1>1 DEF CallHolds, Calls
  <2> QED
    BY <2>1, <2>2, <2>3, <2>4, <1>1, <1>2 DEF CallHolds, Unmeant
<1>7. CASE Refuse \/ Lose
  <2>1. call # None /\ call' = [call EXCEPT !.got = "failed"]
    BY <1>7 DEF Refuse, Lose
  <2>2. call' \in Calls(Field)
    BY <2>1, <1>1 DEF CallHolds, Calls
  <2>3. /\ call'.shown = call.shown /\ call'.value = call.value /\ call'.own = call.own
        /\ call'.seen = call.seen /\ call'.got = "failed"
    BY <2>1, <1>1 DEF CallHolds, Calls
  <2> QED
    BY <2>1, <2>2, <2>3, <1>1, <1>2 DEF CallHolds, Unmeant
<1>8. CASE Answered \/ Failed \/ Return
  BY <1>8, <1>4 DEF Answered, Failed, Return
<1> QED
  BY <1>3, <1>5, <1>6, <1>7, <1>8
     DEF Next, vars, Serve, ReadDone, ReadFail, Again, Edit, Cancel, Type, Ask, FillDone, FillFail,
         Age, Check, Back, Others, CacheExpires

LEMMA MineStep ==
    ASSUME Inv, [Next]_vars
    PROVE  MineHolds'
<1> USE DEF server, page, ghosts
<1>1. scr \in DOMAIN Fields /\ Types /\ PageHolds /\ MineHolds
  BY DEF Inv, Types
<1>2. Field' = Field
  BY Frame
<1>3. CASE UNCHANGED <<mine, call, rec, seen, reading>>
  BY <1>3, <1>1, <1>2 DEF MineHolds
<1>4. CASE mine' = None
  BY <1>4 DEF MineHolds
<1>5. CASE Serve
  BY <1>5, <1>1, <1>2 DEF Serve, MineHolds
<1>6. CASE ReadDone
  <2>1. Field.edits => ~loaded
    BY <1>6, <1>1, KindFacts DEF ReadDone, PageHolds
  <2>2. Field.edits => call = None
    BY <2>1, <1>1 DEF PageHolds
  <2> QED
    BY <2>2, <1>6, <1>1, <1>2 DEF ReadDone, MineHolds
<1>7. CASE ReadFail \/ Again
  BY <1>7, <1>1, <1>2 DEF ReadFail, Again, MineHolds
<1>8. CASE Return
  BY <1>8, <1>1, <1>2 DEF Return, MineHolds, FirstReading
<1>9. CASE Send
  BY <1>9, <1>1, <1>2 DEF Send, Usable, MineHolds, PageHolds
<1>10. CASE Accept
  <2>1. call # None /\ call' = [call EXCEPT !.got = "done", !.res = rec'] /\ rec' \in Results
    BY <1>10 DEF Accept
  <2>2. rec' \in Recs /\ call \in Calls(Field)
    BY <2>1, ResultsAre DEF Inv, CallHolds
  <2>3. call' \in Calls(Field) /\ call'.got = "done" /\ call'.res = rec'
    BY <2>1, <2>2 DEF Calls, Recs
  <2>4. call' # None
    BY <2>3, <1>1, FieldFacts DEF Closed
  <2> QED
    BY <2>3, <2>4, <1>2 DEF MineHolds
<1>11. CASE Refuse
  <2>1. /\ call # None /\ call' = [call EXCEPT !.got = "failed"] /\ call.got = "sent"
        /\ call \in Calls(Field)
    BY <1>11 DEF Refuse, Inv, CallHolds
  <2>2. call'.got = "failed" /\ call'.seen = call.seen
    BY <2>1 DEF Calls
  <2> QED
    BY <2>1, <2>2, <1>11, <1>1, <1>2 DEF Refuse, MineHolds
<1>12. CASE Lose
  <2>1. call # None /\ call' = [call EXCEPT !.got = "failed"] /\ call \in Calls(Field)
    BY <1>12 DEF Lose, Inv, CallHolds
  <2>2. call'.got = "failed" /\ call'.seen = call.seen
    BY <2>1 DEF Calls
  <2> QED
    BY <2>1, <2>2, <1>12, <1>1, <1>2 DEF Lose, MineHolds
<1>13. CASE Answered
  <2> SUFFICES ASSUME Field.edits, ~Field.cached, mine' # None
               PROVE  MineHolds'
    BY <1>2 DEF MineHolds
  <2>1. call' = None /\ seen' = call.res /\ rec' = rec /\ reading' = reading
    BY <1>13 DEF Answered
  <2>2. reading = None
    BY <1>13, <1>1, KindFacts DEF Answered, PageHolds
  <2>3. call.res = rec
    <3>1. CASE mine # None
      BY <3>1, <1>13, <1>1 DEF Answered, MineHolds
    <3>2. CASE mine = None
      <4>1. rec = call.shown /\ call.got = "done" /\ call # None
        BY <3>2, <1>13 DEF Answered
      <4>2. call.shown \in Field.values /\ call.value = Field.sends[call.shown]
        BY <4>1, <1>1, SoundFacts DEF Inv, CallHolds
      <4>3. call.value # None
        BY <4>2, <1>1, MeaningFacts, KindFacts
      <4> QED
        BY <4>1, <4>3 DEF Inv, CallHolds
    <3> QED
      BY <3>1, <3>2
  <2> QED
    BY <2>1, <2>2, <2>3 DEF MineHolds
<1>14. CASE Failed
  BY <1>14, <1>1, <1>2 DEF Failed, MineHolds
<1>15. CASE Others
  BY <1>15, <1>4 DEF Others
<1> QED
  BY <1>3, <1>5, <1>6, <1>7, <1>8, <1>9, <1>10, <1>11, <1>12, <1>13, <1>14, <1>15
     DEF Next, vars, Edit, Cancel, Type, Ask, FillDone, FillFail, Age, Check, Back, CacheExpires

LEMMA InitInv ==
    ASSUME Init
    PROVE  Inv
<1>1. scr \in DOMAIN Fields
  BY DEF Init
<1>2. Types
  <2>1. asked \in [Fills -> Field.values \cup {Left, None}]
    BY DEF Init, Idle
  <2>2. val \in Field.values \/ (Field.edits /\ ~open /\ val = Field.first)
    BY <1>1, ValueFacts DEF Init
  <2> QED
    BY <2>1, <2>2, <1>1 DEF Init, Types, Recs, FirstReading
<1>3. PageHolds
  BY <1>1, KindFacts DEF Init, PageHolds
<1>4. DraftHolds
  BY <1>1, ValueFacts, KindFacts DEF Init, DraftHolds
<1>5. AskedHolds
  BY DEF Init, Idle, AskedHolds, Awaits
<1>6. TypedHolds /\ SoundHolds /\ CallHolds /\ MineHolds
  BY DEF Init, TypedHolds, SoundHolds, CallHolds, MineHolds
<1>7. OwnHolds
  <2>1. CASE Field.creates
    BY <2>1, <1>1, ValueFacts, KindFacts, MeaningFacts DEF Init, OwnHolds, Unmeant
  <2>2. CASE ~Field.creates
    BY <2>2, <1>1, KindFacts DEF Init, OwnHolds, Unmeant
  <2> QED
    BY <2>1, <2>2
<1> QED
  BY <1>2, <1>3, <1>4, <1>5, <1>6, <1>7 DEF Inv

(* The invariant holds in every state.                                      *)
THEOREM Invariance == Spec => []Inv
<1>1. Init => Inv
  BY InitInv
<1>2. Inv /\ [Next]_vars => Inv'
  BY TypesStep, PageStep, DraftStep, AskedStep, TypedStep, SoundStep, OwnStep, CallStep, MineStep
     DEF Inv
<1>3. QED
  BY <1>1, <1>2, PTL DEF Spec

-----------------------------------------------------------------------------
(* The theorems.                                                           *)

(* Every variable of a form holds what it is declared to hold.              *)
THEOREM FormTypes == Spec => []TypeOK
<1>1. Inv => TypeOK
  <2> SUFFICES ASSUME Inv PROVE TypeOK
    OBVIOUS
  <2>1. Types /\ scr \in DOMAIN Fields
    BY DEF Inv, Types
  <2>2. hand \in Field.values \cup {None} /\ val \in Field.values \cup {Field.first}
    BY <2>1, ValueFacts DEF Types
  <2>3. call # None => call.value \in Field.values \cup {None} /\ call.shown \in Field.values
    BY DEF Inv, CallHolds, Calls
  <2>4. draft # None => draft.val \in Field.values
    BY DEF Inv, DraftHolds
  <2> QED
    BY <2>1, <2>2, <2>3, <2>4 DEF Types, TypeOK, Recs
<1>2. QED
  BY <1>1, Invariance, PTL

(* What a person has typed stays in the form until it is saved, replaced or  *)
(* given up, but for what OverwrittenIn names and what is read again.       *)
THEOREM TypedStays == Spec => []TypedIsShown
<1>1. Inv => TypedIsShown
  BY DEF Inv, TypedHolds, TypedIsShown
<1>2. QED
  BY <1>1, Invariance, PTL

(* What a form has let through its steps and checks the server accepts, but *)
(* for what RefusedIn names: later, from a draft, or filled in after the    *)
(* check.                                                                  *)
THEOREM SentAccepted == Spec => []SentIsAccepted
<1>1. Inv => SentIsAccepted
  BY DEF Inv, CallHolds, Sound, Field, SentIsAccepted, KnownRefusedForms
<1>2. QED
  BY <1>1, Invariance, PTL

(* A save stores what its person typed or asked for, leaves the rest as it   *)
(* is or was read, and undoes nothing the person has saved.                 *)
THEOREM SavedAsMeant == Spec => SavedIsMeant
<1>1. ASSUME Inv, [Next]_vars, Saved
      PROVE  IF Field.creates \/ call.own
             THEN /\ rec' = call.shown \/ KnownUnmeant
                  /\ call.own \/ call.shown \in Offered \/ KnownLeaked
             ELSE /\ rec' \in {rec, call.seen} \/ KnownGuess
                  /\ (mine # None /\ mine = rec) => rec' = rec \/ KnownUndone
  <2>1. Accept
    <3>1. call \in Calls(Field) /\ call.got = "sent" /\ call' # None /\ call'.got = "done"
      BY <1>1 DEF Saved, Inv, CallHolds
    <3>2. ASSUME call' = [call EXCEPT !.got = "failed"] PROVE FALSE
      BY <3>1, <3>2 DEF Calls
    <3>3. call' # call
      BY <3>1
    <3>4. ~Refuse /\ ~Lose
      BY <3>2 DEF Refuse, Lose
    <3> QED
      BY <3>1, <3>3, <3>4, <1>1
         DEF Saved, Next, vars, Serve, ReadDone, ReadFail, Again, Edit, Cancel, Age, Check, Back,
             Return, Type, Ask, FillDone, FillFail, Send, Answered, Failed, Others, CacheExpires,
             server, page, ghosts
  <2>2. /\ scr \in DOMAIN Fields /\ call # None /\ call.got = "sent" /\ rec' \in Results
        /\ call.shown \in Field.values /\ call.value = Field.sends[call.shown]
        /\ call.own \in BOOLEAN /\ (~call.own => Unmeant(call.shown, call.seen))
    BY <1>1, <2>1 DEF Accept, Saved, Inv, Types, CallHolds, Calls
  <2>3. /\ call.value # None => rec' = call.shown
        /\ call.value = None => rec' = IF Field.creates THEN "" ELSE rec
    BY <1>1, <2>2, ResultsAre
  <2>4. call.value = None =>
            IF Field.creates THEN call.shown = "" \/ (scr = "requestSlot" /\ call.shown = "hours alone")
            ELSE scr = "transporterCapacity" /\ call.shown = "" /\ Field.cached
    BY <2>2, MeaningFacts
  <2>5. CASE Field.creates \/ call.own
    <3>1. rec' = call.shown \/ KnownUnmeant
      BY <2>3, <2>4 DEF KnownUnmeant
    <3>2. call.own \/ call.shown \in Offered \/ KnownLeaked
      BY <2>2, <2>5 DEF Unmeant
    <3> QED
      BY <3>1, <3>2, <2>5
  <2>6. CASE ~Field.creates /\ ~call.own
    <3>1. IF call.seen = None THEN call.shown = Field.unread ELSE call.shown = call.seen
      BY <2>2, <2>6 DEF Unmeant
    <3>2. rec' \in {rec, call.seen} \/ KnownGuess
      BY <3>1, <2>3, <2>6 DEF KnownGuess
    <3>3. ASSUME mine # None, mine = rec PROVE rec' = rec \/ KnownUndone
      <4>1. CASE KnownUndone
        BY <4>1
      <4>2. CASE ~KnownUndone
        <5>1. Field.edits /\ ~Field.cached
          BY <4>2, <2>2, <2>6, KindFacts DEF KnownUndone
        <5>2. call.seen = rec /\ rec # None
          BY <5>1, <3>3, <2>2, <1>1 DEF Inv, MineHolds
        <5> QED
          BY <5>2, <3>1, <2>3, <2>6
      <4> QED
        BY <4>1, <4>2
    <3> QED
      BY <3>2, <3>3, <2>6
  <2> QED
    BY <2>5, <2>6
<1>2. Inv /\ [Next]_vars =>
          [Saved =>
              IF Field.creates \/ call.own
              THEN /\ rec' = call.shown \/ KnownUnmeant
                   /\ call.own \/ call.shown \in Offered \/ KnownLeaked
              ELSE /\ rec' \in {rec, call.seen} \/ KnownGuess
                   /\ (mine # None /\ mine = rec) => rec' = rec \/ KnownUndone]_vars
  BY <1>1
<1>3. QED
  BY <1>2, Invariance, PTL DEF Spec, SavedIsMeant
=============================================================================
