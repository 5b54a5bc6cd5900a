---------------------------- MODULE PublishForms ----------------------------
(***************************************************************************)
(* The forms that publish: a client's request on the web, in steps and with *)
(* a draft, and a transporter's return trip on the web and on the phone.    *)
(***************************************************************************)
EXTENDS FormPage

Answers(values) == values \ {""}

-----------------------------------------------------------------------------
(* A client's request.  The form is one draft; each step lets through what  *)
(* it has checked, the last shows everything and sends it.                 *)

Request(values, types) == [Creation(values, types) EXCEPT !.draft = TRUE]

StepType == [Request({"", "TRANSPORT", "MOVING"}, {"TRANSPORT", "MOVING"})
                EXCEPT !.early = {"TRANSPORT", "MOVING"}]

(* Where it goes: written, picked in a list or from the address book, given *)
(* by the link that led here, or by the position of the device, whose       *)
(* address may be longer than the server holds.                            *)
Position(values, found) ==
    LET put(was, now) == {now} \cup found IN Fill(TRUE, values, put)

AddressValues == {"", "mine", "book", "long", "located"}
AddressTypes == AddressValues \ {"located"}
AddressGps == [gps |-> Position(AddressValues, {"located", "long"})]
AddressStored == Refusing(AddressValues, {"", "long"})
StepAddress ==
    [Request(AddressValues, AddressTypes) EXCEPT
        !.early = Answers(AddressValues), !.fills = AddressGps, !.stores = AddressStored]

GovernorateValues == {"", "mine", "book", "linked", "located"}
StepGovernorate ==
    [Request(GovernorateValues, {"", "mine", "book"}) EXCEPT
        !.early = Answers(GovernorateValues), !.first = "linked",
        !.fills = [gps |-> Position(GovernorateValues, {"located"})]]

HintValues == {"", "mine", "suggested", "mine and suggested"}
addHintChip ==
    [v \in HintValues |->
        ({"", "mine"} \ {v}) \cup {IF v \in {"", "suggested"} THEN "suggested" ELSE "mine and suggested"}]
StepHint == [Request(HintValues, {}) EXCEPT !.types = addHintChip]

(* What is to be carried.  The details of the two kinds of mission are one  *)
(* record: those of the kind no longer chosen stay in it, and are sent.     *)
SpecificationValues == {"", "moving", "transport", "moving and transport"}
updateFormData ==
    [v \in SpecificationValues |->
        CASE v = "" -> {"moving", "transport"}
          [] v \in {"moving", "transport"} -> {"moving and transport"}
          [] OTHER -> {}]
StepSpecifications == [Request(SpecificationValues, {}) EXCEPT !.types = updateFormData]

StepDescription == Request({"", "mine"}, {"", "mine"})

(* Photographs: one is there, one is sent to the server.  Its answer is put *)
(* after the photographs that were there when it was sent.                 *)
PhotoValues == {"", "old", "new", "old and new"}
handleFiles ==
    LET put(was, now) == {IF was \in {"old", "old and new"} THEN "old and new" ELSE "new"}
    IN  Fill(TRUE, PhotoValues, put)

removePhoto ==
    [v \in PhotoValues |->
        CASE v = "" -> {} [] v = "old and new" -> {"old", "new"} [] OTHER -> {""}]
(* A photograph taken away is to stay away; another may be added.           *)
photosChosen ==
    [v \in PhotoValues |->
        CASE v = "" -> {"", "new"} [] v = "old" -> {"old", "old and new"} [] OTHER -> {v}]
StepPhotos ==
    [Request(PhotoValues, {}) EXCEPT
        !.first = "old", !.types = removePhoto, !.likes = photosChosen,
        !.fills = [upload |-> handleFiles]]

(* When: at least a day ahead, tested on the way to the preview only; the   *)
(* server wants it to come.                                                *)
ScheduleValues == {"", "past", "soon", "later"}
ScheduleAges == [v \in ScheduleValues |->
                    CASE v = "later" -> "soon" [] v = "soon" -> "past" [] OTHER -> v]
validateStep == {"later"}
StepSchedule ==
    [Request(ScheduleValues, ScheduleValues) EXCEPT
        !.early = validateStep, !.ages = ScheduleAges,
        !.stores = Refusing(ScheduleValues, {"", "past"})]

(* For how much: no minimum above its maximum, or nothing.  An estimate is  *)
(* put in where nothing stood when it was asked for.                       *)
BudgetValues == {"", "mine", "wrong", "estimate"}
fetchEstimate == IfWasEmpty(BudgetValues, {"estimate"})
BudgetSent == [v \in BudgetValues |-> IF v = "" THEN None ELSE v]
StepBudget ==
    [Request(BudgetValues, {"", "mine", "wrong"}) EXCEPT
        !.early = BudgetValues \ {"wrong"}, !.fills = [estimate |-> fetchEstimate],
        !.sends = BudgetSent]

RequestFields ==
    [demandType |-> StepType, demandAddress |-> StepAddress, demandGovernorate |-> StepGovernorate,
     demandHint |-> StepHint, demandSpecifications |-> StepSpecifications,
     demandDescription |-> StepDescription, demandPhotos |-> StepPhotos,
     demandSchedule |-> StepSchedule, demandBudget |-> StepBudget]

-----------------------------------------------------------------------------
(* A return trip on the web.  The link at the end of a mission fills in the *)
(* corridor and the day, the profile the vehicle and its capacity.          *)

Trip(values, types) == [Creation(values, types) EXCEPT !.checks = Answers(values)]

CorridorValues == {"", "mine", "linked", "same ends"}
canSubmit == CorridorValues \ {"", "same ends"}
TripCorridor == [Trip(CorridorValues, {"", "mine"}) EXCEPT !.first = "linked", !.checks = canSubmit]

DepartureValues == {"", "today", "later", "past"}
DepartureAges == [v \in DepartureValues |->
                    CASE v = "later" -> "today" [] v = "today" -> "past" [] OTHER -> v]
DepartureStored == Refusing(DepartureValues, {"", "past"})
TripDeparture ==
    [Trip(DepartureValues, DepartureValues) EXCEPT
        !.first = "today", !.ages = DepartureAges, !.stores = DepartureStored]

(* The kind of vehicle is the first whose name is in the profile's: a small *)
(* van (camionnette) is filled in as a lorry (camion).                      *)
VehicleLabels == {"camion", "camionnette", "other"}
typeFromLabel == [p \in VehicleLabels |-> IF p = "other" THEN "" ELSE "camion"]
VehicleValues == {"", "camion", "camionnette"}
vehiclePrefill ==
    IfEmpty(VehicleValues, {typeFromLabel[p] : p \in VehicleLabels})

TripVehicle == [Trip(VehicleValues, {"camion", "camionnette"})
                    EXCEPT !.fills = [profile |-> vehiclePrefill]]

(* What is left: the text, and the figure of the share that was pressed,    *)
(* which writing by hand takes away.                                       *)
CapacityValues == {"", "profile", "tout", "moitie", "by hand"}
capaciteLibre == {"", "by hand"}
CapacitySent == [v \in CapacityValues |-> IF v = "" THEN None ELSE v]
TripCapacity ==
    [Creation(CapacityValues, capaciteLibre \cup {"tout", "moitie"}) EXCEPT
        !.sends = CapacitySent, !.likes[""] = {"", "profile"},
        !.fills = [profile |-> IfEmpty(CapacityValues, {"", "profile"})]]

TripPrice == [Creation({"", "mine"}, {"", "mine"}) EXCEPT
                 !.sends = [v \in {"", "mine"} |-> IF v = "" THEN None ELSE v]]
TripText == Creation({"", "mine"}, {"", "mine"})
TripInstant == Creation({"", "instant"}, {"", "instant"})

TripFields ==
    [tripCorridor |-> TripCorridor, tripDeparture |-> TripDeparture, tripVehicle |-> TripVehicle,
     tripCapacity |-> TripCapacity, tripPrice |-> TripPrice, tripText |-> TripText,
     tripInstant |-> TripInstant]

-----------------------------------------------------------------------------
(* A return trip on the phone: its schema tests the prices and not the date. *)

publishSchema(values, types, bad) ==
    [Creation(values, types) EXCEPT !.checks = values \ bad]

PhoneCorridor == [publishSchema(CorridorValues, {"mine", "same ends"}, {""}) EXCEPT !.first = "linked"]
PhoneDeparture ==
    [publishSchema(DepartureValues, DepartureValues \ {""}, {""}) EXCEPT
        !.ages = DepartureAges, !.stores = DepartureStored]

PriceValues == {"", "mine", "wrong", "estimate"}
onEstimate == Overwrites(TRUE, PriceValues, {"estimate"})
PhonePrice ==
    [publishSchema(PriceValues, {"", "mine", "wrong"}, {"", "wrong"}) EXCEPT
        !.fills = [estimate |-> onEstimate]]

PhoneAddress ==
    [publishSchema({"", "mine", "book", "long"}, {"", "mine", "book", "long"}, {}) EXCEPT
        !.stores = Refusing({"", "mine", "book", "long"}, {"long"})]
onChoisirPart == capaciteLibre \cup {"tout", "moitie"}
PhoneCapacity ==
    [publishSchema(CapacityValues, onChoisirPart, {}) EXCEPT !.sends = CapacitySent]

PhoneTripFields ==
    [phoneCorridor |-> PhoneCorridor, phoneDeparture |-> PhoneDeparture,
     phonePrice |-> PhonePrice, phoneAddress |-> PhoneAddress, phoneCapacity |-> PhoneCapacity]

-----------------------------------------------------------------------------
(* A client's request on a return trip, on the phone.  The sheet stays       *)
(* mounted under the search: only what it shows is reset when it is closed. *)

SendRequestSheet(values, types, bad) == [publishSchema(values, types, bad) EXCEPT !.kept = TRUE]
Omitting(values, left) == [v \in values |-> IF v \in left THEN None ELSE v]

(* The trip's capacity is shown above the field, and the server compares.   *)
WeightValues == {"", "mine", "above the capacity", "wrong"}
RequestWeight ==
    [SendRequestSheet(WeightValues, WeightValues, {"wrong"}) EXCEPT
        !.sends = Omitting(WeightValues, {""}),
        !.stores = Refusing(WeightValues, {"above the capacity", "wrong"})]
RequestGoods == SendRequestSheet({"", "mine"}, {"", "mine"}, {""})

(* Three choices: hours without a day make no slot, and are left out.       *)
SlotValues == {"", "day alone", "hours alone", "slot", "backwards"}
RequestSlot ==
    [SendRequestSheet(SlotValues, SlotValues, {"day alone", "backwards"}) EXCEPT
        !.sends = Omitting(SlotValues, {"", "hours alone"}),
        !.stores = Refusing(SlotValues, {"backwards"})]

PickupValues == {"", "mine", "book", "no governorate", "long"}
RequestPickup ==
    [SendRequestSheet(PickupValues, PickupValues, {"no governorate"}) EXCEPT
        !.sends = Omitting(PickupValues, {""}), !.stores = Refusing(PickupValues, {"long"})]

(* Cash, the choice the sheet opens with, has a ceiling the server tests.   *)
ProposedValues == {"", "mine", "zero", "above the cash ceiling", "wrong"}
RequestPrice ==
    [SendRequestSheet(ProposedValues, ProposedValues, {"", "wrong"}) EXCEPT
        !.stores = Refusing(ProposedValues, {"zero", "above the cash ceiling"})]

(* A photograph is put after those that are there when its answer comes.    *)
ajouterPhotos ==
    LET Adds(p, now) == {IF now \in {"", p} THEN p ELSE "old and new"}
        put(was, now) ==
            CASE was \in {"", Left} -> Adds("old", now)
              [] was = "old" -> Adds("new", now)
              [] OTHER -> {IF now = "" THEN "new" ELSE now}
    IN  Fill(TRUE, PhotoValues, put)
RequestPhotos ==
    [SendRequestSheet(PhotoValues, {}, {}) EXCEPT
        !.types = removePhoto, !.likes = photosChosen, !.fills = [upload |-> ajouterPhotos],
        !.sends = Omitting(PhotoValues, {""})]

SheetFields ==
    [requestWeight |-> RequestWeight, requestGoods |-> RequestGoods, requestSlot |-> RequestSlot,
     requestPickup |-> RequestPickup, requestPrice |-> RequestPrice,
     requestPhotos |-> RequestPhotos]

PublishFields ==
    [p \in DOMAIN RequestFields \cup DOMAIN TripFields \cup DOMAIN PhoneTripFields
             \cup DOMAIN SheetFields |->
        IF p \in DOMAIN RequestFields THEN RequestFields[p]
        ELSE IF p \in DOMAIN TripFields THEN TripFields[p]
        ELSE IF p \in DOMAIN PhoneTripFields THEN PhoneTripFields[p] ELSE SheetFields[p]]
=============================================================================
