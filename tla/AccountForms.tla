---------------------------- MODULE AccountForms ----------------------------
(***************************************************************************)
(* The forms of an account: settings, profiles, passwords, addresses, and   *)
(* the panels of the phone.                                                *)
(***************************************************************************)
EXTENDS FormPage

(* What a text is: empty, as it was, another person's or device's, typed.   *)
Text == {"", "saved", "theirs", "mine"}
TextTypes == {"", "mine"}
TextRecords == {"", "saved", "theirs"}
Switch == {"on", "off"}

-----------------------------------------------------------------------------
(* The account page.  It reads the profile and the preferences, and reads   *)
(* them again when the session's user changes, which it does when the       *)
(* session is restored.  Of the profile it saves the language alone.        *)

fetchProfile(values, types, shown) ==
    [Change(values, types, values) EXCEPT
        !.reads = "beside", !.first = shown, !.unread = shown, !.again = TRUE]

(* The switches are there before they are read, as the page was written,    *)
(* and a save sends them all.                                              *)
notificationDefaults == "on"
AccountNotifications == fetchProfile(Switch, Switch, notificationDefaults)

(* French is the one language offered; the phone may have saved another.    *)
AccountLanguage == fetchProfile({"fr", "ar"}, {"fr"}, "fr")

(* A new password: the page wants it twice and the server wants it long     *)
(* enough and not a common one.                                            *)
PasswordValues == {"", "good", "common", "short", "mismatch"}
Password(checks, refused) ==
    [Creation(PasswordValues, PasswordValues) EXCEPT
        !.checks = checks, !.stores = Refusing(PasswordValues, refused \cup {"", "mismatch"})]
changePassword == Password({"good", "common", "short"}, {"common", "short"})
resetPassword == Password({"good", "common"}, {"short"})

AccountPageFields ==
    [accountNotifications |-> AccountNotifications, accountLanguage |-> AccountLanguage,
     accountPassword |-> changePassword, resetPassword |-> resetPassword]

-----------------------------------------------------------------------------
(* The profile pages.  The whole form is saved, the fields not touched as   *)
(* they were read.  A transporter's profile is read through a cache.        *)

ClientEdition(values, types, records) == Edition(values, types, records)
TransporterEdition(values, types, records) ==
    [Edition(values, types, records) EXCEPT !.cached = TRUE]

NameValues == {"short", "saved", "theirs", "mine"}
validateName == NameValues \ {"short"}
NameTypes == {"short", "mine"}
ClientName ==
    [ClientEdition(NameValues, NameTypes, {"saved", "theirs"}) EXCEPT !.checks = validateName]
TransporterName ==
    [TransporterEdition(NameValues, NameTypes, {"saved", "theirs"}) EXCEPT !.checks = validateName]

(* A telephone number is unique, and an empty one is a number like another: *)
(* somebody has it already.                                                *)
PhoneValues == Text \cup {"wrong"}
validatePhone == Text
PhoneStored == Refusing(PhoneValues, {"", "wrong"})
ClientPhone ==
    [ClientEdition(PhoneValues, TextTypes \cup {"wrong"}, TextRecords) EXCEPT
        !.checks = validatePhone, !.stores = PhoneStored]
TransporterPhone ==
    [TransporterEdition(PhoneValues, TextTypes \cup {"wrong"}, TextRecords) EXCEPT
        !.checks = validatePhone, !.stores = PhoneStored]

ClientBio == ClientEdition(Text, TextTypes, TextRecords)
ClientAddress == ClientEdition(Text, TextTypes, TextRecords)
TransporterBio == TransporterEdition(Text, TextTypes, TextRecords)
TransporterVehicle == TransporterEdition(Text, TextTypes, TextRecords)
TransporterAreas == TransporterEdition(Text, TextTypes, TextRecords)

(* The capacity is sent where there is one, and the server holds one        *)
(* decimal of it.                                                          *)
LoadValues == Text \cup {"zero", "two decimals"}
LoadSent == [v \in LoadValues |-> IF v = "" THEN None ELSE v]
TransporterCapacity ==
    [TransporterEdition(LoadValues, TextTypes \cup {"zero", "two decimals"}, TextRecords) EXCEPT
        !.checks = LoadValues \ {"zero"}, !.sends = LoadSent,
        !.stores = Refusing(LoadValues, {"zero", "two decimals"})]

SpecsValues == Text \cup {"long"}
TransporterSpecs ==
    [TransporterEdition(SpecsValues, TextTypes \cup {"long"}, TextRecords) EXCEPT
        !.stores = Refusing(SpecsValues, {"long"})]

(* A photograph of the vehicle is put in when it has been sent, and saved    *)
(* with the rest.                                                          *)
handleVehicleCropped == Overwrites(TRUE, Text, {"mine"})
TransporterPhoto ==
    [TransporterEdition(Text, {}, TextRecords) EXCEPT
        !.fills = [upload |-> handleVehicleCropped]]

ProfilePageFields ==
    [clientName |-> ClientName, clientPhone |-> ClientPhone, clientBio |-> ClientBio,
     clientAddress |-> ClientAddress, transporterName |-> TransporterName,
     transporterPhone |-> TransporterPhone, transporterBio |-> TransporterBio,
     transporterVehicle |-> TransporterVehicle, transporterCapacity |-> TransporterCapacity,
     transporterAreas |-> TransporterAreas, transporterSpecs |-> TransporterSpecs,
     transporterPhoto |-> TransporterPhoto]

-----------------------------------------------------------------------------
(* The address book: a name is given once.                                  *)

LabelValues == Text \cup {"taken"}
enregistrer(form) ==
    [form EXCEPT !.checks = LabelValues \ {""}, !.stores = Refusing(LabelValues, {"", "taken"})]
AddressLabel == enregistrer(Creation(LabelValues, {"", "mine", "taken"}))
PhoneLabel == AddressLabel

-----------------------------------------------------------------------------
(* The panels of the phone.                                                 *)

(* The profile is that of the session, and asks for every field.           *)
EditProfileForm ==
    [Edition(Text, TextTypes, {"saved", "theirs"}) EXCEPT !.checks = Text \ {""}]

ChangePasswordForm == Password({"good", "common"}, {"common", "short"})
ResetPasswordForm == Password({"good", "common"}, {"short"})

(* The switches are hidden until they are read, and copied once.            *)
NotificationPrefsForm == Edition(Switch, Switch, Switch)

(* The areas served are read through the server's cache, and each answer    *)
(* takes the place of the selection.                                       *)
ServiceAreasPanel ==
    [Change(Text, TextTypes, TextRecords) EXCEPT !.again = TRUE, !.cached = TRUE]

DocumentValues == {"", "no image", "wrong date", "good"}
AddDocumentSheet ==
    [Creation(DocumentValues, DocumentValues) EXCEPT
        !.checks = {"wrong date", "good"}, !.stores = Refusing(DocumentValues, {"", "no image", "wrong date"})]

AmountValues == {"", "below the minimum", "good", "above the balance"}
WithdrawalSheet ==
    [Creation(AmountValues, AmountValues) EXCEPT
        !.checks = {"good", "above the balance"},
        !.stores = Refusing(AmountValues, AmountValues \ {"good"})]

DisputeValues == {"", "short", "good", "too long"}
OpenDisputeSheet ==
    [Creation(DisputeValues, DisputeValues) EXCEPT
        !.checks = {"good", "too long"}, !.stores = Refusing(DisputeValues, DisputeValues \ {"good"})]

RatingValues == {"", "rated"}
OpenReviewSheet == [Creation(RatingValues, {"rated"}) EXCEPT !.checks = {"rated"}]

PanelFields ==
    [addressLabel |-> AddressLabel, phoneLabel |-> PhoneLabel, phoneProfile |-> EditProfileForm,
     phonePassword |-> ChangePasswordForm, phoneReset |-> ResetPasswordForm,
     phoneNotifications |-> NotificationPrefsForm, phoneAreas |-> ServiceAreasPanel,
     phoneDocument |-> AddDocumentSheet, phoneWithdrawal |-> WithdrawalSheet,
     phoneDispute |-> OpenDisputeSheet, phoneReview |-> OpenReviewSheet]

AccountFields ==
    [p \in DOMAIN AccountPageFields \cup DOMAIN ProfilePageFields \cup DOMAIN PanelFields |->
        IF p \in DOMAIN AccountPageFields THEN AccountPageFields[p]
        ELSE IF p \in DOMAIN ProfilePageFields THEN ProfilePageFields[p] ELSE PanelFields[p]]
=============================================================================
