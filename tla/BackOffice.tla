----------------------------- MODULE BackOffice -----------------------------
(***************************************************************************)
(* The administrators' list screens and the endpoints they call.            *)
(***************************************************************************)
EXTENDS ListPage

-----------------------------------------------------------------------------
(* Missions: a filter and a search go to the server, the page is its own.   *)

JobStatus ==
    {"DRAFT", "PUBLISHED", "MATCHED", "IN_PROGRESS", "COMPLETED", "CANCELLED", "DISPUTED"}

JobTabs == {"PUBLISHED", "MATCHED", "IN_PROGRESS", "COMPLETED", "CANCELLED"}
JobsShows == AllAnd(JobTabs, JobStatus)
JobsCounts == JobsShows
JobsReads == [Plain EXCEPT !.server = TRUE, !.hides = TRUE]

(* The status to force is any that is not the row's; DISPUTED is no choice. *)
JobsOffers ==
    [s \in JobStatus |->
        (JobStatus \ {s, "DISPUTED"})
        \cup {a \in {"cancel"} : s \notin {"CANCELLED", "COMPLETED"}}]

JobsActs == [a \in (JobStatus \ {"DISPUTED"}) \cup {"cancel"} |-> Ask(Unlocked(Reread))]

VALID_TRANSITIONS ==
    [s \in JobStatus |->
        CASE s = "DRAFT" -> {"PUBLISHED", "CANCELLED"}
          [] s = "PUBLISHED" -> {"MATCHED", "CANCELLED", "DRAFT"}
          [] s = "MATCHED" -> {"IN_PROGRESS", "PUBLISHED", "CANCELLED"}
          [] s = "IN_PROGRESS" -> {"COMPLETED", "CANCELLED", "DISPUTED"}
          [] s = "COMPLETED" -> {}
          [] s = "CANCELLED" -> {"DRAFT"}
          [] s = "DISPUTED" -> {"IN_PROGRESS", "CANCELLED"}]

AdminJobCancel == Turns(JobStatus, JobStatus \ {"CANCELLED", "COMPLETED"}, "CANCELLED")
AdminJobForceStatus(to) == Turns(JobStatus, {s \in JobStatus : to \in VALID_TRANSITIONS[s]}, to)

JobsPage ==
    [shows |-> JobsShows, counts |-> JobsCounts, reads |-> JobsReads, offers |-> JobsOffers,
     acts |-> JobsActs, moves |-> VALID_TRANSITIONS,
     serves |-> [a \in DOMAIN JobsActs |->
                    IF a = "cancel" THEN AdminJobCancel ELSE AdminJobForceStatus(a)]]

(* A mission's own page reads once.                                        *)
JobDetailReads == [Plain EXCEPT !.hides = TRUE, !.blanks = TRUE]
JobDetailPage ==
    [shows |-> [c \in {"ALL"} |-> JobStatus], counts |-> NoCounts, reads |-> JobDetailReads,
     offers |-> [s \in JobStatus |-> {}], acts |-> NoActs, moves |-> VALID_TRANSITIONS,
     serves |-> NoActs]

(* The dashboard reads its figures, missions, activity and alerts together, *)
(* on a timer too, and shows nothing meanwhile.                            *)
DashboardReads == [Plain EXCEPT !.hides = TRUE, !.again = TRUE]
DashboardPage == [JobDetailPage EXCEPT !.reads = DashboardReads]

-----------------------------------------------------------------------------
(* Escrow rows.  What is blocked is FAILED to the server, BLOCKED to the    *)
(* page.                                                                   *)

EscrowStatus == {"INITIATED", "HELD", "RELEASED", "REFUNDED", "FAILED"}

PaymentTabs == [c \in {"ALL", "HELD", "RELEASED", "REFUNDED", "BLOCKED"} |->
                   IF c = "ALL" THEN EscrowStatus ELSE {c}]
PaymentCounts == [c \in DOMAIN PaymentTabs \ {"ALL"} |-> {c}]

(* Both the payments and the figures are waited for.                       *)
PaymentReads == [Plain EXCEPT !.hides = TRUE, !.blanks = TRUE]

PaymentOffers ==
    [s \in EscrowStatus |->
        {a \in {"release"} : s = "HELD"} \cup {a \in {"refund"} : s \in {"HELD", "BLOCKED"}}]
PaymentActs == [a \in {"release", "refund"} |-> Ask(Unlocked(Reread))]

AdminEscrowRelease == Turns(EscrowStatus, {"HELD"}, "RELEASED")
AdminEscrowRefund == Turns(EscrowStatus, {"HELD", "FAILED"}, "REFUNDED")

(* The webhook, and another administrator.                                 *)
EscrowMoves ==
    [s \in EscrowStatus |->
        CASE s = "INITIATED" -> {"HELD", "FAILED"}
          [] s = "HELD" -> {"RELEASED", "REFUNDED"}
          [] s = "FAILED" -> {"REFUNDED"}
          [] OTHER -> {}]

PaymentsPage ==
    [shows |-> PaymentTabs, counts |-> PaymentCounts, reads |-> PaymentReads,
     offers |-> PaymentOffers, acts |-> PaymentActs, moves |-> EscrowMoves,
     serves |-> [release |-> AdminEscrowRelease, refund |-> AdminEscrowRefund]]

-----------------------------------------------------------------------------
(* Disputes.                                                               *)

DisputeStatus == {"OPEN", "INVESTIGATING", "RESOLVED", "REJECTED"}
DisputeTabs == AllAnd({"OPEN", "INVESTIGATING", "RESOLVED"}, DisputeStatus)
DisputeCounts == DisputeTabs
DisputeReads == [Plain EXCEPT !.hides = TRUE, !.blanks = TRUE, !.again = TRUE]

DisputeOffers ==
    [s \in DisputeStatus |->
        {a \in {"investigate"} : s = "OPEN"}
        \cup {a \in {"resolve", "reject"} : s \in {"OPEN", "INVESTIGATING"}}]
DisputeActs ==
    [investigate |-> Unlocked(Reread), resolve |-> Ask(Unlocked(Reread)),
     reject |-> Ask(Unlocked(Reread))]

DISPUTE_TRANSITIONS ==
    [s \in DisputeStatus |->
        CASE s = "OPEN" -> {"INVESTIGATING"}
          [] s = "INVESTIGATING" -> {"RESOLVED", "REJECTED"}
          [] OTHER -> {}]
DisputeServes ==
    [a \in DOMAIN DisputeActs |->
        LET to == CASE a = "investigate" -> "INVESTIGATING"
                    [] a = "resolve" -> "RESOLVED"
                    [] a = "reject" -> "REJECTED"
        IN  Turns(DisputeStatus, {s \in DisputeStatus : to \in DISPUTE_TRANSITIONS[s]}, to)]

DisputesPage ==
    [shows |-> DisputeTabs, counts |-> DisputeCounts, reads |-> DisputeReads,
     offers |-> DisputeOffers, acts |-> DisputeActs, moves |-> DISPUTE_TRANSITIONS,
     serves |-> DisputeServes]

-----------------------------------------------------------------------------
(* Accounts: a role, and a mark where the account is suspended.             *)

ActiveUsers == {"CLIENT", "TRANSPORTER"}
SuspendedUsers == {"CLIENT SUSPENDED", "TRANSPORTER SUSPENDED"}
UserStatus == ActiveUsers \cup SuspendedUsers

Suspended(s) == IF s = "CLIENT" THEN "CLIENT SUSPENDED" ELSE "TRANSPORTER SUSPENDED"
Activated(s) == CHOOSE u \in ActiveUsers : Suspended(u) = s
OfRole(role) == {role, Suspended(role)}
Edit(s) == IF s \in OfRole("CLIENT") THEN "editToTransporter" ELSE "editToClient"

UserTabs == [c \in {"ALL"} \cup ActiveUsers |-> IF c = "ALL" THEN UserStatus ELSE OfRole(c)]
UserCounts == UserTabs
UserReads == [Plain EXCEPT !.server = TRUE, !.hides = TRUE]

(* A row is ticked whatever it is, and the bulk acts take every row ticked. *)
UserOffers ==
    [s \in UserStatus |->
        {"resetPassword", "bulkSuspend", "bulkActivate", Edit(s),
         IF s \in SuspendedUsers THEN "activate" ELSE "suspend"}]

(* A refusal closes the modal; the bulk acts read again in any case; the    *)
(* drawer keeps its form.                                                  *)
UserActs == AskOnce(Unlocked(Reread))
BulkActs == [Unlocked(Reread) EXCEPT !.always = TRUE]
EditActs == Ask(Unlocked(Reread))

AdminUserSuspend ==
    [s \in UserStatus |-> IF s \in ActiveUsers THEN {Suspended(s)} ELSE {}]

AdminUserActivate ==
    [s \in UserStatus |-> IF s \in SuspendedUsers THEN {Activated(s)} ELSE {}]
AdminUserResetPassword == [s \in UserStatus |-> {s}]
(* Of what the form holds, the role is what tells the rows apart; a form    *)
(* that changes nothing is refused.                                        *)
AdminUserEdit(role) ==
    [s \in UserStatus |->
        {u \in OfRole(role) \ {s} : s \notin OfRole(role)
                                     /\ (u \in SuspendedUsers <=> s \in SuspendedUsers)}]

UsersPage ==
    [shows |-> UserTabs, counts |-> UserCounts, reads |-> UserReads, offers |-> UserOffers,
     acts |-> [suspend |-> UserActs, activate |-> UserActs, resetPassword |-> UserActs,
               bulkSuspend |-> BulkActs, bulkActivate |-> BulkActs,
               editToClient |-> EditActs, editToTransporter |-> EditActs],
     moves |-> [s \in UserStatus |-> AdminUserSuspend[s] \cup AdminUserActivate[s]],
     serves |-> [suspend |-> AdminUserSuspend, bulkSuspend |-> AdminUserSuspend,
                 activate |-> AdminUserActivate, bulkActivate |-> AdminUserActivate,
                 resetPassword |-> AdminUserResetPassword,
                 editToClient |-> AdminUserEdit("CLIENT"),
                 editToTransporter |-> AdminUserEdit("TRANSPORTER")]]

-----------------------------------------------------------------------------
(* Verification: requests, profiles, and the documents of one profile.      *)

RequestStatus == {"PENDING_REVIEW", "APPROVED", "REJECTED"}
RequestTabs == AllAnd(RequestStatus, RequestStatus)
VerificationReads == [Plain EXCEPT !.hides = TRUE]
Mut_RequestOffers == [s \in RequestStatus |-> {"approve", "reject"}]

RequestOffers ==
    [s \in RequestStatus |-> IF s = "PENDING_REVIEW" THEN {"approve", "reject"} ELSE {}]

RequestActs == [approve |-> Unlocked(Reread), reject |-> AskOnce(Unlocked(Reread))]
AdminVerificationApprove == Turns(RequestStatus, {"PENDING_REVIEW"}, "APPROVED")
AdminVerificationReject == Turns(RequestStatus, {"PENDING_REVIEW"}, "REJECTED")

RequestsPage ==
    [shows |-> RequestTabs, counts |-> RequestTabs, reads |-> VerificationReads,
     offers |-> RequestOffers, acts |-> RequestActs,
     moves |-> [s \in RequestStatus |-> AdminVerificationApprove[s] \cup AdminVerificationReject[s]],
     serves |-> [approve |-> AdminVerificationApprove, reject |-> AdminVerificationReject]]

(* A document is the last of its type, or an older one: the drawer keeps    *)
(* one card for each type, the last.  Nothing takes a document away.        *)
LatestDocs == {"pending", "approved", "rejected"}
OlderDocs == {"pending (older)", "approved (older)", "rejected (older)"}
DocStatus == LatestDocs \cup OlderDocs
Older(s) ==
    CASE s = "pending" -> "pending (older)"
      [] s = "approved" -> "approved (older)"
      [] s = "rejected" -> "rejected (older)"

groupDocuments == [c \in {"ALL"} |-> LatestDocs]

(* The progress bar counts every document.                                  *)
DocProgress == [c \in {"ALL"} |-> DocStatus]
DocReads == [Plain EXCEPT !.hides = TRUE]
DocOffers ==
    [s \in DocStatus |->
        {a \in {"approve"} : s \notin {"approved", Older("approved")}}
        \cup {a \in {"reject"} : s \notin {"rejected", Older("rejected")}}]
DocActs == [approve |-> Unlocked(Write), reject |-> AskOnce(Unlocked(Write))]

Reviewed(to) == [s \in DocStatus |-> {IF s \in LatestDocs THEN to ELSE Older(to)}]
AdminDocumentReview == [approve |-> Reviewed("approved"), reject |-> Reviewed("rejected")]

(* The transporter uploads another document of the type.                    *)
DocMoves ==
    [s \in DocStatus |->
        Reviewed("approved")[s] \cup Reviewed("rejected")[s]
        \cup {Older(u) : u \in LatestDocs \cap {s}}]

DocumentsPage ==
    [shows |-> groupDocuments, counts |-> DocProgress, reads |-> DocReads, offers |-> DocOffers,
     acts |-> DocActs, moves |-> DocMoves, serves |-> AdminDocumentReview]

(* A profile follows its documents, suspended or not; what the drawer       *)
(* reviews has the profiles read again.                                    *)
ProfileStatus ==
    {"UNVERIFIED", "PENDING", "PARTIALLY_REVIEWED", "VERIFIED", "REJECTED", "SUSPENDED"}
ProfileTabs == AllAnd(ProfileStatus \ {"SUSPENDED"}, ProfileStatus)
ProfileOffers == [s \in ProfileStatus |-> {"approveDocument", "rejectDocument"}]
ProfileActs ==
    [a \in {"approveDocument", "rejectDocument"} |-> Ask(Unlocked(Reread))]
recalculate_profile_status ==
    [approveDocument |-> [s \in ProfileStatus |-> {"VERIFIED", "PARTIALLY_REVIEWED", "REJECTED"}],
     rejectDocument |-> [s \in ProfileStatus |-> {"REJECTED"}]]

SubmitTrustProfile == [s \in ProfileStatus |-> IF s \in {"UNVERIFIED", "REJECTED"} THEN {"PENDING"} ELSE {}]

ProfilesPage ==
    [shows |-> ProfileTabs, counts |-> ProfileTabs, reads |-> VerificationReads,
     offers |-> ProfileOffers, acts |-> ProfileActs,
     moves |-> [s \in ProfileStatus |->
                  SubmitTrustProfile[s] \cup {u \in {"VERIFIED", "SUSPENDED"} : u # s}],
     serves |-> recalculate_profile_status]

-----------------------------------------------------------------------------
(* Reviews: the server turns a review over, whatever the page has seen.     *)

ReviewStatus == {"VISIBLE", "HIDDEN"}
ReviewTabs == AllAnd(ReviewStatus, ReviewStatus)
ReviewReads == [Plain EXCEPT !.hides = TRUE]
ReviewOffers == [s \in ReviewStatus |-> {"toggle", "warn"}]

(* The warning is opened without the user it is for.                        *)
ReviewActs == [toggle |-> Unlocked(Reread), warn |-> [Ask(Forget) EXCEPT !.mute = TRUE]]
AdminReviewToggleVisibility == [s \in ReviewStatus |-> ReviewStatus \ {s}]
AdminUserWarn == [s \in ReviewStatus |-> {s}]

ReviewsPage ==
    [shows |-> ReviewTabs, counts |-> ReviewTabs, reads |-> ReviewReads, offers |-> ReviewOffers,
     acts |-> ReviewActs, moves |-> AdminReviewToggleVisibility,
     serves |-> [toggle |-> AdminReviewToggleVisibility, warn |-> AdminUserWarn]]

-----------------------------------------------------------------------------
(* Commission debts: the transporters who owe.  Settling takes every row    *)
(* the server finds.                                                       *)

DebtStatus == {"clear", "owes", "owes more"}
DebtList == [c \in {"ALL"} |-> {"owes", "owes more"}]
DebtReads == [Plain EXCEPT !.again = TRUE]
DebtOffers == [s \in DebtStatus |-> {a \in {"settle"} : s # "clear"}]
DebtActs == [settle |-> AskOnce(Reread)]
AdminDebtSettle == Turns(DebtStatus, {"owes", "owes more"}, "clear")
DebtMoves ==
    [s \in DebtStatus |-> CASE s = "clear" -> {"owes"} [] s = "owes" -> {"owes more", "clear"}
                          [] s = "owes more" -> {"clear"}]

DebtsPage ==
    [shows |-> DebtList, counts |-> DebtList, reads |-> DebtReads, offers |-> DebtOffers,
     acts |-> DebtActs, moves |-> DebtMoves, serves |-> [settle |-> AdminDebtSettle]]

-----------------------------------------------------------------------------
(* The audit log: entries are written, never changed.                       *)

AuditStatus == {"absent", "JOB_CANCELLED", "USER_SUSPENDED"}
AuditFilter == AllAnd(AuditStatus \ {"absent"}, AuditStatus \ {"absent"})
AuditReads == [Plain EXCEPT !.server = TRUE, !.hides = TRUE, !.blanks = TRUE]

AuditPage ==
    [shows |-> AuditFilter, counts |-> NoCounts, reads |-> AuditReads,
     offers |-> [s \in AuditStatus |-> {}], acts |-> NoActs, serves |-> NoActs,
     moves |-> [s \in AuditStatus |-> IF s = "absent" THEN AuditStatus \ {s} ELSE {}]]
=============================================================================
