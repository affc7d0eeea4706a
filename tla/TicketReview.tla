---------------------------- MODULE TicketReview ----------------------------
(***************************************************************************)
(* What becomes of a support ticket: the investigation that proposes a fix *)
(* (backend .../support-investigation.service.js), the human review of it  *)
(* (.../support-admin.service.js) and the dashboard the administrators     *)
(* work on (webapp .../admin/support-admin-screen.component.ts).           *)
(* Investigation and review are rows of statements without a transaction,  *)
(* and none of them looks at the status it replaces.  Several              *)
(* administrators may have the same ticket on their screens; a screen      *)
(* shows what it read when the ticket was selected.  Any of the statements *)
(* and requests may fail; the dashboard does not catch the failure.        *)
(***************************************************************************)
EXTENDS Naturals, Sequences

CONSTANTS
    Admins,            \* the administrators with the dashboard open
    MaxInvestigations, \* bound: investigations of the ticket
    MaxReviews,        \* bound: reviews of it
    MaxPatches,        \* bound: patches of it
    MaxFailures,       \* bound: requests that fail
    Blank, Typed       \* two texts: nothing, and what an administrator wrote

VARIABLES
    ticket,    \* [status, review, fix]
    recommendations, \* the rows of supportRecommendation, oldest first
    screen,    \* screen[a]: what the dashboard of a holds; while busy the
               \* button of the investigation is disabled
    call,      \* call[a]: the request of a the service is working on
    spent,     \* [investigations, reviews, patches, failures]: how many
               \* there were
    sent       \* the texts that came with an approval, an edit or a patch

vars == <<ticket, recommendations, screen, call, spent, sent>>

(* The text of the k-th recommendation is the number k.                    *)
Texts == {Blank, Typed} \cup 1 .. MaxInvestigations

Statuses == {"NEW", "WAITING_FOR_HUMAN_REVIEW", "ACTION_APPROVED",
             "ACTION_REJECTED", "CLOSED"}
Reviews == {"PENDING", "PENDING_REVIEW", "APPROVED", "REJECTED"}
ReviewActions == {"approve", "reject", "edit"}

Idle == [at |-> "none", action |-> "edit", text |-> Blank, row |-> 0,
         decision |-> "PENDING"]

Opened == [selected |-> FALSE, draft |-> Blank, busy |-> "no"]

Init ==
    /\ ticket = [status |-> "NEW", review |-> "PENDING", fix |-> Blank]
    /\ recommendations = << >>
    /\ screen = [a \in Admins |-> Opened]
    /\ call = [a \in Admins |-> Idle]
    /\ spent = [investigations |-> 0, reviews |-> 0, patches |-> 0, failures |-> 0]
    /\ sent = {}

-----------------------------------------------------------------------------
(* The dashboard.                                                          *)

(* What a screen holds after getTicket(): the proposed fix becomes the     *)
(* draft.                                                                  *)
Shown(s) == [s EXCEPT !.selected = TRUE, !.draft = ticket.fix]

Answered(s) == [Shown(s) EXCEPT !.busy = IF s.busy = "running" THEN "no" ELSE s.busy]

SelectTicket(a) ==
    /\ call[a].at = "none"
    /\ screen' = [screen EXCEPT ![a] = Shown(@)]
    /\ UNCHANGED <<ticket, recommendations, call, spent, sent>>

(* The textarea is bound to the draft.                                     *)
TypeRecommendation(a) ==
    /\ screen[a].selected
    /\ call[a].at = "none"
    /\ screen' = [screen EXCEPT ![a].draft = Typed]
    /\ UNCHANGED <<ticket, recommendations, call, spent, sent>>

InvestigateSelectedTicket(a) ==
    /\ screen[a].selected
    /\ screen[a].busy = "no"
    /\ call[a].at = "none"
    /\ spent.investigations < MaxInvestigations
    /\ screen' = [screen EXCEPT ![a].busy = "running"]
    /\ call' = [call EXCEPT ![a].at = "recommend"]
    /\ spent' = [spent EXCEPT !.investigations = @ + 1]
    /\ UNCHANGED <<ticket, recommendations, sent>>

(* The dashboard is opened anew.                                           *)
NgOnInit(a) ==
    /\ screen[a].busy = "left"
    /\ call[a].at = "none"
    /\ screen' = [screen EXCEPT ![a] = Opened]
    /\ UNCHANGED <<ticket, recommendations, call, spent, sent>>

(* The review sends the draft along, whatever the action.                  *)
ReviewSelectedTicket(a, action) ==
    /\ screen[a].selected
    /\ call[a].at = "none"
    /\ spent.reviews < MaxReviews
    /\ call' = [call EXCEPT ![a] = [Idle EXCEPT !.at = "latest", !.action = action,
                                                !.text = screen[a].draft]]
    /\ spent' = [spent EXCEPT !.reviews = @ + 1]
    /\ sent' = IF action = "reject" THEN sent ELSE sent \cup {screen[a].draft}
    /\ UNCHANGED <<ticket, recommendations, screen>>

-----------------------------------------------------------------------------
(* investigateTicket().                                                    *)

(* The ticket has been read and its logs analysed: the investigation and   *)
(* its recommendation are stored ...                                       *)
CreateRecommendation(a) ==
    /\ call[a].at = "recommend"
    /\ recommendations' = Append(recommendations,
                                 [text |-> Len(recommendations) + 1,
                                  status |-> "PENDING_REVIEW"])
    /\ call' = [call EXCEPT ![a].at = "propose", ![a].row = Len(recommendations) + 1]
    /\ UNCHANGED <<ticket, screen, spent, sent>>

(* ... and the ticket waits for a human, whatever it was before.           *)
ProposeFix(a) ==
    /\ call[a].at = "propose"
    /\ ticket' = [status |-> "WAITING_FOR_HUMAN_REVIEW", review |-> "PENDING",
                  fix |-> call[a].row]
    /\ call' = [call EXCEPT ![a].at = "respond"]
    /\ UNCHANGED <<recommendations, screen, spent, sent>>

-----------------------------------------------------------------------------
(* reviewRecommendation().                                                 *)

(* The newest recommendation of the ticket, not the one that was shown;    *)
(* with none the request is refused and the screen stays as it is.         *)
FindLatest(a) ==
    /\ call[a].at = "latest"
    /\ \/ /\ recommendations = << >>
          /\ call' = [call EXCEPT ![a] = Idle]
       \/ /\ recommendations # << >>
          /\ LET row == Len(recommendations)
                 decision == CASE call[a].action = "approve" -> "APPROVED"
                               [] call[a].action = "reject" -> "REJECTED"
                               [] OTHER -> recommendations[row].status
             IN  call' = [call EXCEPT ![a].at = "decide", ![a].row = row,
                                      ![a].decision = decision]
    /\ UNCHANGED <<ticket, recommendations, screen, spent, sent>>

UpdateRecommendation(a) ==
    /\ call[a].at = "decide"
    /\ recommendations' = [recommendations EXCEPT
          ![call[a].row] = [text |-> call[a].text, status |-> call[a].decision]]
    /\ call' = [call EXCEPT ![a].at = "settle"]
    /\ UNCHANGED <<ticket, screen, spent, sent>>

NextTicketStatus(action) ==
    CASE action = "approve" -> "ACTION_APPROVED"
      [] action = "reject" -> "ACTION_REJECTED"
      [] OTHER -> "WAITING_FOR_HUMAN_REVIEW"

(* Faulty: the text is read from the row that was written, not from the    *)
(* request.                                                                *)
SettleTicketFromRow(a) ==
    /\ call[a].at = "settle"
    /\ ticket' = [status |-> NextTicketStatus(call[a].action),
                  review |-> call[a].decision, fix |-> recommendations[call[a].row].text]
    /\ call' = [call EXCEPT ![a].at = "respond"]
    /\ UNCHANGED <<recommendations, screen, spent, sent>>

(* The ticket takes the text and the status the review has just written.   *)
SettleTicket(a) ==
    /\ call[a].at = "settle"
    /\ ticket' = [status |-> NextTicketStatus(call[a].action),
                  review |-> call[a].decision, fix |-> call[a].text]
    /\ call' = [call EXCEPT ![a].at = "respond"]
    /\ UNCHANGED <<recommendations, screen, spent, sent>>

(* The event is recorded, the answer arrives and the screen reads the      *)
(* ticket again.                                                           *)
Respond(a) ==
    /\ call[a].at = "respond"
    /\ call' = [call EXCEPT ![a] = Idle]
    /\ screen' = [screen EXCEPT ![a] = Answered(@)]
    /\ UNCHANGED <<ticket, recommendations, spent, sent>>

(* A statement of the service, its answer or the getTicket() after it      *)
(* fails.  What was written stays.  investigateSelectedTicket() and        *)
(* reviewSelectedTicket() have no finally: the draft stays as it is, and   *)
(* the button of an investigation stays disabled.                          *)
StatementFails(a) ==
    /\ call[a].at # "none"
    /\ spent.failures < MaxFailures
    /\ spent' = [spent EXCEPT !.failures = @ + 1]
    /\ call' = [call EXCEPT ![a] = Idle]
    /\ screen' = [screen EXCEPT ![a].busy = IF @ = "running" THEN "left" ELSE @]
    /\ UNCHANGED <<ticket, recommendations, sent>>

(* updateTicket(): a patch may set a status and another fix, whatever they *)
(* were; the review stays as it is.                                        *)
UpdateTicket(status, fix) ==
    /\ spent.patches < MaxPatches
    /\ spent' = [spent EXCEPT !.patches = @ + 1]
    /\ ticket' = [ticket EXCEPT !.status = status, !.fix = fix]
    /\ sent' = IF fix = ticket.fix THEN sent ELSE sent \cup {fix}
    /\ UNCHANGED <<recommendations, screen, call>>

ServiceStep(a) ==
    \/ CreateRecommendation(a) \/ ProposeFix(a)
    \/ FindLatest(a) \/ UpdateRecommendation(a) \/ SettleTicket(a)
    \/ Respond(a)

Next ==
    \/ \E a \in Admins :
          \/ SelectTicket(a) \/ TypeRecommendation(a)
          \/ InvestigateSelectedTicket(a) \/ NgOnInit(a)
          \/ \E action \in ReviewActions : ReviewSelectedTicket(a, action)
          \/ ServiceStep(a) \/ StatementFails(a)
    \* nothing looks at the status a patch replaces, or sets: one stands for all
    \/ \E fix \in {ticket.fix, Typed} : UpdateTicket("CLOSED", fix)

Progress == \E a \in Admins : ServiceStep(a)

Spec == Init /\ [][Next]_vars /\ WF_vars(Progress)

-----------------------------------------------------------------------------
TypeOK ==
    /\ ticket \in [status : Statuses, review : Reviews, fix : Texts]
    /\ \A i \in DOMAIN recommendations :
          recommendations[i] \in [text : Texts, status : Reviews]
    /\ spent.investigations \in 0 .. MaxInvestigations
    /\ spent.reviews \in 0 .. MaxReviews
    /\ spent.patches \in 0 .. MaxPatches
    /\ spent.failures \in 0 .. MaxFailures
    /\ \A a \in Admins : screen[a].busy \in {"no", "running", "left"}

(* However reviews and investigations overlap, the fix of a ticket that    *)
(* says it was approved is a text an administrator approved or wrote, and  *)
(* never one that an investigation put there since.                        *)
ApprovedFixWasSent == ticket.review = "APPROVED" => ticket.fix \in sent

(* No request of the dashboard stays open, and the button that it disabled *)
(* is enabled again, unless the request or the reading of the ticket after *)
(* it failed: then it is left disabled until the dashboard is opened anew. *)
Quiet == \A a \in Admins : call[a].at = "none" /\ screen[a].busy # "running"
=============================================================================
