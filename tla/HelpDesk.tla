------------------------------ MODULE HelpDesk ------------------------------
(***************************************************************************)
(* The inline help widget and the service behind it                        *)
(* (webapp .../support/support-session.service.ts, backend                 *)
(* .../support.service.js).  One user has the widget open in several tabs  *)
(* that share a session key (a duplicated tab copies its session storage), *)
(* and a tab can be reloaded while a turn of its is still being processed: *)
(* the service carries on, nobody is left to hear the answer.  A turn is a *)
(* sequence of database statements with no transaction around them, so the *)
(* turns of two tabs interleave between any two of them; what keeps the    *)
(* thread in order is the unique index on (conversation, messageIndex),    *)
(* which makes the second writer of an index fail.                         *)
(***************************************************************************)
EXTENDS Naturals, FiniteSets

CONSTANTS
    Tabs,        \* the tabs that show the widget
    MaxTurns,    \* bound: messages the user sends, in all tabs together
    MaxFailures  \* bound: statements that fail in the database

VARIABLES
    thread,     \* the rows of supportMessage: [index, from, turn]
    conversation, \* "none", "open" or "escalated"
    tickets,    \* the turns that have a row in supportTicket
    turn,       \* turn[i]: the i-th request to the service
    widget,     \* widget[t]: what tab t holds
    failures    \* how many statements have failed

vars == <<thread, conversation, tickets, turn, widget, failures>>

Turns == 1 .. MaxTurns

(* A message either reports something broken or asks something: category,  *)
(* priority, severity and title of a ticket are read off the same text and *)
(* steer nothing.                                                          *)
Kinds == {"bug", "question"}

NotSent == [at |-> "none", kind |-> "question", index |-> 0]

(* loading covers both requests of a tab: the one that reads the current   *)
(* conversation ("reading", then "read" with the snapshot on its way) and  *)
(* the one that sends a message (the number of the turn).                  *)
NewTab == [loading |-> "reading", sent |-> 0, seen |-> {}, shown |-> {},
           shownTickets |-> {}, seenTickets |-> {}]

Init ==
    /\ thread = {}
    /\ conversation = "none"
    /\ tickets = {}
    /\ turn = [i \in Turns |-> NotSent]
    /\ widget = [t \in Tabs |-> NewTab]
    /\ failures = 0

Goto(i, place) == turn' = [turn EXCEPT ![i].at = place]

-----------------------------------------------------------------------------
(* The widget.                                                             *)

(* initialize(), first half: the service reads the open conversation of    *)
(* the session with its messages and tickets.                              *)
GetCurrentConversation(t) ==
    /\ widget[t].loading = "reading"
    /\ widget' = [widget EXCEPT ![t].loading = "read",
                                ![t].seen = thread,
                                ![t].seenTickets = tickets]
    /\ UNCHANGED <<thread, conversation, tickets, turn, failures>>

(* initialize(), second half: when there was a conversation its messages   *)
(* and tickets replace the ones the tab kept in session storage.           *)
Initialize(t) ==
    LET w == widget[t]
        found == w.seen # {} \/ w.seenTickets # {}
    IN  /\ w.loading = "read"
        /\ widget' = [widget EXCEPT
              ![t] = [w EXCEPT !.loading = "no", !.seen = {}, !.seenTickets = {},
                               !.shown = IF found THEN w.seen ELSE @,
                               !.shownTickets = IF found THEN w.seenTickets ELSE @]]
        /\ UNCHANGED <<thread, conversation, tickets, turn, failures>>

(* A reload: what persist() stored survives, the requests under way do not.*)
Reload(t) ==
    /\ widget[t].loading = "sending"
    /\ widget' = [widget EXCEPT ![t].loading = "reading", ![t].sent = 0]
    /\ UNCHANGED <<thread, conversation, tickets, turn, failures>>

(* sendMessage(): refused while the tab loads.                             *)
SendMessage(t, kind) ==
    \E i \in Turns :
        /\ turn[i].at = "none"
        /\ \A j \in 1 .. i - 1 : turn[j].at # "none"
        /\ widget[t].loading = "no"
        /\ widget' = [widget EXCEPT ![t].loading = "sending", ![t].sent = i]
        /\ turn' = [turn EXCEPT ![i] = [at |-> "find", kind |-> kind, index |-> 0]]
        /\ UNCHANGED <<thread, conversation, tickets, failures>>

-----------------------------------------------------------------------------
(* The service: processConversationTurn(), one statement per action.       *)

(* ensureConversation(): the look-up ...                                   *)
FindConversation(i) ==
    /\ turn[i].at = "find"
    /\ Goto(i, IF conversation = "none" THEN "create" ELSE "count")
    /\ UNCHANGED <<thread, conversation, tickets, widget, failures>>

(* A turn that fails ends its request with an error; the tab that still    *)
(* waits for it shows the error and keeps its messages.                    *)
Fail(i) ==
    /\ Goto(i, "failed")
    /\ widget' = [t \in Tabs |-> IF widget[t].sent = i
                                 THEN [widget[t] EXCEPT !.loading = "no", !.sent = 0]
                                 ELSE widget[t]]
    /\ UNCHANGED <<thread, conversation, tickets>>

(* ... and the insert, which the unique index on (userId, sessionKey)      *)
(* refuses when another turn has inserted the row since.                   *)
CreateConversation(i) ==
    /\ turn[i].at = "create"
    /\ \/ /\ conversation = "none"
          /\ conversation' = "open"
          /\ Goto(i, "count")
          /\ UNCHANGED <<thread, tickets, widget>>
       \/ /\ conversation # "none"
          /\ Fail(i)
    /\ UNCHANGED failures

StoredQuestion(i) == \E row \in thread : row.from = "user" /\ row.turn = i

(* appendConversationMessage(): the count ...                              *)
CountMessages(i) ==
    /\ turn[i].at = "count"
    /\ turn' = [turn EXCEPT ![i].at = "append", ![i].index = Cardinality(thread) + 1]
    /\ UNCHANGED <<thread, conversation, tickets, widget, failures>>

(* Faulty: no unique index on (conversation, messageIndex).                *)
IndexNotUnique(n) == FALSE

IndexTaken(n) == \E row \in thread : row.index = n

(* ... and the insert at that index: the user's message first, then, once  *)
(* there is a reply, the agent's.                                          *)
AppendMessage(i) ==
    LET reply == StoredQuestion(i)
        row == [index |-> turn[i].index, from |-> IF reply THEN "agent" ELSE "user",
                turn |-> i]
    IN  /\ turn[i].at = "append"
        /\ \/ /\ ~ IndexTaken(turn[i].index)
              /\ thread' = thread \cup {row}
              /\ Goto(i, IF reply THEN "answer" ELSE turn[i].kind)
              /\ UNCHANGED <<conversation, tickets, widget>>
           \/ /\ IndexTaken(turn[i].index)
              /\ Fail(i)
        /\ UNCHANGED failures

(* A question is answered from the help knowledge base, or with the        *)
(* sentence that nothing was found.                                        *)
SearchHelp(i) ==
    /\ turn[i].at = "question"
    /\ Goto(i, "count")
    /\ UNCHANGED <<thread, conversation, tickets, widget, failures>>

(* createTicket(), first statement, after the logs have been analysed.     *)
CreateTicket(i) ==
    /\ turn[i].at = "bug"
    /\ tickets' = tickets \cup {i}
    /\ Goto(i, "escalate")
    /\ UNCHANGED <<thread, conversation, widget, failures>>

(* createTicket(), the event and the mark on the conversation.             *)
EscalateConversation(i) ==
    /\ turn[i].at = "escalate"
    /\ conversation' = "escalated"
    /\ Goto(i, "count")
    /\ UNCHANGED <<thread, tickets, widget, failures>>

(* The answer: the service lists the thread as it stands, and the tab that *)
(* still waits replaces its messages by it and puts a ticket in front.     *)
Answer(i) ==
    /\ turn[i].at = "answer"
    /\ Goto(i, "answered")
    /\ widget' = [t \in Tabs |->
          IF widget[t].sent = i
          THEN [widget[t] EXCEPT !.loading = "no", !.sent = 0, !.shown = thread,
                                 !.shownTickets = @ \cup (tickets \cap {i})]
          ELSE widget[t]]
    /\ UNCHANGED <<thread, conversation, tickets, failures>>

Ended(i) == turn[i].at \in {"none", "answered", "failed"}

(* The database refuses a statement for a reason of its own.               *)
StatementFails(i) ==
    /\ ~ Ended(i)
    /\ failures < MaxFailures
    /\ failures' = failures + 1
    /\ Fail(i)

TurnStep(i) ==
    \/ FindConversation(i) \/ CreateConversation(i)
    \/ CountMessages(i) \/ AppendMessage(i)
    \/ SearchHelp(i) \/ CreateTicket(i) \/ EscalateConversation(i)
    \/ Answer(i)

TabStep(t) == GetCurrentConversation(t) \/ Initialize(t)

Next ==
    \/ \E t \in Tabs : TabStep(t) \/ Reload(t) \/ \E k \in Kinds : SendMessage(t, k)
    \/ \E i \in Turns : TurnStep(i) \/ StatementFails(i)

Progress == (\E t \in Tabs : TabStep(t)) \/ \E i \in Turns : TurnStep(i)

Spec == Init /\ [][Next]_vars /\ WF_vars(Progress)

-----------------------------------------------------------------------------
Row == [index : 1 .. 2 * MaxTurns, from : {"user", "agent"}, turn : Turns]

TypeOK ==
    /\ thread \subseteq Row
    /\ conversation \in {"none", "open", "escalated"}
    /\ tickets \subseteq Turns
    /\ \A i \in Turns : turn[i].kind \in Kinds /\ turn[i].index \in 0 .. 2 * MaxTurns
    /\ \A t \in Tabs : widget[t].loading \in {"no", "reading", "read", "sending"}

(* The thread of a session reads as a conversation whatever two tabs do at *)
(* once: its indices are 1, 2, ... without a gap or a repetition, no turn  *)
(* is answered before its own question or twice, and a ticket is always    *)
(* preceded by the message it was opened for.                              *)
ThreadIsWhole ==
    /\ {row.index : row \in thread} = 1 .. Cardinality(thread)
    /\ \A a \in thread : a.from = "agent" =>
          \E q \in thread : q.from = "user" /\ q.turn = a.turn /\ q.index < a.index
    /\ \A a, b \in thread : a.from = b.from /\ a.turn = b.turn => a = b
    /\ \A i \in tickets : StoredQuestion(i)

(* Every tab comes to rest: no request leaves the widget loading.          *)
Quiet == \A t \in Tabs : widget[t].loading = "no"
=============================================================================
