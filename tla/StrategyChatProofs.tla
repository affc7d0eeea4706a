--------------------------- MODULE StrategyChatProofs ---------------------------
(***************************************************************************)
(* Proofs about StrategyChat, for every number of requests, of sections    *)
(* and of crashes, every bound on what an output updates, and both tools.  *)
(*                                                                         *)
(* The second transaction reads the sections, then the messages, and       *)
(* writes later with no lock, so the number of its reply may be fresh      *)
(* where the sections are stale.  What keeps a stale request of the        *)
(* ideation from writing a section is the history of the section: a        *)
(* version that is no longer the latest has a row for the next one, with   *)
(* the number the request would use.                                       *)
(***************************************************************************)
EXTENDS StrategyChat, SequenceTheorems, TLAPS

-----------------------------------------------------------------------------
(* The invariant.  What a request has read of a section is the version     *)
(* that is stored, or one from which rows lead to it, one for each number  *)
(* (Traced); and what it has read of a percentage is on record.            *)

MessageRecord == [from : {"USER", "AGENT"}, status : {"PENDING", "SENT", "FAILED"}]

RequestShape(r) ==
    r \in [pc : {r.pc}, retry : {r.retry}, message : {r.message}, run : {r.run},
           last : {r.last}, output : {r.output}, read : {r.read}]

HasVersion(s, k, vers) == \E v \in vers : v.section = s /\ v.version = k

Traced(old, s, secs, vers) ==
    /\ old.version \in Nat /\ old.version <= secs[s].version
    /\ \A k \in Nat : old.version < k /\ k <= secs[s].version => HasVersion(s, k, vers)
    /\ old.percent \in OnRecord(s, vers)

ReadingFits(r, t, secs, vers) ==
    t = "ideation" => \A s \in Sections : Traced(r.read[s], s, secs, vers)

\* The thread has n messages, and t is its tool.
RequestFits(r, t, n, secs, vers) ==
    /\ RequestShape(r)
    /\ r.pc = "starting" /\ ~ r.retry => r.last \in 0 .. n
    /\ r.pc = "closing" => r.retry = TRUE
    /\ r.pc \in {"reading", "writing"} => ReadingFits(r, t, secs, vers)

SectionsFit(t, secs, vers) ==
    /\ secs = [s \in Sections |-> secs[s]]
    /\ t = "ideation" => \A s \in Sections :
          secs[s].version \in Nat /\ secs[s].percent \in OnRecord(s, vers)

\* What a step may do to the sections and their versions.
Grown(t, secs, vers, secs2, vers2) ==
    /\ vers \subseteq vers2
    /\ t = "ideation" => \A s \in Sections :
          \/ secs2[s] = secs[s]
          \/ secs2[s].version = secs[s].version + 1 /\ HasVersion(s, secs2[s].version, vers2)

Settles(r, i) == r.message = i /\ r.pc \in {"waiting", "reading", "writing"}

Attended(msgs, requests, dead) ==
    \A i \in DOMAIN msgs :
        msgs[i].status = "PENDING" => dead > 0 \/ \E q \in Requests : Settles(requests[q], i)

ChatInv ==
    /\ tool \in Tools /\ crashes \in Nat /\ unlocked \in BOOLEAN
    /\ messages \in Seq(MessageRecord)
    /\ SectionsFit(tool, sections, versions)
    /\ request = [q \in Requests |-> request[q]]
    /\ \A q \in Requests : RequestFits(request[q], tool, Len(messages), sections, versions)
    /\ Attended(messages, request, crashes)

LEMMA ChatInitInv == Init => ChatInv
<1> SUFFICES ASSUME Init PROVE ChatInv
  OBVIOUS
<1>1. tool \in Tools /\ crashes = 0 /\ unlocked = FALSE
  BY DEF Init, CreateBusinessIdea
<1>2. messages = << [from |-> "AGENT", status |-> "SENT"] >>
  BY DEF Init, CreateBusinessIdea
<1>3. messages \in Seq(MessageRecord)
  <2>1. [from |-> "AGENT", status |-> "SENT"] \in MessageRecord
    BY DEF MessageRecord
  <2> QED BY <1>2, <2>1
<1>4. SectionsFit(tool, sections, versions)
  <2>1. /\ sections = [s \in Sections |-> sections[s]]
        /\ \A s \in Sections : sections[s].percent = 0 /\ sections[s].version \in {0, 1}
    BY DEF Init, CreateBusinessIdea
  <2> QED BY <2>1 DEF SectionsFit, OnRecord
<1>5. request = [q \in Requests |-> request[q]]
      /\ \A q \in Requests : request[q] = NoRequest
  BY DEF Init
<1>6. RequestShape(NoRequest) /\ NoRequest.pc = "new"
  BY DEF RequestShape, NoRequest
<1>7. \A q \in Requests : RequestFits(request[q], tool, Len(messages), sections, versions)
  BY <1>5, <1>6 DEF RequestFits
<1>8. \A i \in DOMAIN messages : messages[i].status = "SENT"
  BY <1>2
<1>9. Attended(messages, request, crashes)
  BY <1>8 DEF Attended
<1> QED BY <1>1, <1>3, <1>4, <1>5, <1>7, <1>9 DEF ChatInv

LEMMA NothingGrows == ASSUME NEW t, NEW secs, NEW vers PROVE Grown(t, secs, vers, secs, vers)
BY DEF Grown

\* What is on record stays there.
LEMMA RecordsStay ==
    ASSUME NEW s, NEW vers, NEW vers2, vers \subseteq vers2
    PROVE  /\ OnRecord(s, vers) \subseteq OnRecord(s, vers2)
           /\ \A k : HasVersion(s, k, vers) => HasVersion(s, k, vers2)
BY DEF OnRecord, HasVersion

\* A request that stands still fits what the others make of the thread and the document.
LEMMA FitsOn ==
    ASSUME NEW r, NEW t, NEW n \in Nat, NEW m \in Nat, n <= m,
           NEW secs, NEW secs2, NEW vers, NEW vers2,
           RequestFits(r, t, n, secs, vers), SectionsFit(t, secs, vers),
           Grown(t, secs, vers, secs2, vers2)
    PROVE  RequestFits(r, t, m, secs2, vers2)
<1>1. ASSUME ReadingFits(r, t, secs, vers) PROVE ReadingFits(r, t, secs2, vers2)
  <2> SUFFICES ASSUME t = "ideation", NEW s \in Sections
               PROVE  Traced(r.read[s], s, secs2, vers2)
    BY DEF ReadingFits
  <2> DEFINE old == r.read[s]
             has(k) == HasVersion(s, k, vers2)
  <2>1. /\ old.version \in Nat /\ old.version <= secs[s].version /\ secs[s].version \in Nat
        /\ \A k \in Nat : old.version < k /\ k <= secs[s].version => has(k)
        /\ old.percent \in OnRecord(s, vers2)
    <3>1. Traced(old, s, secs, vers) /\ secs[s].version \in Nat /\ vers \subseteq vers2
      BY <1>1 DEF ReadingFits, SectionsFit, Grown
    <3> QED BY <3>1, RecordsStay DEF Traced
  <2>2. \/ secs2[s] = secs[s]
        \/ secs2[s].version = secs[s].version + 1 /\ has(secs2[s].version)
    BY DEF Grown
  <2> HIDE DEF has, old
  <2>3. /\ old.version <= secs2[s].version
        /\ \A k \in Nat : old.version < k /\ k <= secs2[s].version => has(k)
    <3>1. CASE secs2[s] = secs[s]
      BY <2>1, <3>1
    <3>2. CASE secs2[s].version = secs[s].version + 1 /\ has(secs2[s].version)
      <4>1. \A k \in Nat : k <= secs[s].version + 1 =>
               k <= secs[s].version \/ k = secs2[s].version
        BY <2>1, <3>2
      <4> QED BY <2>1, <3>2, <4>1
    <3> QED BY <2>2, <3>1, <3>2
  <2> QED BY <2>1, <2>3 DEF Traced, has, old
<1>2. r.pc = "starting" /\ ~ r.retry => r.last \in 0 .. m
  BY DEF RequestFits
<1> QED BY <1>1, <1>2 DEF RequestFits

\* Who was attended still is, when one request goes on and settles or adds to
\* what is pending only what it was at, or is.
LEMMA StillAttended ==
    ASSUME NEW msgs, NEW msgs2, NEW requests, NEW dead, NEW q \in Requests, NEW new,
           requests = [p \in Requests |-> requests[p]],
           Attended(msgs, requests, dead),
           \A i \in DOMAIN msgs2 : msgs2[i].status = "PENDING" =>
               \/ Settles(new, i)
               \/ ~ Settles(requests[q], i) /\ i \in DOMAIN msgs /\ msgs[i].status = "PENDING"
    PROVE  Attended(msgs2, [requests EXCEPT ![q] = new], dead)
<1> DEFINE requests2 == [requests EXCEPT ![q] = new]
<1>1. requests2[q] = new /\ \A p \in Requests \ {q} : requests2[p] = requests[p]
  OBVIOUS
<1> HIDE DEF requests2
<1> SUFFICES ASSUME NEW i \in DOMAIN msgs2, msgs2[i].status = "PENDING", ~ (dead > 0)
             PROVE  \E p \in Requests : Settles(requests2[p], i)
  BY DEF Attended, requests2
<1>2. CASE Settles(new, i)
  BY <1>1, <1>2
<1>3. CASE ~ Settles(requests[q], i) /\ i \in DOMAIN msgs /\ msgs[i].status = "PENDING"
  <2>1. PICK p \in Requests : Settles(requests[p], i)
    BY <1>3 DEF Attended
  <2>2. p # q
    BY <1>3, <2>1
  <2> QED BY <1>1, <2>1, <2>2
<1> QED BY <1>2, <1>3

\* The request of q is now at new.
NowAt(q, new) == request' = [request EXCEPT ![q] = new]

LEMMA RequestGoesOn ==
    ASSUME ChatInv, NEW q \in Requests, NEW new, NowAt(q, new),
           tool' = tool, crashes' = crashes, unlocked' \in BOOLEAN,
           messages' \in Seq(MessageRecord), Len(messages) <= Len(messages'),
           Grown(tool, sections, versions, sections', versions'),
           SectionsFit(tool, sections', versions'),
           RequestFits(new, tool, Len(messages'), sections', versions'),
           \A i \in DOMAIN messages' : messages'[i].status = "PENDING" =>
               \/ Settles(new, i)
               \/ ~ Settles(request[q], i) /\ i \in DOMAIN messages /\ messages[i].status = "PENDING"
    PROVE  ChatInv'
<1>1. request = [p \in Requests |-> request[p]] /\ Attended(messages, request, crashes)
  BY DEF ChatInv
<1>2. request' = [p \in Requests |-> request'[p]]
      /\ \A p \in Requests : request'[p] = IF p = q THEN new ELSE request[p]
  BY <1>1 DEF NowAt
<1>3. Len(messages) \in Nat /\ Len(messages') \in Nat
  BY DEF ChatInv
<1>4. \A p \in Requests : RequestFits(request'[p], tool, Len(messages'), sections', versions')
  <2> SUFFICES ASSUME NEW p \in Requests, p # q
               PROVE  RequestFits(request[p], tool, Len(messages'), sections', versions')
    BY <1>2
  <2>1. /\ RequestFits(request[p], tool, Len(messages), sections, versions)
        /\ SectionsFit(tool, sections, versions)
    BY DEF ChatInv
  <2> QED BY <1>3, <2>1, FitsOn
<1>5. Attended(messages', request', crashes)
  <2>1. Attended(messages', [request EXCEPT ![q] = new], crashes)
    BY <1>1, StillAttended
  <2> QED BY <2>1 DEF NowAt
<1> QED BY <1>2, <1>4, <1>5 DEF ChatInv

-----------------------------------------------------------------------------
(* The steps.                                                              *)

LEMMA MessageMarked ==
    ASSUME messages \in Seq(MessageRecord), NEW i, NEW status \in {"PENDING", "SENT", "FAILED"}
    PROVE  /\ MessageStatus(i, status) \in Seq(MessageRecord)
           /\ Len(MessageStatus(i, status)) = Len(messages)
           /\ \A j \in 1 .. Len(messages) :
                 MessageStatus(i, status)[j].status = IF j = i THEN status ELSE messages[j].status
<1> DEFINE marked(j) == IF j = i THEN [messages[j] EXCEPT !.status = status] ELSE messages[j]
<1>1. MessageStatus(i, status) = [j \in 1 .. Len(messages) |-> marked(j)]
  BY DEF MessageStatus
<1>2. \A j \in 1 .. Len(messages) : messages[j] \in MessageRecord
  OBVIOUS
<1>3. \A j \in 1 .. Len(messages) :
         /\ marked(j) \in MessageRecord
         /\ marked(j).status = IF j = i THEN status ELSE messages[j].status
  BY <1>2 DEF MessageRecord
<1> HIDE DEF marked
<1>4. Len(messages) \in Nat
  OBVIOUS
<1>5. [j \in 1 .. Len(messages) |-> marked(j)] \in Seq(MessageRecord)
      /\ Len([j \in 1 .. Len(messages) |-> marked(j)]) = Len(messages)
  BY <1>3, <1>4
<1> QED BY <1>1, <1>3, <1>5

\* Steps of a request that leave the rows of the thread and the document alone.
LEMMA ReadingGoesOn ==
    ASSUME ChatInv, NEW q \in Requests, NEW new, NowAt(q, new),
           UNCHANGED <<tool, crashes, messages, document>>,
           RequestFits(new, tool, Len(messages), sections, versions),
           \/ request[q].pc \notin {"waiting", "reading", "writing"}
           \/ new.pc \in {"reading", "writing"} /\ new.message = request[q].message
    PROVE  ChatInv'
<1>1. /\ messages' = messages /\ sections' = sections /\ versions' = versions
      /\ unlocked' = unlocked
  BY DEF document
<1>2. /\ messages \in Seq(MessageRecord) /\ SectionsFit(tool, sections, versions)
      /\ unlocked \in BOOLEAN /\ Len(messages) \in Nat
  BY DEF ChatInv
<1>3. \A i : Settles(request[q], i) => Settles(new, i)
  BY DEF Settles
<1> QED BY <1>1, <1>2, <1>3, NothingGrows, RequestGoesOn

\* Steps that mark the message of a request, which is over or refused then.
LEMMA MarkingGoesOn ==
    ASSUME ChatInv, NEW q \in Requests, NEW new, NowAt(q, new),
           UNCHANGED <<tool, crashes, document>>,
           messages' = MessageStatus(request[q].message, "FAILED"),
           RequestShape(new), new.pc \in {"done", "refused"}
    PROVE  ChatInv'
<1>1. /\ sections' = sections /\ versions' = versions /\ unlocked' = unlocked
      /\ tool' = tool /\ crashes' = crashes
  BY DEF document
<1>2. /\ messages \in Seq(MessageRecord) /\ SectionsFit(tool, sections, versions)
      /\ unlocked \in BOOLEAN /\ Grown(tool, sections, versions, sections, versions)
  BY NothingGrows DEF ChatInv
<1>3. /\ messages' \in Seq(MessageRecord) /\ Len(messages') = Len(messages)
      /\ \A i \in 1 .. Len(messages) :
            messages'[i].status = IF i = request[q].message THEN "FAILED" ELSE messages[i].status
  BY <1>2, MessageMarked
<1>4. RequestFits(new, tool, Len(messages'), sections', versions')
  BY DEF RequestFits
<1>5. \A i \in DOMAIN messages' : messages'[i].status = "PENDING" =>
         ~ Settles(request[q], i) /\ i \in DOMAIN messages /\ messages[i].status = "PENDING"
  BY <1>2, <1>3 DEF Settles
<1>6. Len(messages) <= Len(messages')
  BY <1>2, <1>3
<1> QED BY <1>1, <1>2, <1>3, <1>4, <1>5, <1>6, RequestGoesOn

\* What the request of q is.
LEMMA RequestIsFit ==
    ASSUME ChatInv, NEW q \in Requests
    PROVE  /\ RequestShape(request[q])
           /\ RequestFits(request[q], tool, Len(messages), sections, versions)
           /\ request = [p \in Requests |-> request[p]] /\ Len(messages) \in Nat
BY DEF ChatInv, RequestFits

LEMMA OverIsFit ==
    ASSUME NEW t, NEW n, NEW secs, NEW vers
    PROVE  LET over == [NoRequest EXCEPT !.pc = "done"] IN
           RequestShape(over) /\ over.pc = "done" /\ RequestFits(over, t, n, secs, vers)
<1> DEFINE over == [NoRequest EXCEPT !.pc = "done"]
<1>1. RequestShape(over) /\ over.pc = "done"
  BY DEF NoRequest, RequestShape
<1> HIDE DEF over
<1>2. RequestFits(over, t, n, secs, vers)
  BY <1>1 DEF RequestFits
<1> QED BY <1>1, <1>2 DEF over

\* Sending a message, or sending it again, and closing the stalled run.
LEMMA AskingKeepsInv ==
    ASSUME ChatInv, NEW q \in Requests, Ask(q) \/ CloseStalledRun(q)
    PROVE  ChatInv'
<1>0. /\ RequestShape(request[q])
      /\ RequestFits(request[q], tool, Len(messages), sections, versions)
      /\ request = [p \in Requests |-> request[p]] /\ Len(messages) \in Nat
  BY RequestIsFit
<1>1. CASE SendIdeationMessage(q) \/ SendValuePropositionMessage(q)
  <2> DEFINE new == [request[q] EXCEPT !.pc = "starting", !.last = Len(messages)]
  <2>1. /\ UNCHANGED <<tool, crashes, messages, document>> /\ request[q].pc = "new"
        /\ request' = [request EXCEPT ![q].pc = "starting", ![q].last = Len(messages)]
    BY <1>1 DEF SendIdeationMessage, SendValuePropositionMessage, rows
  <2>2. NowAt(q, new)
    BY <1>0, <2>1 DEF NowAt
  <2>3. RequestShape(new) /\ new.pc = "starting" /\ new.last = Len(messages)
    BY <1>0 DEF RequestShape
  <2> HIDE DEF new
  <2>4. RequestFits(new, tool, Len(messages), sections, versions)
    BY <1>0, <2>3 DEF RequestFits
  <2> QED BY <2>1, <2>2, <2>3, <2>4, ReadingGoesOn
<1>2. CASE ResendLastValuePropositionMessage(q)
  <2> DEFINE new == [request[q] EXCEPT !.pc = "starting", !.retry = TRUE, !.message = Len(messages)]
  <2>1. /\ UNCHANGED <<tool, crashes, messages, document>> /\ request[q].pc = "new"
        /\ request' = [request EXCEPT ![q].pc = "starting", ![q].retry = TRUE,
                                      ![q].message = Len(messages)]
    BY <1>2 DEF ResendLastValuePropositionMessage, rows
  <2>2. NowAt(q, new)
    BY <1>0, <2>1 DEF NowAt
  <2>3. RequestShape(new) /\ new.pc = "starting" /\ new.retry = TRUE
    BY <1>0 DEF RequestShape
  <2> HIDE DEF new
  <2>4. RequestFits(new, tool, Len(messages), sections, versions)
    BY <2>3 DEF RequestFits
  <2> QED BY <2>1, <2>2, <2>3, <2>4, ReadingGoesOn
<1>3. CASE ResendLastIdeationMessage(q)
  <2> DEFINE n == LatestRun(Len(messages))
             stalled == n # 0 /\ runs[n].status = "RUNNING"
             place == IF stalled /\ n <= stale THEN "closing" ELSE "starting"
             new == [request[q] EXCEPT !.pc = place, !.retry = TRUE, !.message = Len(messages),
                                       !.run = n]
  <2>1. /\ UNCHANGED <<tool, crashes, messages, document>> /\ request[q].pc = "new"
        /\ request' = [request EXCEPT ![q].pc = place, ![q].retry = TRUE,
                                      ![q].message = Len(messages), ![q].run = n]
    BY <1>3 DEF ResendLastIdeationMessage, rows
  <2>2. place \in {"closing", "starting"}
    OBVIOUS
  <2> HIDE DEF n, place
  <2>3. NowAt(q, new)
    BY <1>0, <2>1 DEF NowAt
  <2>4. RequestShape(new) /\ new.pc = place /\ new.retry = TRUE
    BY <1>0 DEF RequestShape
  <2> HIDE DEF new
  <2>5. RequestFits(new, tool, Len(messages), sections, versions)
    BY <2>2, <2>4 DEF RequestFits
  <2> QED BY <2>1, <2>2, <2>3, <2>4, <2>5, ReadingGoesOn
<1>4. CASE CloseStalledRun(q)
  <2> DEFINE new == [request[q] EXCEPT !.pc = "starting"]
  <2>1. /\ UNCHANGED <<tool, crashes, messages, document>> /\ request[q].pc = "closing"
        /\ request' = [request EXCEPT ![q].pc = "starting"]
    BY <1>4 DEF CloseStalledRun, Goes
  <2>2. NowAt(q, new)
    BY <2>1 DEF NowAt
  <2>3. RequestShape(new) /\ new.pc = "starting" /\ new.retry = request[q].retry
        /\ new.last = request[q].last
    BY <1>0 DEF RequestShape
  <2> HIDE DEF new
  <2>4. RequestFits(new, tool, Len(messages), sections, versions)
    BY <1>0, <2>1, <2>3 DEF RequestFits
  <2> QED BY <2>1, <2>2, <2>3, <2>4, ReadingGoesOn
<1> QED BY <1>1, <1>2, <1>3, <1>4 DEF Ask

\* The first transaction, and a failure of the gateway or after a refusal.
LEMMA StartingKeepsInv ==
    ASSUME ChatInv, NEW q \in Requests, StartIdeation(q) \/ StartValueProposition(q)
    PROVE  ChatInv'
<1>0. /\ RequestShape(request[q])
      /\ RequestFits(request[q], tool, Len(messages), sections, versions)
      /\ request = [p \in Requests |-> request[p]] /\ Len(messages) \in Nat
      /\ messages \in Seq(MessageRecord) /\ SectionsFit(tool, sections, versions)
      /\ unlocked \in BOOLEAN /\ Grown(tool, sections, versions, sections, versions)
  BY RequestIsFit, NothingGrows DEF ChatInv
<1>1. /\ UNCHANGED <<tool, crashes, document>> /\ request[q].pc = "starting"
      /\ IF request[q].retry THEN StoreRetry(q) ELSE StoreNewMessage(q)
  BY DEF StartIdeation, StartValueProposition
<1>2. sections' = sections /\ versions' = versions /\ unlocked' = unlocked
  BY <1>1 DEF document
<1>3. CASE request[q].retry /\ StoreRetry(q)
  <2> DEFINE i == request[q].message
             new == [request[q] EXCEPT !.pc = "waiting", !.run = Len(runs) + 1]
  <2>1. /\ messages' = MessageStatus(i, "PENDING")
        /\ request' = [request EXCEPT ![q].pc = "waiting", ![q].run = Len(runs) + 1]
    BY <1>3 DEF StoreRetry
  <2>2. NowAt(q, new)
    BY <1>0, <2>1 DEF NowAt
  <2>3. RequestShape(new) /\ new.pc = "waiting" /\ new.message = i
    BY <1>0 DEF RequestShape
  <2> HIDE DEF new
  <2>4. /\ messages' \in Seq(MessageRecord) /\ Len(messages') = Len(messages)
        /\ \A j \in 1 .. Len(messages) :
              messages'[j].status = IF j = i THEN "PENDING" ELSE messages[j].status
    BY <1>0, <2>1, MessageMarked
  <2>5. RequestFits(new, tool, Len(messages'), sections', versions')
    BY <2>3 DEF RequestFits
  <2>6. \A j \in DOMAIN messages' : messages'[j].status = "PENDING" =>
           \/ Settles(new, j)
           \/ ~ Settles(request[q], j) /\ j \in DOMAIN messages /\ messages[j].status = "PENDING"
    BY <1>0, <1>1, <2>3, <2>4 DEF Settles
  <2>7. Len(messages) <= Len(messages')
    BY <1>0, <2>4
  <2> QED BY <1>0, <1>1, <1>2, <2>2, <2>4, <2>5, <2>6, <2>7, RequestGoesOn
<1>4. CASE ~ request[q].retry /\ StoreNewMessage(q)
  <2> DEFINE i == request[q].last + 1
  <2>0. request[q].last \in 0 .. Len(messages)
    BY <1>0, <1>1, <1>4 DEF RequestFits
  <2>1. CASE i \in DOMAIN messages
    <3> DEFINE over == [NoRequest EXCEPT !.pc = "done"]
    <3>1. NowAt(q, over) /\ UNCHANGED messages
      BY <1>4, <2>1 DEF StoreNewMessage, Ends, NowAt
    <3>2. RequestShape(over) /\ over.pc = "done"
          /\ RequestFits(over, tool, Len(messages), sections, versions)
      BY OverIsFit
    <3> HIDE DEF over
    <3> QED BY <1>1, <3>1, <3>2, ReadingGoesOn
  <2>2. CASE i \notin DOMAIN messages
    <3> DEFINE new == [request[q] EXCEPT !.pc = "waiting", !.message = i, !.run = Len(runs) + 1]
               added == [from |-> "USER", status |-> "PENDING"]
    <3>1. /\ messages' = Append(messages, added)
          /\ request' = [request EXCEPT ![q].pc = "waiting", ![q].message = i,
                                        ![q].run = Len(runs) + 1]
      BY <1>4, <2>2 DEF StoreNewMessage
    <3>2. NowAt(q, new)
      BY <1>0, <3>1 DEF NowAt
    <3>3. RequestShape(new) /\ new.pc = "waiting" /\ new.message = i
      BY <1>0 DEF RequestShape
    <3>4. i = Len(messages) + 1
      BY <1>0, <2>0, <2>2
    <3>5. added \in MessageRecord /\ added.status = "PENDING"
      BY DEF MessageRecord
    <3> HIDE DEF new, added, i
    <3>6. /\ messages' \in Seq(MessageRecord) /\ Len(messages') = Len(messages) + 1
          /\ \A j \in 1 .. Len(messages) : messages'[j] = messages[j]
      BY <1>0, <3>1, <3>5
    <3>7. RequestFits(new, tool, Len(messages'), sections', versions')
      BY <3>3 DEF RequestFits
    <3>8. \A j \in DOMAIN messages' : messages'[j].status = "PENDING" =>
             \/ Settles(new, j)
             \/ ~ Settles(request[q], j) /\ j \in DOMAIN messages /\ messages[j].status = "PENDING"
      BY <1>0, <1>1, <3>3, <3>4, <3>6 DEF Settles
    <3>9. Len(messages) <= Len(messages')
      BY <1>0, <3>6
    <3> QED BY <1>0, <1>1, <1>2, <3>2, <3>6, <3>7, <3>8, <3>9, RequestGoesOn
  <2> QED BY <2>1, <2>2
<1> QED BY <1>1, <1>3, <1>4

LEMMA FailingKeepsInv ==
    ASSUME ChatInv, NEW q \in Requests,
           \/ IdeationGatewayFails(q) \/ ValuePropositionGatewayFails(q)
           \/ RefuseIdeation(q) \/ RefuseValueProposition(q) \/ FailRefusedRun(q)
    PROVE  ChatInv'
<1>0. RequestShape(request[q]) /\ request = [p \in Requests |-> request[p]]
  BY RequestIsFit
<1> DEFINE over == [NoRequest EXCEPT !.pc = "done"]
<1>1. RequestShape(over) /\ over.pc = "done"
      /\ RequestFits(over, tool, Len(messages), sections, versions)
  BY OverIsFit
<1>2. Ends(q) => NowAt(q, over)
  BY DEF Ends, NowAt
<1> HIDE DEF over
<1>3. CASE IdeationGatewayFails(q) \/ ValuePropositionGatewayFails(q)
  <2>1. /\ UNCHANGED <<tool, crashes, document>> /\ Ends(q)
        /\ messages' = MessageStatus(request[q].message, "FAILED")
    BY <1>3 DEF IdeationGatewayFails, ValuePropositionGatewayFails, StoreFailure
  <2> QED BY <1>1, <1>2, <2>1, MarkingGoesOn
<1>4. CASE RefuseIdeation(q) \/ RefuseValueProposition(q)
  <2> DEFINE new == [request[q] EXCEPT !.pc = "refused"]
  <2>1. /\ UNCHANGED <<tool, crashes, document>>
        /\ request' = [request EXCEPT ![q].pc = "refused"]
        /\ messages' = MessageStatus(request[q].message, "FAILED")
    BY <1>4 DEF RefuseIdeation, RefuseValueProposition, Goes
  <2>2. NowAt(q, new)
    BY <2>1 DEF NowAt
  <2>3. RequestShape(new) /\ new.pc = "refused"
    BY <1>0 DEF RequestShape
  <2> HIDE DEF new
  <2> QED BY <2>1, <2>2, <2>3, MarkingGoesOn
<1>5. CASE FailRefusedRun(q)
  <2>1. /\ UNCHANGED <<tool, crashes, messages, document>> /\ Ends(q) /\ request[q].pc = "refused"
    BY <1>5 DEF FailRefusedRun
  <2> QED BY <1>1, <1>2, <2>1, ReadingGoesOn
<1> QED BY <1>3, <1>4, <1>5

\* The run is over, and its request reads the sections of the document.
LEMMA AnsweringKeepsInv ==
    ASSUME ChatInv, NEW q \in Requests,
           IdeationGatewayAnswers(q) \/ ValuePropositionGatewayAnswers(q)
    PROVE  ChatInv'
<1>0. /\ RequestShape(request[q]) /\ request = [p \in Requests |-> request[p]]
      /\ SectionsFit(tool, sections, versions)
  BY RequestIsFit DEF ChatInv
<1>1. /\ UNCHANGED <<tool, crashes, messages, document>> /\ request[q].pc = "waiting"
      /\ ReadSections(q)
  BY DEF IdeationGatewayAnswers, ValuePropositionGatewayAnswers, rows
<1> DEFINE new == [request[q] EXCEPT !.pc = "reading", !.read = sections]
<1>3. NowAt(q, new)
  BY <1>0, <1>1 DEF ReadSections, NowAt
<1>4. /\ RequestShape(new) /\ new.pc = "reading" /\ new.read = sections
      /\ new.message = request[q].message
  BY <1>0 DEF RequestShape
<1> HIDE DEF new
<1>5. ReadingFits(new, tool, sections, versions)
  <2> SUFFICES ASSUME tool = "ideation", NEW s \in Sections
               PROVE  Traced(sections[s], s, sections, versions)
    BY <1>4 DEF ReadingFits
  <2>1. sections[s].version \in Nat /\ sections[s].percent \in OnRecord(s, versions)
    BY <1>0 DEF SectionsFit
  <2>2. \A k \in Nat : ~ (sections[s].version < k /\ k <= sections[s].version)
    BY <2>1
  <2> QED BY <2>1, <2>2 DEF Traced
<1>6. RequestFits(new, tool, Len(messages), sections, versions)
  BY <1>4, <1>5 DEF RequestFits
<1> QED BY <1>1, <1>3, <1>4, <1>6, ReadingGoesOn

\* And then the messages: what it has read of the sections may be old by now.
LEMMA ReadingKeepsInv ==
    ASSUME ChatInv, NEW q \in Requests, ReadMessages(q)
    PROVE  ChatInv'
<1>0. /\ RequestShape(request[q])
      /\ RequestFits(request[q], tool, Len(messages), sections, versions)
      /\ request = [p \in Requests |-> request[p]]
  BY RequestIsFit
<1>1. /\ UNCHANGED <<tool, crashes, messages, document>> /\ request[q].pc = "reading"
      /\ \E out \in Outputs :
            request' = [request EXCEPT ![q].pc = "writing", ![q].last = Len(messages),
                                       ![q].output = out]
  BY DEF ReadMessages, rows
<1> PICK out \in Outputs :
        request' = [request EXCEPT ![q].pc = "writing", ![q].last = Len(messages), ![q].output = out]
  BY <1>1
<1> DEFINE new == [request[q] EXCEPT !.pc = "writing", !.last = Len(messages), !.output = out]
<1>2. NowAt(q, new)
  BY <1>0 DEF NowAt
<1>3. /\ RequestShape(new) /\ new.pc = "writing" /\ new.read = request[q].read
      /\ new.message = request[q].message
  BY <1>0 DEF RequestShape
<1> HIDE DEF new
<1>4. ReadingFits(new, tool, sections, versions)
  BY <1>0, <1>1, <1>3 DEF RequestFits, ReadingFits
<1>5. RequestFits(new, tool, Len(messages), sections, versions)
  BY <1>3, <1>4 DEF RequestFits
<1> QED BY <1>1, <1>2, <1>3, <1>5, ReadingGoesOn

-----------------------------------------------------------------------------
(* The second transaction.                                                 *)

\* A reply that is not refused.
Updating(q) ==
    /\ request[q].pc = "writing"
    /\ WriteSections(q) /\ WriteReply(q) /\ Ends(q)
    /\ UNCHANGED <<tool, crashes>>

\* A section that is written: what was read of it is what is stored.
LEMMA WritesOverWhatItRead ==
    ASSUME ChatInv, NEW q \in Requests, UpdateIdeation(q), NEW s \in Sections, s \in DOMAIN Updates(q)
    PROVE  /\ sections[s].version \in Nat
           /\ request[q].read[s].version = sections[s].version
<1>1. tool = "ideation" /\ request[q].pc = "writing" /\ ~ VersionTaken(q)
  BY DEF UpdateIdeation
<1>2. Traced(request[q].read[s], s, sections, versions) /\ sections[s].version \in Nat
  BY <1>1 DEF ChatInv, RequestFits, ReadingFits, SectionsFit
<1> DEFINE next == request[q].read[s].version + 1
<1>3. ~ HasVersion(s, next, versions)
  BY <1>1 DEF VersionTaken, HasVersion
<1>4. request[q].read[s].version \in Nat /\ request[q].read[s].version <= sections[s].version
      /\ (next <= sections[s].version => HasVersion(s, next, versions))
  BY <1>2 DEF Traced
<1> QED BY <1>2, <1>3, <1>4

\* What becomes of the sections of the ideation.
LEMMA SectionsGrow ==
    ASSUME ChatInv, NEW q \in Requests, UpdateIdeation(q)
    PROVE  /\ versions \subseteq versions'
           /\ \A s \in Sections :
                 \/ /\ s \in DOMAIN Updates(q)
                    /\ sections'[s].version = sections[s].version + 1 /\ sections[s].version \in Nat
                    /\ HasVersion(s, sections'[s].version, versions')
                    /\ sections'[s].percent = NewPercent(q, s)
                    /\ NewPercent(q, s) \in OnRecord(s, versions')
                 \/ s \notin DOMAIN Updates(q) /\ sections'[s] = sections[s]
<1> DEFINE version(s) == request[q].read[s].version + 1
           row(s) == [section |-> s, version |-> version(s), percent |-> NewPercent(q, s)]
           written(s) ==
             [version |-> version(s), percent |-> NewPercent(q, s),
              status |-> MapCompletionToSectionStatus(NewPercent(q, s), TRUE),
              refinement |-> MapStatusLabelToRefinementState(Updates(q)[s], TRUE),
              by |-> request[q].run]
<1>1. /\ sections' = [s \in Sections |-> IF s \in DOMAIN Updates(q) THEN written(s) ELSE sections[s]]
      /\ versions' = versions \cup {row(s) : s \in DOMAIN Updates(q)}
  BY DEF UpdateIdeation, WriteSections
<1>2. \A s : /\ written(s).version = version(s) /\ written(s).percent = NewPercent(q, s)
             /\ row(s).section = s /\ row(s).version = version(s)
             /\ row(s).percent = NewPercent(q, s)
  OBVIOUS
<1> HIDE DEF row, written
<1>3. versions \subseteq versions' /\ \A s \in DOMAIN Updates(q) : row(s) \in versions'
  BY <1>1
<1>4. ASSUME NEW s \in Sections, s \in DOMAIN Updates(q)
      PROVE  /\ sections'[s].version = sections[s].version + 1 /\ sections[s].version \in Nat
             /\ HasVersion(s, sections'[s].version, versions')
             /\ sections'[s].percent = NewPercent(q, s)
             /\ NewPercent(q, s) \in OnRecord(s, versions')
  <2>1. sections[s].version \in Nat /\ version(s) = sections[s].version + 1
    BY <1>4, WritesOverWhatItRead
  <2> HIDE DEF version
  <2>2. sections'[s].version = version(s) /\ sections'[s].percent = NewPercent(q, s)
    BY <1>1, <1>2, <1>4
  <2>3. HasVersion(s, version(s), versions')
    BY <1>2, <1>3, <1>4 DEF HasVersion
  <2>4. NewPercent(q, s) \in OnRecord(s, versions')
    BY <1>2, <1>3, <1>4 DEF OnRecord
  <2> QED BY <2>1, <2>2, <2>3, <2>4
<1>5. \A s \in Sections : s \notin DOMAIN Updates(q) => sections'[s] = sections[s]
  BY <1>1
<1> QED BY <1>3, <1>4, <1>5

LEMMA UpdatingKeepsInv ==
    ASSUME ChatInv, NEW q \in Requests, Updating(q), unlocked' \in BOOLEAN,
           Grown(tool, sections, versions, sections', versions'),
           SectionsFit(tool, sections', versions')
    PROVE  ChatInv'
<1>0. Len(messages) \in Nat /\ messages \in Seq(MessageRecord)
  BY DEF ChatInv
<1> DEFINE over == [NoRequest EXCEPT !.pc = "done"]
           i == request[q].message
           answered == MessageStatus(i, "SENT")
           reply == [from |-> "AGENT", status |-> "SENT"]
<1>1. NowAt(q, over) /\ UNCHANGED <<tool, crashes>>
      /\ RequestShape(over) /\ over.pc = "done"
      /\ RequestFits(over, tool, Len(messages'), sections', versions')
  BY OverIsFit DEF Updating, Ends, NowAt
<1>2. messages' = IF HasReply(q) THEN Append(answered, reply) ELSE answered
  BY DEF Updating, WriteReply
<1>3. /\ answered \in Seq(MessageRecord) /\ Len(answered) = Len(messages)
      /\ \A j \in 1 .. Len(messages) : answered[j].status = IF j = i THEN "SENT" ELSE messages[j].status
  BY <1>0, MessageMarked
<1>4. reply \in MessageRecord /\ reply.status = "SENT"
  BY DEF MessageRecord
<1> HIDE DEF over, answered, reply
<1>5. /\ messages' \in Seq(MessageRecord) /\ Len(messages) <= Len(messages')
      /\ \A j \in DOMAIN messages' : messages'[j].status = "PENDING" =>
            j # i /\ j \in DOMAIN messages /\ messages[j].status = "PENDING"
  <2>1. CASE HasReply(q)
    <3>1. /\ messages' \in Seq(MessageRecord) /\ Len(messages') = Len(messages) + 1
          /\ \A j \in 1 .. Len(messages) : messages'[j] = answered[j]
          /\ messages'[Len(messages) + 1] = reply
      BY <1>0, <1>2, <1>3, <1>4, <2>1
    <3> QED BY <1>0, <1>3, <1>4, <3>1
  <2>2. CASE ~ HasReply(q)
    BY <1>0, <1>2, <1>3, <2>2
  <2> QED BY <2>1, <2>2
<1>6. \A j \in DOMAIN messages' : messages'[j].status = "PENDING" =>
         ~ Settles(request[q], j) /\ j \in DOMAIN messages /\ messages[j].status = "PENDING"
  BY <1>5 DEF Settles
<1> QED BY <1>1, <1>5, <1>6, RequestGoesOn

LEMMA UpdateIdeationKeepsInv ==
    ASSUME ChatInv, NEW q \in Requests, UpdateIdeation(q)
    PROVE  ChatInv'
<1>1. Updating(q)
  BY DEF UpdateIdeation, Updating
<1>2. unlocked' \in BOOLEAN
  <2>1. unlocked' = ShouldUnlockStrategyTools(CalculateIdeationCompleteness(request[q].read, Updates(q)))
    BY DEF UpdateIdeation
  <2> HIDE DEF CalculateIdeationCompleteness
  <2> QED BY <2>1 DEF ShouldUnlockStrategyTools
<1>3. Grown(tool, sections, versions, sections', versions')
  BY SectionsGrow DEF Grown
<1>4. SectionsFit(tool, sections', versions')
  <2>1. sections' = [s \in Sections |-> sections'[s]]
    BY DEF UpdateIdeation, WriteSections
  <2>2. \A s \in Sections : sections[s].version \in Nat /\ sections[s].percent \in OnRecord(s, versions)
    BY DEF ChatInv, SectionsFit, UpdateIdeation
  <2>3. ASSUME NEW s \in Sections
        PROVE  sections'[s].version \in Nat /\ sections'[s].percent \in OnRecord(s, versions')
    <3>1. versions \subseteq versions'
      BY SectionsGrow
    <3>2. CASE sections'[s] = sections[s]
      BY <2>2, <3>1, <3>2, RecordsStay
    <3>3. CASE sections'[s] # sections[s]
      <4>1. /\ sections'[s].version = sections[s].version + 1 /\ sections[s].version \in Nat
            /\ sections'[s].percent = NewPercent(q, s) /\ NewPercent(q, s) \in OnRecord(s, versions')
        BY <3>3, SectionsGrow
      <4> QED BY <4>1
    <3> QED BY <3>2, <3>3
  <2> QED BY <2>1, <2>3 DEF SectionsFit
<1> QED BY <1>1, <1>2, <1>3, <1>4, UpdatingKeepsInv

\* The canvas: its sections say nothing the invariant asks for.
LEMMA UpdateValuePropositionKeepsInv ==
    ASSUME ChatInv, NEW q \in Requests, UpdateValueProposition(q)
    PROVE  ChatInv'
<1>1. Updating(q) /\ tool # "ideation" /\ UNCHANGED <<versions, unlocked>>
  BY DEF UpdateValueProposition, Updating
<1>2. unlocked' \in BOOLEAN /\ Grown(tool, sections, versions, sections', versions')
  BY <1>1 DEF ChatInv, Grown
<1>3. SectionsFit(tool, sections', versions')
  <2>1. sections' = [s \in Sections |-> sections'[s]]
    BY DEF UpdateValueProposition, WriteSections
  <2> QED BY <1>1, <2>1 DEF SectionsFit
<1> QED BY <1>1, <1>2, <1>3, UpdatingKeepsInv

-----------------------------------------------------------------------------
(* The theorems.                                                           *)

LEMMA ChatKeepsInv == ChatInv /\ [Next]_vars => ChatInv'
<1> SUFFICES ASSUME ChatInv, [Next]_vars PROVE ChatInv'
  OBVIOUS
<1>1. CASE UNCHANGED vars
  BY <1>1 DEF vars, document, ChatInv
<1>2. ASSUME NEW q \in Requests, Ask(q) \/ Work(q) PROVE ChatInv'
  <2>1. CASE UpdateIdeation(q) \/ UpdateValueProposition(q)
    BY <2>1, UpdateIdeationKeepsInv, UpdateValuePropositionKeepsInv
  <2> QED
    BY <1>2, <2>1, AskingKeepsInv, StartingKeepsInv, FailingKeepsInv, AnsweringKeepsInv,
       ReadingKeepsInv DEF Work
<1>3. CASE TwoMinutesPass
  BY <1>3 DEF TwoMinutesPass, rows, document, ChatInv
<1>4. CASE Crash
  <2> DEFINE over == [NoRequest EXCEPT !.pc = "done"]
  <2>1. /\ request' = [q \in Requests |-> IF request[q].pc = "new" THEN request[q] ELSE over]
        /\ crashes' = crashes + 1 /\ UNCHANGED <<tool, messages, sections, versions, unlocked>>
    BY <1>4 DEF Crash, rows, document
  <2>2. RequestFits(over, tool, Len(messages), sections, versions)
    BY OverIsFit
  <2> HIDE DEF over
  <2>3. /\ request' = [q \in Requests |-> request'[q]]
        /\ \A q \in Requests : RequestFits(request'[q], tool, Len(messages), sections, versions)
    BY <2>1, <2>2 DEF ChatInv
  <2>4. crashes' \in Nat /\ crashes' > 0
    BY <2>1 DEF ChatInv
  <2>5. Attended(messages, request', crashes')
    BY <2>4 DEF Attended
  <2> QED BY <2>1, <2>3, <2>4, <2>5 DEF ChatInv
<1> QED BY <1>1, <1>2, <1>3, <1>4 DEF Next

LEMMA ChatIsSound == Spec => []ChatInv
BY ChatInitInv, ChatKeepsInv, PTL DEF Spec

\* What steps other than an update leave alone.
LEMMA OnlyUpdatesWrite ==
    ASSUME [Next]_vars
    PROVE  \/ \E q \in Requests : UpdateIdeation(q) \/ UpdateValueProposition(q)
           \/ UNCHANGED <<sections, unlocked>>
BY DEF vars, document, rows, Next, Ask, Work, SendIdeationMessage, SendValuePropositionMessage,
       ResendLastIdeationMessage, ResendLastValuePropositionMessage, CloseStalledRun, StartIdeation,
       StartValueProposition, IdeationGatewayAnswers, IdeationGatewayFails,
       ReadMessages, ValuePropositionGatewayAnswers, ValuePropositionGatewayFails, RefuseIdeation,
       RefuseValueProposition, FailRefusedRun, TwoMinutesPass, Crash

\* However many requests of a thread overlap, whatever is sent again, and wherever the
\* server dies: no update of a section of the ideation is lost.  The numbers of its
\* versions see to it, even when those of the messages do not.
THEOREM NoUpdateIsLost == Spec => SectionsBuildOnTheLatest
<1>1. ChatInv /\ [Next]_vars =>
         [tool = "ideation" => \A s \in Sections :
             sections'[s].by # sections[s].by => sections'[s].version = sections[s].version + 1]_vars
  <2> SUFFICES ASSUME ChatInv, [Next]_vars, tool = "ideation", NEW s \in Sections,
                      sections'[s].by # sections[s].by
               PROVE  sections'[s].version = sections[s].version + 1
    OBVIOUS
  <2>1. PICK q \in Requests : UpdateIdeation(q) \/ UpdateValueProposition(q)
    BY OnlyUpdatesWrite
  <2>2. UpdateIdeation(q)
    BY <2>1 DEF UpdateValueProposition
  <2> QED BY <2>2, SectionsGrow
<1> QED BY <1>1, ChatIsSound, PTL DEF Spec, SectionsBuildOnTheLatest

\* However requests overlap and however old what they read is: the tools open on
\* evaluations that are on record, and no request locks them again.
THEOREM ToolsAreEarned == Spec => UnlocksAreEarned
<1>1. ChatInv /\ [Next]_vars =>
         [AvailableToolIds' # AvailableToolIds =>
             AvailableToolIds \subseteq AvailableToolIds' /\ EarnedBy(versions')]_vars
  <2> SUFFICES ASSUME ChatInv, [Next]_vars, AvailableToolIds' # AvailableToolIds
               PROVE  AvailableToolIds \subseteq AvailableToolIds' /\ EarnedBy(versions')
    OBVIOUS
  <2>1. unlocked' # unlocked /\ unlocked \in BOOLEAN
    BY DEF AvailableToolIds, ChatInv
  <2>2. PICK q \in Requests : UpdateIdeation(q)
    BY <2>1, OnlyUpdatesWrite DEF UpdateValueProposition
  <2> DEFINE mean == [s \in Sections |-> IF s \in DOMAIN Updates(q)
                                         THEN LabelToCompletionPercent(Updates(q)[s], TRUE)
                                         ELSE request[q].read[s].percent]
             computed == CalculateIdeationCompleteness(request[q].read, Updates(q))
             recorded(s) == OnRecord(s, versions')
  <2>3. unlocked' = ShouldUnlockStrategyTools(computed) /\ tool = "ideation"
    BY <2>2 DEF UpdateIdeation
  <2>4. computed = RoundedMean(mean)
    BY DEF CalculateIdeationCompleteness
  <2> HIDE DEF computed
  <2>5. ~ unlocked /\ computed >= UnlockAt
    BY <2>1, <2>3 DEF ShouldUnlockStrategyTools
  <2>6. AvailableToolIds \subseteq AvailableToolIds'
    BY <2>5 DEF AvailableToolIds, Tools
  <2>7. \A s \in Sections : mean[s] \in recorded(s)
    <3> SUFFICES ASSUME NEW s \in Sections PROVE mean[s] \in recorded(s)
      OBVIOUS
    <3>1. CASE s \in DOMAIN Updates(q)
      <4>1. NewPercent(q, s) = LabelToCompletionPercent(Updates(q)[s], TRUE)
        BY <2>3 DEF NewPercent
      <4>2. NewPercent(q, s) \in recorded(s)
        BY <2>2, <3>1, SectionsGrow
      <4> QED BY <3>1, <4>1, <4>2
    <3>2. CASE s \notin DOMAIN Updates(q)
      <4>1. request[q].read[s].percent \in OnRecord(s, versions)
        BY <2>2, <2>3 DEF ChatInv, RequestFits, ReadingFits, Traced, UpdateIdeation
      <4>2. versions \subseteq versions'
        BY <2>2, SectionsGrow
      <4>3. request[q].read[s].percent \in recorded(s)
        BY <4>1, <4>2, RecordsStay
      <4> QED BY <3>2, <4>3
    <3> QED BY <3>1, <3>2
  <2>8. mean = [s \in Sections |-> mean[s]]
    OBVIOUS
  <2> HIDE DEF mean, recorded
  <2>9. mean \in [Sections -> UNION {recorded(s) : s \in Sections}]
    BY <2>7, <2>8
  <2>10. RoundedMean(mean) >= UnlockAt
    BY <2>4, <2>5
  <2>11. EarnedBy(versions')
    BY <2>7, <2>9, <2>10 DEF EarnedBy, recorded
  <2> QED BY <2>6, <2>11
<1> QED BY <1>1, ChatIsSound, PTL DEF Spec, UnlocksAreEarned

\* However retries and their originals overlap: a message that is pending has a request
\* that will settle it, unless the server died.
THEOREM PendingIsAttended == Spec => []PendingHasRequest
<1>1. ChatInv => PendingHasRequest
  BY DEF ChatInv, Attended, Settles, PendingHasRequest
<1> QED BY <1>1, ChatIsSound, PTL
================================================================================
