------------------------------- MODULE Dialogue -------------------------------
(***************************************************************************)
(* The two applications of one session answering each other's messages:    *)
(* orders, reports, and rejects of the engine ("3", or "j" for a missing   *)
(* field) and of FromApp ("j").                                            *)
(*                                                                         *)
(* Lines deliver every message in order, over disconnects too: that is     *)
(* what Wire shows of a session.  An application reads only while the      *)
(* session is up.  A process killed between FromApp and the engine's count *)
(* of the message is handed it again when it is back.                      *)
(***************************************************************************)
EXTENDS Handshake, Sequences

CONSTANTS
    ClOrdIDs,
    MaxMessages,   \* messages that are not answers (bound)
    MaxAgain       \* times one of them, or its answers, is handed over again (bound)

ASSUME DialogueAssumption == MaxMessages \in Nat /\ MaxAgain \in Nat

VARIABLES
    toVenue, toClient,  \* messages on their way
    reading,            \* the message each application has and its engine has not counted
    book,               \* ClOrdIDs of Book.orders
    silenced,           \* App.silenced
    sent                \* history: the messages that were not answers, and what became of them

dialogueVars == <<toVenue, toClient, reading, book, silenced, sent>>
vars == <<handshakeVars, dialogueVars>>

\* MsgType (35): order, report, business reject, session reject, and one that
\* neither application knows (News, say).
ReportType  == "8"
RejectTypes == {"j", "3"}
Types       == {"D", ReportType, "B"} \cup RejectTypes

Sides == {"client", "venue"}

\* Answers to answers are told apart up to the third.
MaxDepth == 3
Depths   == 0..MaxDepth

\* flaw is what dictionary validation finds: a value out of range, a field
\* missing that FromApp reads, or nothing.  about is the place in sent of what
\* it began with, and depth is 0 for that one, 1 for its answer, and so on.
Message(type, id, flaw, about, depth) ==
    [type |-> type, id |-> id, flaw |-> flaw, about |-> about, depth |-> depth]

NoID   == "no ClOrdID"
Flaws  == {"none", "value", "missing"}
NoMail == [about |-> 0]

Mail == [type : Types, id : ClOrdIDs \cup {NoID}, flaw : Flaws, about : DOMAIN sent,
         depth : Depths]

\* answers counts the answers to the message itself, chain how far answers to
\* answers went, again how often any of them was handed over again; muted says
\* that a report it called for was dropped.
Sendings == [by : Sides, type : Types, flaw : Flaws, answers : Nat, chain : Depths,
             again : 0..MaxAgain, muted : BOOLEAN]

TypeOK ==
    /\ HandshakeTypeOK
    /\ {toVenue, toClient} \subseteq Seq(Mail)
    /\ reading \in [Sides -> Mail \cup {NoMail}]
    /\ book \subseteq ClOrdIDs
    /\ silenced \in BOOLEAN
    /\ sent \in Seq(Sendings)
    /\ Len(sent) <= MaxMessages

Init ==
    /\ HandshakeInit
    /\ toVenue = << >> /\ toClient = << >>
    /\ reading = [who \in Sides |-> NoMail]
    /\ book = {}
    /\ silenced = FALSE
    /\ sent = << >>

----------------------------------------------------------------------------
(* Messages that are not answers. *)

\* What a client may send: orders, well made or not, and on either session
\* what it should not.
FromClient(n) ==
    {Message("D", id, flaw, n, 0) : id \in ClOrdIDs, flaw \in Flaws}
    \cup {Message("B", NoID, "none", n, 0)}

\* What a venue may send unasked: reports, one with a value the client's
\* dictionary does not have (378=100 was one) or a field left out, and a type
\* the client does not know.
FromVenue(n) ==
    {Message(ReportType, NoID, flaw, n, 0) : flaw \in Flaws}
    \cup {Message("B", NoID, "none", n, 0)}

\* The bound: a message handed over again takes the place of another.
Room ==
    Len(sent) + (IF \E n \in DOMAIN sent : sent[n].again > 0 THEN 1 ELSE 0) < MaxMessages

Sent(who, m) ==
    /\ Room
    /\ sent' = Append(sent, [by |-> who, type |-> m.type, flaw |-> m.flaw, answers |-> 0,
                             chain |-> 0, again |-> 0, muted |-> FALSE])

ClientSends ==
    /\ loggedOn
    /\ \E m \in FromClient(Len(sent) + 1) :
         Sent("client", m) /\ toVenue' = Append(toVenue, m)
    /\ UNCHANGED <<handshakeVars, toClient, reading, book, silenced>>

\* publish sends to a session that is down as well, and not when silenced.
VenueSends ==
    /\ \E m \in FromVenue(Len(sent) + 1) :
         /\ m.type = ReportType => ~ silenced
         /\ Sent("venue", m) /\ toClient' = Append(toClient, m)
    /\ UNCHANGED <<handshakeVars, toVenue, reading, book, silenced>>

\* POST /admin/silence, on or off.
SetSilenced ==
    /\ silenced' = ~ silenced
    /\ UNCHANGED <<handshakeVars, toVenue, toClient, reading, book, sent>>

----------------------------------------------------------------------------
(* Answers: the type of the message that goes back, or Silence. *)

Silence == "silence"

\* Validation comes first: with RejectInvalidMessage=Y what is invalid is
\* answered by the engine and never reaches FromApp; with N, FromApp gets it.
\* A session reject is an admin message: FromAdmin lets it pass.
Validated(m, rejectInvalid, fromApp) ==
    IF m.type = "3" THEN Silence
    ELSE IF m.flaw = "none" \/ ~ rejectInvalid THEN fromApp
    ELSE IF m.flaw = "value" THEN "3" ELSE "j"

\* Book.Insert refuses a ClOrdID it has.
KnownClOrdID(m) == m.id \in book

\* FromApp that takes any message for an order.
UncheckedFromApp(m) == IF m.type \in RejectTypes THEN Silence ELSE ReportType

\* App.FromApp: the drop-copy side answers everything, rejects as well.
VenueFromApp(m) ==
    IF kind = KindDropCopy THEN "j"
    ELSE IF m.type \in RejectTypes THEN Silence
    ELSE IF m.type = "D" /\ ~ KnownClOrdID(m) THEN ReportType ELSE "j"

\* OrderEntry.FromApp without its case for business rejects, and a venue that
\* does not know them either, are the two halves of a reject storm.
StormyOrderEntryFromApp(m) == IF m.type = ReportType THEN Silence ELSE "j"

OrderEntryFromApp(m) == IF m.type \in {ReportType, "j"} THEN Silence ELSE "j"

\* A drop copy that rejects what it does not expect, as order entry does.
RejectingDropCopyFromApp(m) == IF m.type = ReportType THEN Silence ELSE "j"

\* DropCopy.FromApp: what is not a report is logged, and a report is recorded
\* unless a field is missing; that error the engine answers.
DropCopyFromApp(m) ==
    IF m.type = ReportType /\ m.flaw = "missing" THEN "j" ELSE Silence

RejectInvalidEverywhere(k) == TRUE

\* The client's setting, by session; the venue's is Y on both.
RejectInvalidMessage(k) == k = KindOrderEntry

ClientFromApp(m) ==
    IF kind = KindDropCopy THEN DropCopyFromApp(m) ELSE OrderEntryFromApp(m)

VenueAnswer(m)  == Validated(m, TRUE, VenueFromApp(m))
ClientAnswer(m) == Validated(m, RejectInvalidMessage(kind), ClientFromApp(m))

\* publish drops a report while the venue is silenced, after taking its ExecID.
Published(type) == IF type = ReportType /\ silenced THEN Silence ELSE type

Deeper(depth) == IF depth < MaxDepth THEN depth + 1 ELSE MaxDepth

Replied(queue, m, type) ==
    IF type = Silence THEN queue
    ELSE Append(queue, Message(type, m.id, "none", m.about, Deeper(m.depth)))

\* The entry of sent that m is about, once m is answered with type.
Answered(s, m, type) ==
    IF type = Silence THEN s
    ELSE [s EXCEPT !.answers = IF m.depth = 0 THEN @ + 1 ELSE @,
                   !.chain = IF @ < Deeper(m.depth) THEN Deeper(m.depth) ELSE @]

Muted(s, dropped) == [s EXCEPT !.muted = @ \/ dropped]

\* The next message is handed over; an order is booked whether or not its
\* report is dropped.
VenueReads ==
    /\ loggedOn /\ reading["venue"] = NoMail /\ toVenue # << >>
    /\ LET m == Head(toVenue)
           type == VenueAnswer(m)
           shown == Published(type)
       IN  /\ reading' = [reading EXCEPT !["venue"] = m]
           /\ toClient' = Replied(toClient, m, shown)
           /\ sent' = [sent EXCEPT ![m.about] = Muted(Answered(@, m, shown), shown # type)]
           /\ book' = IF type = ReportType THEN book \cup {m.id} ELSE book
    /\ toVenue' = Tail(toVenue)
    /\ UNCHANGED <<handshakeVars, silenced>>

ClientReads ==
    /\ loggedOn /\ reading["client"] = NoMail /\ toClient # << >>
    /\ LET m == Head(toClient)
           type == ClientAnswer(m)
       IN  /\ reading' = [reading EXCEPT !["client"] = m]
           /\ toVenue' = Replied(toVenue, m, type)
           /\ sent' = [sent EXCEPT ![m.about] = Answered(@, m, type)]
    /\ toClient' = Tail(toClient)
    /\ UNCHANGED <<handshakeVars, book, silenced>>

\* FromApp has returned and the engine counts the message.
Count(who) ==
    /\ reading[who] # NoMail
    /\ reading' = [reading EXCEPT ![who] = NoMail]
    /\ UNCHANGED <<handshakeVars, toVenue, toClient, book, silenced, sent>>

----------------------------------------------------------------------------
(* Starts. *)

\* What the other side resends because the process died before counting it.
Resent(who, queue) == IF reading[who] = NoMail THEN queue ELSE <<reading[who]>> \o queue

Killed(who) ==
    /\ reading' = [reading EXCEPT ![who] = NoMail]
    /\ IF reading[who] = NoMail
       THEN sent' = sent
       ELSE /\ Room /\ sent[reading[who].about].again < MaxAgain
            /\ sent' = [sent EXCEPT ![reading[who].about].again = @ + 1]

\* The venue starts anew: the book is in memory, the message stores are not.
RestartVenue ==
    /\ LoadKinds
    /\ Killed("venue")
    /\ toVenue' = Resent("venue", toVenue)
    /\ book' = {} /\ silenced' = FALSE
    /\ UNCHANGED toClient

RestartClient ==
    /\ StartClient
    /\ Killed("client")
    /\ toClient' = Resent("client", toClient)
    /\ UNCHANGED <<toVenue, book, silenced>>

\* The goroutine that hands messages over is the one that logs on.
Session ==
    /\ HandshakeNext
    /\ loggedOn' => loggedOn \/ \A who \in Sides : reading[who] = NoMail
    /\ UNCHANGED dialogueVars

Next ==
    \/ ClientSends \/ VenueSends \/ SetSilenced
    \/ VenueReads \/ ClientReads \/ \E who \in Sides : Count(who)
    \/ Session \/ RestartVenue \/ RestartClient

\* Each side reads what has arrived and counts it; nobody has to send, to log
\* on or to be killed.
Fairness ==
    /\ WF_vars(VenueReads) /\ WF_vars(ClientReads)
    /\ \A who \in Sides : WF_vars(Count(who))

Spec == Init /\ [][Next]_vars /\ Fairness

----------------------------------------------------------------------------
(*                               Properties                                *)

Unread(queue, n) == \E i \in DOMAIN queue : queue[i].about = n

\* Message n is a report that a drop-copy client cannot make sense of.
Broken(n) == kind = KindDropCopy /\ sent[n].by = "venue" /\ sent[n].flaw = "missing"

\* Side who has answered message n, or an answer to what it sent as n.
AnsweredBy(who, n) == sent[n].chain > (IF sent[n].by = who THEN 1 ELSE 0)

\* Whatever is sent is answered at most once each time it is handed over, and
\* no answer is answered, by either side's engine or application, but for a
\* drop copy's reject of a broken report, once.  What a client sent and the
\* venue has read was answered, over kills and restarts, unless the venue was
\* silenced and accepted the order.
AnsweredOnce ==
    \A n \in DOMAIN sent :
        /\ sent[n].answers <= 1 + sent[n].again
        /\ sent[n].chain <= 1 \/ (sent[n].chain = 2 /\ Broken(n))
        /\ (sent[n].by = "client" /\ ~ Unread(toVenue, n)) =>
             \/ sent[n].answers > 0
             \/ /\ sent[n].muted /\ sent[n].type = "D" /\ sent[n].flaw = "none"
                /\ kind = KindOrderEntry

\* A drop-copy client sends session traffic only: neither FromApp nor its
\* engine answers anything a venue sends, a message of another type or a value
\* out of range included; only a report with a field missing is answered.
DropCopyIsSilent ==
    kind = KindDropCopy =>
      \A n \in DOMAIN sent :
        AnsweredBy("client", n) => sent[n].type = ReportType /\ sent[n].flaw = "missing"

\* On a session that stays up the two sides stop talking once nobody has
\* anything to say: no reject storm.
FallsSilent ==
    <>[]loggedOn => <>[](toVenue = << >> /\ toClient = << >>)

----------------------------------------------------------------------------
(* What comments and drills say of rejects and this code does not keep.     *)

\* Drill 11 on the drop-copy session: "It must never emit a Reject".
DropCopyNeverRejects ==
    kind = KindDropCopy => \A n \in DOMAIN sent : ~ AnsweredBy("client", n)

\* exchange.go on FromApp: "Never reject a reject".  Whatever an application
\* answers to an answer is one: a report that answers an order has no flaw.
NoRejectIsRejected == \A n \in DOMAIN sent : sent[n].chain <= 1
=============================================================================
