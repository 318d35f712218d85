---------------------------- MODULE DialogueProofs ----------------------------
(***************************************************************************)
(* Theorems about one session's Logon and about the messages of the two    *)
(* applications, for any passwords, orders and number of messages.         *)
(***************************************************************************)
EXTENDS Dialogue, TLAPS

USE HandshakeAssumption, DialogueAssumption
    DEF KindOrderEntry, KindDropCopy, NoPassword, CODDisabled, ReportType, RejectTypes,
        Silence

----------------------------------------------------------------------------
(* The Logon.                                                               *)

\* What the venue should hold for a client that was started with c.
Asked(c) == IF c.codType = CODDisabled THEN NoRequest ELSE c

\* A Logon under way asks for what the running client was started with: that
\* client cannot be replaced while its Logon is on the line.
LogonInv ==
    /\ line # NoLogon => line.request = Asked(creds)
    /\ ArmedAsAsked

\* Each verdict is the one the password captured at the start calls for.
VerdictInv == \A v \in judged : v[2] = (expect = NoPassword \/ v[1] = expect)

HandshakeInv == HandshakeTypeOK /\ LogonInv /\ VerdictInv

LEMMA CredentialTypes ==
  ASSUME NEW k, NEW c \in LogonCredentials(k)
  PROVE  c \in [codType : Nat, window : Nat] /\ Asked(c) \in [codType : Nat, window : Nat]
  BY DEF LogonCredentials, Asked, NoRequest, Request

LEMMA InitHandshake == HandshakeInit => HandshakeInv
<1> SUFFICES ASSUME HandshakeInit PROVE HandshakeInv
  OBVIOUS
<1>1. HandshakeTypeOK
  BY DEF HandshakeInit, HandshakeTypeOK, Env, NoRequest, Request
<1> QED BY <1>1 DEF HandshakeInit, HandshakeInv, LogonInv, ArmedAsAsked, VerdictInv,
                    NoRequest, Request

LEMMA StepHandshake ==
  ASSUME HandshakeInv, HandshakeNext \/ StartClient \/ LoadKinds \/ UNCHANGED handshakeVars
  PROVE  HandshakeInv'
<1> USE DEF HandshakeInv, HandshakeTypeOK, LogonInv, ArmedAsAsked, VerdictInv
<1>1. CASE SendLogon
  BY <1>1 DEF SendLogon, InjectLogon, Asked, Env
<1>2. CASE StartClient
  BY <1>2 DEF StartClient
<1>3. CASE FromAdmin
  <2> DEFINE ok == checkPassword(line.password)
  <2>1. /\ line # NoLogon /\ line' = NoLogon /\ line.password \in Env
        /\ judged' = IF rejectLogons THEN judged ELSE judged \cup {<<line.password, ok>>}
        /\ UNCHANGED <<kind, env, creds, expect, rejectLogons>>
        /\ \/ cod' = line.request /\ loggedOn' = TRUE /\ wanted' = creds
           \/ UNCHANGED <<cod, loggedOn, wanted>>
    BY <1>3 DEF FromAdmin
  <2>2. VerdictInv'
    BY <2>1 DEF checkPassword
  <2>3. LogonInv'
    BY <2>1 DEF Asked
  <2>4. cod' \in [codType : Nat, window : Nat]
    BY <2>1, CredentialTypes
  <2>5. judged' \subseteq Env \X BOOLEAN
    <3>1. ok \in BOOLEAN
      BY DEF checkPassword
    <3> HIDE DEF ok
    <3> QED BY <2>1, <3>1
  <2>6. HandshakeTypeOK'
    BY <2>1, <2>4, <2>5
  <2> QED BY <2>2, <2>3, <2>6
<1>4. CASE SetRejectLogons
  BY <1>4 DEF SetRejectLogons
<1>5. CASE EditEnv
  BY <1>5 DEF EditEnv
<1>6. CASE Lost
  BY <1>6 DEF Lost
<1>7. CASE LoadKinds
  BY <1>7 DEF LoadKinds, Env, NoRequest, Request
<1>8. CASE UNCHANGED handshakeVars
  BY <1>8 DEF handshakeVars
<1> QED BY <1>1, <1>2, <1>3, <1>4, <1>5, <1>6, <1>7, <1>8 DEF HandshakeNext

\* Only these steps of the dialogue touch the session.
LEMMA DialogueHandshake ==
  ASSUME [Next]_vars
  PROVE  HandshakeNext \/ StartClient \/ LoadKinds \/ UNCHANGED handshakeVars
  BY DEF Next, ClientSends, VenueSends, SetSilenced, VenueReads, ClientReads, Count, Session,
         RestartVenue, RestartClient, vars

LEMMA HandshakeInvariance == Spec => []HandshakeInv
<1> QED BY InitHandshake, StepHandshake, DialogueHandshake, PTL DEF Spec, Init

\* The venue's arming is what the client it admitted last was started with.
THEOREM Arming == Spec => []ArmedAsAsked
<1>1. HandshakeInv => ArmedAsAsked
  BY DEF HandshakeInv, LogonInv
<1> QED BY <1>1, HandshakeInvariance, PTL

\* The verdict on a password depends on nothing that changes under a venue.
THEOREM Judging == Spec => []VenueJudgesAlike
<1>1. HandshakeInv => VenueJudgesAlike
  BY DEF HandshakeInv, VerdictInv, VenueJudgesAlike
<1> QED BY <1>1, HandshakeInvariance, PTL

----------------------------------------------------------------------------
(* Queues of messages.                                                      *)

\* Mail, whatever it is about.
Letter == [type : Types, id : ClOrdIDs \cup {NoID}, flaw : Flaws, about : Nat \ {0},
           depth : Depths]

In(queue) == {queue[i] : i \in DOMAIN queue}

\* Of the messages that are no answers no two have one number.
Distinct(queue) ==
    \A i, j \in DOMAIN queue :
        /\ queue[i].depth = 0 /\ queue[j].depth = 0
        /\ queue[i].about = queue[j].about
        => i = j

\* The same of a message being read and those behind it.
Apart(queue, m) ==
    m # NoMail /\ m.depth = 0 => \A p \in In(queue) : p.depth = 0 => p.about # m.about

LEMMA Taking ==
  ASSUME NEW queue \in Seq(Letter), queue # << >>, Distinct(queue)
  PROVE  /\ Head(queue) \in In(queue) /\ Head(queue) \in Letter
         /\ Tail(queue) \in Seq(Letter) /\ Distinct(Tail(queue))
         /\ Apart(Tail(queue), Head(queue))
         /\ In(queue) = In(Tail(queue)) \cup {Head(queue)}
<1> DEFINE rest == Tail(queue)
           n    == Len(queue)
<1>1. /\ n \in Nat \ {0} /\ DOMAIN queue = 1..n /\ Head(queue) = queue[1]
      /\ rest \in Seq(Letter) /\ DOMAIN rest = 1..(n - 1)
      /\ \A i \in 1..(n - 1) : rest[i] = queue[i + 1]
      /\ \A i \in 1..n : queue[i] \in Letter
  OBVIOUS
<1> HIDE DEF rest, n
<1>2. Distinct(rest)
  <2> SUFFICES ASSUME NEW i \in 1..(n - 1), NEW j \in 1..(n - 1),
                      rest[i].depth = 0, rest[j].depth = 0, rest[i].about = rest[j].about
               PROVE  i = j
    BY <1>1 DEF Distinct
  <2>1. i + 1 \in DOMAIN queue /\ j + 1 \in DOMAIN queue
        /\ queue[i + 1].about = queue[j + 1].about
        /\ queue[i + 1].depth = 0 /\ queue[j + 1].depth = 0
    BY <1>1
  <2>2. i + 1 = j + 1
    BY <2>1 DEF Distinct
  <2> QED BY <1>1, <2>2
<1>3. Apart(rest, queue[1])
  <2> SUFFICES ASSUME queue[1].depth = 0, NEW p \in In(rest), p.depth = 0
               PROVE  p.about # queue[1].about
    BY DEF Apart
  <2>1. PICK i \in 1..(n - 1) : p = queue[i + 1]
    BY <1>1 DEF In
  <2>2. i + 1 \in DOMAIN queue /\ 1 \in DOMAIN queue /\ i + 1 # 1
    BY <1>1
  <2> QED BY <2>1, <2>2 DEF Distinct
<1>4. ASSUME NEW m \in In(queue) PROVE m = queue[1] \/ m \in In(rest)
  <2>1. PICK i \in 1..n : m = queue[i]
    BY <1>1 DEF In
  <2>2. CASE i # 1
    <3>1. i - 1 \in 1..(n - 1) /\ rest[i - 1] = queue[i]
      BY <1>1, <2>2
    <3> QED BY <1>1, <2>1, <3>1 DEF In
  <2> QED BY <2>1, <2>2
<1>5. ASSUME NEW m \in In(rest) PROVE m \in In(queue)
  <2>1. PICK i \in 1..(n - 1) : m = queue[i + 1]
    BY <1>1 DEF In
  <2> QED BY <1>1, <2>1 DEF In
<1>6. queue[1] \in In(queue)
  BY <1>1 DEF In
<1> QED BY <1>1, <1>2, <1>3, <1>4, <1>5, <1>6 DEF rest

LEMMA Putting ==
  ASSUME NEW queue \in Seq(Letter), NEW m \in Letter
  PROVE  /\ Append(queue, m) \in Seq(Letter)
         /\ In(Append(queue, m)) = In(queue) \cup {m}
         /\ Distinct(queue) /\ (m.depth = 0 => \A p \in In(queue) : p.about # m.about)
              => Distinct(Append(queue, m))
<1> DEFINE new == Append(queue, m)
           n   == Len(queue)
<1>1. /\ n \in Nat /\ DOMAIN queue = 1..n /\ new \in Seq(Letter) /\ DOMAIN new = 1..(n + 1)
      /\ \A i \in 1..n : new[i] = queue[i]
      /\ new[n + 1] = m
  OBVIOUS
<1> HIDE DEF new, n
<1>2. \A i \in DOMAIN new : i \in DOMAIN queue \/ i = n + 1
  BY <1>1
<1>3. In(new) = In(queue) \cup {m}
  <2>1. ASSUME NEW p \in In(new) PROVE p \in In(queue) \cup {m}
    BY <1>1, <1>2 DEF In
  <2>2. ASSUME NEW p \in In(queue) PROVE p \in In(new)
    <3>1. PICK i \in DOMAIN queue : p = queue[i]
      BY DEF In
    <3>2. i \in DOMAIN new /\ new[i] = p
      BY <1>1, <3>1
    <3> QED BY <3>2 DEF In
  <2>3. m \in In(new)
    <3>1. n + 1 \in DOMAIN new
      BY <1>1
    <3> QED BY <1>1, <3>1 DEF In
  <2> QED BY <2>1, <2>2, <2>3
<1>4. ASSUME Distinct(queue), m.depth = 0 => \A p \in In(queue) : p.about # m.about
      PROVE  Distinct(new)
  <2> SUFFICES ASSUME NEW i \in DOMAIN new, NEW j \in DOMAIN new,
                      new[i].depth = 0, new[j].depth = 0, new[i].about = new[j].about
               PROVE  i = j
    BY DEF Distinct
  <2>1. \A k \in DOMAIN queue : new[k] = queue[k] /\ (m.depth = 0 => queue[k].about # m.about)
    BY <1>1, <1>4 DEF In
  <2>2. CASE i \in DOMAIN queue /\ j \in DOMAIN queue
    BY <1>4, <2>1, <2>2 DEF Distinct
  <2> QED BY <1>1, <1>2, <2>1, <2>2
<1> QED BY <1>1, <1>3, <1>4 DEF new

\* A message put back in front.
LEMMA PuttingBack ==
  ASSUME NEW queue \in Seq(Letter), NEW m \in Letter, Distinct(queue), Apart(queue, m),
         m # NoMail
  PROVE  LET new == <<m>> \o queue
         IN  new \in Seq(Letter) /\ In(new) = In(queue) \cup {m} /\ Distinct(new)
<1> DEFINE new == <<m>> \o queue
           n   == Len(queue)
<1>1. /\ n \in Nat /\ DOMAIN queue = 1..n
      /\ new \in Seq(Letter) /\ DOMAIN new = 1..(n + 1) /\ new[1] = m
      /\ \A i \in 2..(n + 1) : new[i] = queue[i - 1]
  OBVIOUS
<1> HIDE DEF new, n
<1>2. \A i \in DOMAIN new : i = 1 \/ (i - 1 \in DOMAIN queue /\ new[i] = queue[i - 1])
  BY <1>1
<1>3. In(new) = In(queue) \cup {m}
  <2>1. ASSUME NEW p \in In(new) PROVE p \in In(queue) \cup {m}
    BY <1>1, <1>2 DEF In
  <2>2. ASSUME NEW p \in In(queue) PROVE p \in In(new)
    <3>1. PICK i \in DOMAIN queue : p = queue[i]
      BY DEF In
    <3>2. i + 1 \in DOMAIN new /\ new[i + 1] = p
      BY <1>1, <3>1
    <3> QED BY <3>2 DEF In
  <2>3. m \in In(new)
    <3>1. 1 \in DOMAIN new
      BY <1>1
    <3> QED BY <1>1, <3>1 DEF In
  <2> QED BY <2>1, <2>2, <2>3
<1>4. Distinct(new)
  <2> SUFFICES ASSUME NEW i \in DOMAIN new, NEW j \in DOMAIN new,
                      new[i].depth = 0, new[j].depth = 0, new[i].about = new[j].about
               PROVE  i = j
    BY DEF Distinct
  <2>1. \A k \in DOMAIN queue : queue[k].depth = 0 /\ m.depth = 0 => queue[k].about # m.about
    BY DEF Apart, In
  <2>2. CASE i # 1 /\ j # 1
    <3>1. i - 1 = j - 1
      BY <1>2, <2>2 DEF Distinct
    <3> QED BY <1>1, <3>1
  <2> QED BY <1>1, <1>2, <2>1, <2>2
<1> QED BY <1>1, <1>3, <1>4 DEF new

----------------------------------------------------------------------------
(* The invariant.                                                           *)

\* What a side has not read yet.
Queue(who) == IF who = "venue" THEN toVenue ELSE toClient

\* m is what side by sent, or has been handed over since.
Begun(by, m) ==
    /\ m.depth = 0 /\ sent[m.about].by = by
    /\ m.type = sent[m.about].type /\ m.flaw = sent[m.about].flaw

\* What a side is sent: what the other began with, an answer of a type it takes
\* in silence, a drop copy's reject of a broken report and the venue's answer
\* to that.
VenueMail(m) ==
    \/ Begun("client", m) /\ (m.type = "D" => m.id \in ClOrdIDs)
    \/ /\ m.depth = 1 /\ m.flaw = "none" /\ m.type \in RejectTypes
       /\ sent[m.about].by = "venue" /\ (kind = KindOrderEntry \/ Broken(m.about))

ClientMail(m) ==
    \/ Begun("venue", m)
    \/ /\ m.depth = 1 /\ m.flaw = "none" /\ m.type \in {ReportType} \cup RejectTypes
       /\ sent[m.about].by = "client"
    \/ m.depth = 2 /\ m.flaw = "none" /\ m.type = "j" /\ Broken(m.about)

Expected(who, m) == IF who = "venue" THEN VenueMail(m) ELSE ClientMail(m)

\* A message that is no answer waits to be read once, counting the one that is
\* being read.
MailInv(who) ==
    /\ Queue(who) \in Seq(Letter) /\ reading[who] \in Letter \cup {NoMail}
    /\ Distinct(Queue(who)) /\ Apart(Queue(who), reading[who])
    /\ \A m \in In(Queue(who)) \cup ({reading[who]} \ {NoMail}) :
         m.about \in DOMAIN sent /\ Expected(who, m)

\* Message n has not been read, or is to be read again.
First(n) ==
    \E who \in Sides : \E p \in In(Queue(who)) : p.depth = 0 /\ p.about = n

Accepted(n) ==
    sent[n].muted /\ sent[n].type = "D" /\ sent[n].flaw = "none" /\ kind = KindOrderEntry

SentInv(n) ==
    /\ sent[n].type \in (IF sent[n].by = "venue" THEN {ReportType, "B"} ELSE {"D", "B"})
    /\ sent[n].type = "B" => sent[n].flaw = "none"
    /\ sent[n].answers <= sent[n].again + (IF First(n) THEN 0 ELSE 1)
    /\ sent[n].chain <= 1 \/ (sent[n].chain = 2 /\ Broken(n))
    /\ kind = KindDropCopy /\ sent[n].by = "venue" /\ sent[n].chain > 0 => Broken(n)
    /\ sent[n].by = "client" => First(n) \/ sent[n].answers > 0 \/ Accepted(n)

DialogueInv ==
    /\ sent \in Seq(Sendings) /\ Len(sent) <= MaxMessages
    /\ reading \in [Sides -> Letter \cup {NoMail}]
    /\ book \subseteq ClOrdIDs /\ silenced \in BOOLEAN
    /\ \A who \in Sides : MailInv(who)
    /\ \A n \in DOMAIN sent : SentInv(n)

LEMMA NoLetter == NoMail \notin Letter
  BY DEF NoMail, Letter

\* What m is expected to be rests on the session and on what was sent.
LEMMA Kept ==
  ASSUME kind' = kind, NEW n, sent'[n].by = sent[n].by, sent'[n].type = sent[n].type,
         sent'[n].flaw = sent[n].flaw
  PROVE  /\ Broken(n)' <=> Broken(n)
         /\ \A who \in Sides : \A m : m.about = n /\ Expected(who, m) => Expected(who, m)'
<1>1. Broken(n)' <=> Broken(n)
  BY DEF Broken
<1> QED BY <1>1 DEF Expected, VenueMail, ClientMail, Begun

LEMMA VenueAnswers ==
  ASSUME HandshakeTypeOK, NEW m \in Letter, VenueMail(m), SentInv(m.about)
  PROVE  /\ VenueAnswer(m) \in {ReportType, Silence} \cup RejectTypes
         /\ m.depth = 0 => VenueAnswer(m) # Silence
         /\ VenueAnswer(m) = ReportType =>
              /\ kind = KindOrderEntry /\ m.depth = 0 /\ m.type = "D" /\ m.flaw = "none"
              /\ m.id \in ClOrdIDs
         /\ m.depth # 0 /\ VenueAnswer(m) # Silence =>
              m.depth = 1 /\ VenueAnswer(m) = "j" /\ Broken(m.about)
<1>1. kind \in {KindOrderEntry, KindDropCopy} /\ m.flaw \in {"none", "value", "missing"}
  BY DEF HandshakeTypeOK, Letter, Flaws
<1>2. CASE Begun("client", m) /\ (m.type = "D" => m.id \in ClOrdIDs)
  <2>1. m.type \in {"D", "B"} /\ m.depth = 0 /\ (m.type = "B" => m.flaw = "none")
    BY <1>2 DEF Begun, SentInv
  <2>2. VenueFromApp(m) \in {ReportType, "j"}
        /\ (VenueFromApp(m) = ReportType => kind = KindOrderEntry /\ m.type = "D")
    BY <1>1, <2>1 DEF VenueFromApp
  <2>3. VenueAnswer(m) = IF m.flaw = "none" THEN VenueFromApp(m)
                         ELSE IF m.flaw = "value" THEN "3" ELSE "j"
    BY <2>1 DEF VenueAnswer, Validated
  <2> QED BY <1>1, <1>2, <2>1, <2>2, <2>3
<1>3. CASE /\ m.depth = 1 /\ m.flaw = "none" /\ m.type \in RejectTypes
           /\ kind = KindOrderEntry \/ Broken(m.about)
  <2>1. VenueAnswer(m) \in {Silence, "j"}
    BY <1>1, <1>3 DEF VenueAnswer, Validated, VenueFromApp
  <2>2. kind = KindOrderEntry => VenueAnswer(m) = Silence
    BY <1>3 DEF VenueAnswer, Validated, VenueFromApp
  <2> QED BY <1>1, <1>3, <2>1, <2>2
<1> QED BY <1>2, <1>3 DEF VenueMail

LEMMA ClientAnswers ==
  ASSUME HandshakeTypeOK, NEW m \in Letter, ClientMail(m), SentInv(m.about)
  PROVE  /\ ClientAnswer(m) \in RejectTypes \cup {Silence}
         /\ ClientAnswer(m) # Silence =>
              m.depth = 0 /\ sent[m.about].by = "venue"
              /\ (kind = KindOrderEntry \/ (Broken(m.about) /\ ClientAnswer(m) = "j"))
<1>1. kind \in {KindOrderEntry, KindDropCopy} /\ m.flaw \in {"none", "value", "missing"}
  BY DEF HandshakeTypeOK, Letter, Flaws
<1>2. CASE kind = KindDropCopy
  <2>1. ClientAnswer(m) = IF m.type # "3" /\ m.type = ReportType /\ m.flaw = "missing"
                          THEN "j" ELSE Silence
    BY <1>2 DEF ClientAnswer, Validated, RejectInvalidMessage, ClientFromApp, DropCopyFromApp
  <2> QED BY <1>2, <2>1 DEF ClientMail, Begun, Broken
<1>3. CASE kind = KindOrderEntry
  <2>1. ClientAnswer(m) = IF m.type = "3" THEN Silence
                          ELSE IF m.flaw = "none" THEN OrderEntryFromApp(m)
                          ELSE IF m.flaw = "value" THEN "3" ELSE "j"
    BY <1>3 DEF ClientAnswer, Validated, RejectInvalidMessage, ClientFromApp
  <2>2. ~ Broken(m.about)
    BY <1>3 DEF Broken
  <2> QED BY <1>1, <1>3, <2>1, <2>2 DEF ClientMail, Begun, OrderEntryFromApp
<1> QED BY <1>1, <1>2, <1>3

LEMMA InitDialogue == Init => DialogueInv
<1> SUFFICES ASSUME Init PROVE DialogueInv
  OBVIOUS
<1>1. sent = << >> /\ DOMAIN sent = {} /\ \A who \in Sides : Queue(who) = << >>
  BY DEF Init, Queue
<1>2. reading = [who \in Sides |-> NoMail] /\ book = {} /\ silenced = FALSE
  BY DEF Init
<1>3. \A who \in Sides : MailInv(who)
  <2>1. << >> \in Seq(Letter) /\ In(<< >>) = {} /\ Distinct(<< >>)
    BY DEF In, Distinct
  <2> QED BY <1>1, <1>2, <2>1 DEF MailInv, Apart
<1>4. sent \in Seq(Sendings) /\ Len(sent) <= MaxMessages
  BY <1>1
<1> QED BY <1>1, <1>2, <1>3, <1>4 DEF DialogueInv

----------------------------------------------------------------------------
(* The steps.                                                               *)

LEMMA Replacing ==
  ASSUME NEW S, NEW queue \in Seq(S), NEW n \in DOMAIN queue, NEW f \in S
  PROVE  LET new == [queue EXCEPT ![n] = f]
         IN  /\ new \in Seq(S) /\ DOMAIN new = DOMAIN queue /\ Len(new) = Len(queue)
             /\ new[n] = f /\ \A i \in DOMAIN queue : i # n => new[i] = queue[i]
  OBVIOUS

\* Only the answers to a message, and whether one was dropped, change.
LEMMA Answering ==
  ASSUME NEW e \in Sendings, NEW m \in Letter, NEW shown, NEW muted \in BOOLEAN
  PROVE  LET f == [Answered(e, m, shown) EXCEPT !.muted = muted]
             d == Deeper(m.depth)
         IN  /\ f \in Sendings /\ f.by = e.by /\ f.type = e.type /\ f.flaw = e.flaw
             /\ f.again = e.again /\ f.muted = muted
             /\ f.answers = e.answers + (IF shown # Silence /\ m.depth = 0 THEN 1 ELSE 0)
             /\ f.chain = IF shown # Silence /\ e.chain < d THEN d ELSE e.chain
<1>1. PICK d \in Depths : d = Deeper(m.depth)
  BY DEF Letter, Depths, MaxDepth, Deeper
<1>2. PICK a : a = Answered(e, m, shown)
  OBVIOUS
<1>3. /\ a \in Sendings /\ a.by = e.by /\ a.type = e.type /\ a.flaw = e.flaw
      /\ a.again = e.again
      /\ a.answers = e.answers + (IF shown # Silence /\ m.depth = 0 THEN 1 ELSE 0)
      /\ a.chain = IF shown # Silence /\ e.chain < d THEN d ELSE e.chain
  <2>1. CASE shown = Silence
    BY <1>2, <2>1 DEF Answered, Sendings
  <2>2. CASE shown # Silence
    <3>1. PICK x : x = e.answers + (IF shown # Silence /\ m.depth = 0 THEN 1 ELSE 0)
      OBVIOUS
    <3>2. PICK y : y = IF shown # Silence /\ e.chain < d THEN d ELSE e.chain
      OBVIOUS
    <3>3. x \in Nat /\ y \in Depths /\ e.answers \in Nat
      BY <3>1, <3>2 DEF Sendings
    <3>4. /\ x = IF m.depth = 0 THEN e.answers + 1 ELSE e.answers
          /\ y = IF e.chain < d THEN d ELSE e.chain
      BY <2>2, <3>1, <3>2, <3>3
    <3>5. a = [e EXCEPT !.answers = x, !.chain = y]
      BY ONLY <1>1, <1>2, <2>2, <3>4 DEF Answered
    <3> QED BY <3>1, <3>2, <3>3, <3>5 DEF Sendings
  <2> QED BY <2>1, <2>2
<1>4. PICK f : f = [a EXCEPT !.muted = muted]
  OBVIOUS
<1>5. /\ f \in Sendings /\ f.by = a.by /\ f.type = a.type /\ f.flaw = a.flaw
      /\ f.again = a.again /\ f.muted = muted /\ f.answers = a.answers /\ f.chain = a.chain
  BY <1>3, <1>4 DEF Sendings
<1> QED BY <1>1, <1>2, <1>3, <1>4, <1>5

\* Side who reads m, and shown, if anything, goes back.
LEMMA ReadStep ==
  ASSUME DialogueInv, kind' = kind,
         NEW who \in Sides, NEW other \in Sides, who # other,
         NEW m, NEW shown \in Types \cup {Silence}, NEW muted \in BOOLEAN,
         reading[who] = NoMail, Queue(who) # << >>, m = Head(Queue(who)),
         reading' = [reading EXCEPT ![who] = m],
         Queue(who)' = Tail(Queue(who)), Queue(other)' = Replied(Queue(other), m, shown),
         sent' = [sent EXCEPT ![m.about] =
                    [Answered(sent[m.about], m, shown) EXCEPT !.muted = muted]],
         sent[m.about].muted => muted,
         shown # Silence =>
           /\ Expected(other, Message(shown, m.id, "none", m.about, Deeper(m.depth)))
           /\ m.depth = 0 \/ (m.depth = 1 /\ Broken(m.about))
           /\ kind = KindDropCopy /\ sent[m.about].by = "venue" => Broken(m.about),
         sent[m.about].by = "client" /\ m.depth = 0 =>
           \/ shown # Silence
           \/ /\ muted /\ sent[m.about].type = "D" /\ sent[m.about].flaw = "none"
              /\ kind = KindOrderEntry,
         book' \subseteq ClOrdIDs, silenced' \in BOOLEAN
  PROVE  DialogueInv'
<1> DEFINE n == m.about
           r == Message(shown, m.id, "none", n, Deeper(m.depth))
<1>1. /\ m \in In(Queue(who)) /\ m \in Letter /\ n \in DOMAIN sent /\ Expected(who, m)
      /\ Queue(who)' \in Seq(Letter) /\ Distinct(Queue(who)') /\ Apart(Queue(who)', m)
      /\ In(Queue(who)) = In(Queue(who)') \cup {m}
  <2>1. MailInv(who)
    BY DEF DialogueInv
  <2> QED BY <2>1, Taking DEF MailInv
<1>2. /\ sent \in Seq(Sendings) /\ sent[n] \in Sendings /\ DOMAIN sent' = DOMAIN sent
      /\ sent' \in Seq(Sendings) /\ Len(sent') = Len(sent)
      /\ \A i \in DOMAIN sent : i # n => sent'[i] = sent[i]
      /\ sent'[n].by = sent[n].by /\ sent'[n].type = sent[n].type /\ sent'[n].flaw = sent[n].flaw
      /\ sent'[n].again = sent[n].again /\ sent'[n].muted = muted
      /\ sent'[n].answers = sent[n].answers + (IF shown # Silence /\ m.depth = 0 THEN 1 ELSE 0)
      /\ sent'[n].chain = IF shown # Silence /\ sent[n].chain < Deeper(m.depth)
                          THEN Deeper(m.depth) ELSE sent[n].chain
  <2>1. sent \in Seq(Sendings) /\ sent[n] \in Sendings
    BY <1>1 DEF DialogueInv
  <2>2. PICK f : f = [Answered(sent[n], m, shown) EXCEPT !.muted = muted]
    OBVIOUS
  <2>3. /\ f \in Sendings /\ f.by = sent[n].by /\ f.type = sent[n].type
        /\ f.flaw = sent[n].flaw /\ f.again = sent[n].again /\ f.muted = muted
        /\ f.answers = sent[n].answers + (IF shown # Silence /\ m.depth = 0 THEN 1 ELSE 0)
        /\ f.chain = IF shown # Silence /\ sent[n].chain < Deeper(m.depth)
                     THEN Deeper(m.depth) ELSE sent[n].chain
    BY <1>1, <2>1, <2>2, Answering
  <2>4. sent' = [sent EXCEPT ![n] = f]
    BY <2>2
  <2> HIDE DEF n
  <2>5. n \in DOMAIN sent
    BY <1>1
  <2>6. /\ sent' \in Seq(Sendings) /\ DOMAIN sent' = DOMAIN sent /\ Len(sent') = Len(sent)
        /\ sent'[n] = f /\ \A i \in DOMAIN sent : i # n => sent'[i] = sent[i]
    BY ONLY <2>1, <2>3, <2>4, <2>5, Replacing
  <2> QED BY ONLY <2>1, <2>3, <2>5, <2>6
<1>3. /\ \A i \in DOMAIN sent : Broken(i)' <=> Broken(i)
      /\ \A s \in Sides : \A p : p.about \in DOMAIN sent /\ Expected(s, p) => Expected(s, p)'
  <2>1. \A i \in DOMAIN sent : /\ sent'[i].by = sent[i].by /\ sent'[i].type = sent[i].type
                               /\ sent'[i].flaw = sent[i].flaw
    BY <1>2
  <2> QED BY <2>1, Kept
<1>4. shown # Silence => r \in Letter /\ r.depth # 0 /\ r.about = n
  BY <1>1 DEF Message, Letter, Flaws, Deeper, Depths, MaxDepth
<1>5. /\ Queue(other)' \in Seq(Letter) /\ Distinct(Queue(other)')
      /\ In(Queue(other)') = In(Queue(other)) \cup (IF shown = Silence THEN {} ELSE {r})
  <2>1. Queue(other) \in Seq(Letter) /\ Distinct(Queue(other))
    BY DEF DialogueInv, MailInv
  <2>2. CASE shown = Silence
    BY <2>1, <2>2 DEF Replied
  <2>3. CASE shown # Silence
    <3>1. Queue(other)' = Append(Queue(other), r)
      BY <2>3 DEF Replied
    <3> QED BY <1>4, <2>1, <2>3, <3>1, Putting
  <2> QED BY <2>2, <2>3
<1>6. MailInv(who)'
  <2>1. reading'[who] = m
    BY DEF DialogueInv
  <2>2. \A p \in In(Queue(who)') \cup {m} : p.about \in DOMAIN sent /\ Expected(who, p)
    BY <1>1 DEF DialogueInv, MailInv
  <2>3. \A p \in In(Queue(who)') \cup {m} : p.about \in DOMAIN sent' /\ Expected(who, p)'
    BY <1>2, <1>3, <2>2
  <2> QED BY <1>1, <2>1, <2>3 DEF MailInv
<1>7. MailInv(other)'
  <2>1. reading'[other] = reading[other] /\ MailInv(other)
    BY DEF DialogueInv
  <2>2. \A p \in In(Queue(other)') \cup ({reading[other]} \ {NoMail}) :
          p.about \in DOMAIN sent' /\ Expected(other, p)'
    BY <1>1, <1>2, <1>3, <1>4, <1>5, <2>1 DEF MailInv
  <2>3. Apart(Queue(other)', reading[other])
    BY <1>4, <1>5, <2>1 DEF Apart, MailInv
  <2> QED BY <1>5, <2>1, <2>2, <2>3 DEF MailInv
<1>8. /\ \A i : i # n \/ m.depth # 0 => (First(i)' <=> First(i))
      /\ m.depth = 0 => First(n) /\ ~ First(n)'
  <2>1. Sides = {who, other}
    BY DEF Sides
  <2>2. \A p \in In(Queue(other)') : p.depth = 0 => p \in In(Queue(other))
    BY <1>4, <1>5
  <2>3. In(Queue(other)) \subseteq In(Queue(other)')
    BY <1>5
  <2>4. \A i : i # n \/ m.depth # 0 => (First(i)' <=> First(i))
    BY <1>1, <2>1, <2>2, <2>3 DEF First
  <2>5. ASSUME m.depth = 0, NEW p \in In(Queue(other)), p.depth = 0 PROVE p.about # n
    <3>1. Expected(other, p)
      BY <2>5 DEF DialogueInv, MailInv
    <3>2. /\ Begun(IF other = "venue" THEN "client" ELSE "venue", p)
          /\ Begun(IF who = "venue" THEN "client" ELSE "venue", m)
      BY ONLY <1>1, <2>5, <3>1 DEF Expected, VenueMail, ClientMail
    <3>3. sent[p.about].by = who /\ sent[n].by = other
      BY ONLY <3>2, who \in Sides, other \in Sides, who # other DEF Begun, Sides
    <3> QED BY ONLY <3>3, who # other
  <2>6. m.depth = 0 => \A p \in In(Queue(who)') : p.depth = 0 => p.about # n
    BY <1>1, NoLetter DEF Apart
  <2>7. m.depth = 0 => First(n)
    BY <1>1 DEF First
  <2>8. m.depth = 0 => ~ First(n)'
    BY <2>1, <2>2, <2>5, <2>6 DEF First
  <2> QED BY <2>4, <2>7, <2>8
<1>9. ASSUME NEW i \in DOMAIN sent' PROVE SentInv(i)'
  <2>1. SentInv(i) /\ (Broken(i)' <=> Broken(i)) /\ kind' = kind
    BY <1>2, <1>3 DEF DialogueInv
  <2>2. CASE i # n
    BY <1>2, <1>8, <2>1, <2>2 DEF SentInv, Accepted
  <2>3. CASE i = n
    <3>1. sent[n].answers \in Nat /\ sent[n].again \in Nat /\ sent[n].chain \in 0..3
      BY <1>2 DEF Sendings, Depths, MaxDepth
    <3>2. /\ m.depth \in 0..3 /\ (m.depth = 0 => Deeper(m.depth) = 1)
          /\ (m.depth = 1 => Deeper(m.depth) = 2)
      BY <1>1 DEF Letter, Depths, MaxDepth, Deeper
    <3>3. sent'[n].answers <= sent'[n].again + (IF First(n)' THEN 0 ELSE 1)
      BY <1>2, <1>8, <2>1, <2>3, <3>1, <3>2 DEF SentInv
    <3>4. /\ sent'[n].chain <= 1 \/ (sent'[n].chain = 2 /\ Broken(n))
          /\ kind = KindDropCopy /\ sent[n].by = "venue" /\ sent'[n].chain > 0 => Broken(n)
      BY <1>2, <2>1, <2>3, <3>1, <3>2 DEF SentInv
    <3>5. sent[n].by = "client" => First(n)' \/ sent'[n].answers > 0 \/ Accepted(n)'
      BY <1>2, <1>8, <2>1, <2>3, <3>1, <3>2 DEF SentInv, Accepted
    <3> QED BY <1>2, <2>1, <2>3, <3>3, <3>4, <3>5 DEF SentInv
  <2> QED BY <2>2, <2>3
<1>10. reading' \in [Sides -> Letter \cup {NoMail}] /\ Len(sent') <= MaxMessages
  BY <1>1, <1>2 DEF DialogueInv
<1>11. \A s \in Sides : MailInv(s)'
  BY <1>6, <1>7 DEF Sides
<1> QED BY <1>2, <1>9, <1>10, <1>11 DEF DialogueInv

LEMMA VenueStep ==
  ASSUME HandshakeTypeOK, DialogueInv, VenueReads
  PROVE  DialogueInv'
<1>1. PICK m, type, shown, muted :
        /\ m = Head(toVenue) /\ type = VenueAnswer(m) /\ shown = Published(type)
        /\ muted = (sent[m.about].muted \/ shown # type)
  OBVIOUS
<1>2. /\ reading["venue"] = NoMail /\ toVenue # << >>
      /\ reading' = [reading EXCEPT !["venue"] = m]
      /\ toClient' = Replied(toClient, m, shown) /\ toVenue' = Tail(toVenue)
      /\ sent' = [sent EXCEPT ![m.about] =
                     Muted(Answered(sent[m.about], m, shown), shown # type)]
      /\ book' = IF type = ReportType THEN book \cup {m.id} ELSE book
      /\ kind' = kind /\ silenced' = silenced
  <2>1. /\ reading["venue"] = NoMail /\ toVenue # << >> /\ toVenue' = Tail(toVenue)
        /\ UNCHANGED <<handshakeVars, silenced>>
    BY DEF VenueReads
  <2>2. /\ reading' = [reading EXCEPT !["venue"] = m]
        /\ toClient' = Replied(toClient, m, shown)
        /\ book' = IF type = ReportType THEN book \cup {m.id} ELSE book
    BY <1>1, Zenon DEF VenueReads
  <2>3. sent' = [sent EXCEPT ![m.about] =
                   Muted(Answered(sent[m.about], m, shown), shown # type)]
    BY <1>1, Zenon DEF VenueReads
  <2> QED BY <2>1, <2>2, <2>3 DEF handshakeVars
<1>3. m \in Letter /\ VenueMail(m) /\ m.about \in DOMAIN sent /\ SentInv(m.about)
      /\ sent[m.about] \in Sendings
  <2>1. MailInv("venue") /\ Queue("venue") = toVenue
    BY DEF DialogueInv, Sides, Queue
  <2>2. m \in Letter /\ m \in In(toVenue)
    BY <1>1, <1>2, <2>1, Taking DEF MailInv
  <2> QED BY <2>1, <2>2 DEF MailInv, Expected, DialogueInv
<1>4. /\ type \in {ReportType, Silence} \cup RejectTypes
      /\ m.depth = 0 => type # Silence
      /\ type = ReportType => kind = KindOrderEntry /\ m.depth = 0 /\ m.type = "D"
                             /\ m.flaw = "none" /\ m.id \in ClOrdIDs
      /\ m.depth # 0 /\ type # Silence => m.depth = 1 /\ type = "j" /\ Broken(m.about)
  BY <1>1, <1>3, VenueAnswers
<1>5. shown = type \/ (shown = Silence /\ type = ReportType)
  BY <1>1 DEF Published
<1>6. /\ m.depth = 0 => Begun("client", m)
      /\ Deeper(0) = 1 /\ Deeper(1) = 2
  BY <1>3 DEF VenueMail, Deeper, MaxDepth
<1>7. Answered(sent[m.about], m, shown).muted = sent[m.about].muted
  BY <1>3 DEF Answered, Sendings
<1>8. /\ sent' = [sent EXCEPT ![m.about] =
                     [Answered(sent[m.about], m, shown) EXCEPT !.muted = muted]]
      /\ muted \in BOOLEAN /\ (sent[m.about].muted => muted)
  BY <1>1, <1>2, <1>7 DEF Muted
<1>9. shown # Silence =>
        /\ Expected("client", Message(shown, m.id, "none", m.about, Deeper(m.depth)))
        /\ m.depth = 0 \/ (m.depth = 1 /\ Broken(m.about))
        /\ kind = KindDropCopy /\ sent[m.about].by = "venue" => Broken(m.about)
  BY <1>4, <1>5, <1>6 DEF Expected, ClientMail, Message, Begun
<1>10. sent[m.about].by = "client" /\ m.depth = 0 =>
         \/ shown # Silence
         \/ /\ muted /\ sent[m.about].type = "D" /\ sent[m.about].flaw = "none"
            /\ kind = KindOrderEntry
  BY <1>1, <1>4, <1>5, <1>6 DEF Begun
<1>11. book' \subseteq ClOrdIDs /\ silenced' \in BOOLEAN /\ shown \in Types \cup {Silence}
  BY <1>2, <1>4, <1>5 DEF DialogueInv, Types
<1>12. /\ Queue("venue") # << >> /\ m = Head(Queue("venue"))
       /\ Queue("venue")' = Tail(Queue("venue"))
       /\ Queue("client")' = Replied(Queue("client"), m, shown)
  BY <1>1, <1>2 DEF Queue
<1>13. "venue" \in Sides /\ "client" \in Sides
  BY DEF Sides
<1>14. reading["venue"] = NoMail /\ reading' = [reading EXCEPT !["venue"] = m] /\ kind' = kind
  BY <1>2
<1> QED
  BY ONLY DialogueInv, <1>8, <1>9, <1>10, <1>11, <1>12, <1>13, <1>14, ReadStep, Zenon

LEMMA ClientStep ==
  ASSUME HandshakeTypeOK, DialogueInv, ClientReads
  PROVE  DialogueInv'
<1>1. PICK m, type : m = Head(toClient) /\ type = ClientAnswer(m)
  OBVIOUS
<1>2. /\ reading["client"] = NoMail /\ toClient # << >>
      /\ reading' = [reading EXCEPT !["client"] = m]
      /\ toVenue' = Replied(toVenue, m, type) /\ toClient' = Tail(toClient)
      /\ sent' = [sent EXCEPT ![m.about] = Answered(sent[m.about], m, type)]
      /\ kind' = kind /\ silenced' = silenced /\ book' = book
  BY <1>1, Zenon DEF ClientReads, handshakeVars
<1>3. m \in Letter /\ ClientMail(m) /\ m.about \in DOMAIN sent /\ SentInv(m.about)
      /\ sent[m.about] \in Sendings
  <2>1. MailInv("client") /\ Queue("client") = toClient
    BY DEF DialogueInv, Sides, Queue
  <2>2. m \in Letter /\ m \in In(toClient)
    BY <1>1, <1>2, <2>1, Taking DEF MailInv
  <2> QED BY <2>1, <2>2 DEF MailInv, Expected, DialogueInv
<1>4. /\ type \in RejectTypes \cup {Silence}
      /\ type # Silence => m.depth = 0 /\ sent[m.about].by = "venue"
                          /\ (kind = KindOrderEntry \/ Broken(m.about))
  BY <1>1, <1>3, ClientAnswers
<1>5. PICK muted : muted = sent[m.about].muted
  OBVIOUS
<1>6. Answered(sent[m.about], m, type) = [Answered(sent[m.about], m, type) EXCEPT !.muted = muted]
  BY <1>3, <1>5 DEF Answered, Sendings
<1>7. /\ sent' = [sent EXCEPT ![m.about] =
                     [Answered(sent[m.about], m, type) EXCEPT !.muted = muted]]
      /\ muted \in BOOLEAN /\ (sent[m.about].muted => muted)
  BY <1>2, <1>3, <1>5, <1>6 DEF Sendings
<1>8. Deeper(0) = 1
  BY DEF Deeper, MaxDepth
<1>9. type # Silence =>
        /\ Expected("venue", Message(type, m.id, "none", m.about, Deeper(m.depth)))
        /\ m.depth = 0 \/ (m.depth = 1 /\ Broken(m.about))
        /\ kind = KindDropCopy /\ sent[m.about].by = "venue" => Broken(m.about)
  BY <1>4, <1>8 DEF Expected, VenueMail, Message
<1>10. sent[m.about].by = "client" => m.depth # 0
  BY <1>3 DEF ClientMail, Begun
<1>11. book' \subseteq ClOrdIDs /\ silenced' \in BOOLEAN /\ type \in Types \cup {Silence}
  BY <1>2, <1>4 DEF DialogueInv, Types
<1>12. /\ Queue("client") # << >> /\ m = Head(Queue("client"))
       /\ Queue("client")' = Tail(Queue("client"))
       /\ Queue("venue")' = Replied(Queue("venue"), m, type)
  BY <1>1, <1>2 DEF Queue
<1>13. "venue" \in Sides /\ "client" \in Sides
  BY DEF Sides
<1>14. reading["client"] = NoMail /\ reading' = [reading EXCEPT !["client"] = m] /\ kind' = kind
  BY <1>2
<1> QED
  BY ONLY DialogueInv, <1>7, <1>9, <1>10, <1>11, <1>12, <1>13, <1>14, ReadStep, Zenon

LEMMA NothingMoves ==
  ASSUME DialogueInv, kind' = kind, UNCHANGED <<toVenue, toClient, reading, sent>>,
         book' \subseteq ClOrdIDs, silenced' \in BOOLEAN
  PROVE  DialogueInv'
<1>1. \A who \in Sides : Queue(who)' = Queue(who)
  BY DEF Queue
<1>2. \A n : (Broken(n)' <=> Broken(n)) /\ (First(n)' <=> First(n))
  BY <1>1 DEF Broken, First
<1>3. \A who \in Sides : \A m : Expected(who, m) => Expected(who, m)'
  BY Kept
<1>4. \A who \in Sides : MailInv(who)'
  BY <1>1, <1>3 DEF DialogueInv, MailInv
<1>5. \A n \in DOMAIN sent' : SentInv(n)'
  BY <1>2 DEF DialogueInv, SentInv, Accepted
<1> QED BY <1>4, <1>5 DEF DialogueInv

LEMMA CountStep ==
  ASSUME DialogueInv, NEW who \in Sides, Count(who)
  PROVE  DialogueInv'
<1>1. /\ reading' = [reading EXCEPT ![who] = NoMail]
      /\ UNCHANGED <<toVenue, toClient, book, silenced, sent>> /\ kind' = kind
  BY DEF Count, handshakeVars
<1>2. \A s \in Sides : Queue(s)' = Queue(s)
  BY <1>1 DEF Queue
<1>3. \A n : (Broken(n)' <=> Broken(n)) /\ (First(n)' <=> First(n))
  BY <1>1, <1>2 DEF Broken, First
<1>4. \A s \in Sides : \A m : Expected(s, m) => Expected(s, m)'
  BY <1>1, Kept
<1>5. /\ reading' \in [Sides -> Letter \cup {NoMail}]
      /\ \A s \in Sides : reading'[s] = IF s = who THEN NoMail ELSE reading[s]
  BY <1>1 DEF DialogueInv
<1>6. ASSUME NEW s \in Sides PROVE MailInv(s)'
  <2>1. MailInv(s)
    BY DEF DialogueInv
  <2>2. reading'[s] \in {NoMail, reading[s]}
    BY <1>5
  <2>3. Apart(Queue(s), reading'[s])
    BY <2>1, <2>2 DEF MailInv, Apart
  <2>4. \A m \in In(Queue(s)) \cup ({reading'[s]} \ {NoMail}) :
          m.about \in DOMAIN sent /\ Expected(s, m)
    BY <2>1, <2>2 DEF MailInv
  <2>5. \A m \in In(Queue(s)) \cup ({reading'[s]} \ {NoMail}) :
          m.about \in DOMAIN sent' /\ Expected(s, m)'
    BY <1>1, <1>4, <2>4
  <2> QED BY <1>2, <2>1, <2>2, <2>3, <2>5 DEF MailInv
<1>7. \A n \in DOMAIN sent' : SentInv(n)'
  BY <1>1, <1>3 DEF DialogueInv, SentInv, Accepted
<1> QED BY <1>1, <1>5, <1>6, <1>7 DEF DialogueInv

\* What was being read goes back in front, with one more reading to come.
LEMMA KillStep ==
  ASSUME DialogueInv, kind' = kind, NEW who \in Sides, NEW other \in Sides, who # other,
         Killed(who), Queue(who)' = Resent(who, Queue(who)), Queue(other)' = Queue(other),
         book' \subseteq ClOrdIDs, silenced' \in BOOLEAN,
         reading[who] # NoMail
  PROVE  DialogueInv'
<1>0. PICK m, n : m = reading[who] /\ n = m.about
  OBVIOUS
<1>1. MailInv(who) /\ MailInv(other) /\ Sides = {who, other}
  BY DEF DialogueInv, Sides
<1>2. m \in Letter /\ n \in DOMAIN sent /\ Expected(who, m)
  BY <1>0, <1>1 DEF MailInv
<1>3. /\ reading' = [reading EXCEPT ![who] = NoMail]
      /\ reading'[who] = NoMail /\ reading'[other] = reading[other]
      /\ reading' \in [Sides -> Letter \cup {NoMail}]
  BY DEF Killed, DialogueInv
<1>4. /\ Queue(who)' \in Seq(Letter) /\ In(Queue(who)') = In(Queue(who)) \cup {m}
      /\ Distinct(Queue(who)')
  <2>1. Queue(who)' = <<m>> \o Queue(who)
    BY <1>0 DEF Resent
  <2> QED BY <1>0, <1>1, <1>2, <2>1, PuttingBack DEF MailInv
<1>5. /\ sent \in Seq(Sendings) /\ sent[n] \in Sendings /\ sent' \in Seq(Sendings)
      /\ DOMAIN sent' = DOMAIN sent /\ Len(sent') = Len(sent)
      /\ \A i \in DOMAIN sent : i # n => sent'[i] = sent[i]
      /\ sent'[n].by = sent[n].by /\ sent'[n].type = sent[n].type /\ sent'[n].flaw = sent[n].flaw
      /\ sent'[n].answers = sent[n].answers /\ sent'[n].chain = sent[n].chain
      /\ sent'[n].again = sent[n].again + 1 /\ sent'[n].muted = sent[n].muted
  <2>1. sent \in Seq(Sendings) /\ sent[n] \in Sendings
    BY <1>2 DEF DialogueInv
  <2>2. PICK f : f = [sent[n] EXCEPT !.again = @ + 1]
    OBVIOUS
  <2>3. sent' = [sent EXCEPT ![n] = f] /\ sent[n].again < MaxAgain
    BY <1>0, <2>2, Zenon DEF Killed
  <2>4. sent[n].again + 1 \in 0..MaxAgain
    BY <2>1, <2>3 DEF Sendings
  <2>5. /\ f \in Sendings /\ f.by = sent[n].by /\ f.type = sent[n].type
        /\ f.flaw = sent[n].flaw /\ f.answers = sent[n].answers /\ f.chain = sent[n].chain
        /\ f.again = sent[n].again + 1 /\ f.muted = sent[n].muted
    BY ONLY <2>1, <2>2, <2>4 DEF Sendings
  <2>6. n \in DOMAIN sent
    BY <1>2
  <2>7. /\ sent' \in Seq(Sendings) /\ DOMAIN sent' = DOMAIN sent /\ Len(sent') = Len(sent)
        /\ sent'[n] = f /\ \A i \in DOMAIN sent : i # n => sent'[i] = sent[i]
    BY ONLY <2>1, <2>3, <2>5, <2>6, Replacing
  <2> QED BY ONLY <2>1, <2>5, <2>6, <2>7
<1>6. /\ \A i \in DOMAIN sent : Broken(i)' <=> Broken(i)
      /\ \A s \in Sides : \A p : p.about \in DOMAIN sent /\ Expected(s, p) => Expected(s, p)'
  <2>1. \A i \in DOMAIN sent : /\ sent'[i].by = sent[i].by /\ sent'[i].type = sent[i].type
                               /\ sent'[i].flaw = sent[i].flaw
    BY <1>5
  <2> QED BY <2>1, Kept
<1>7. MailInv(who)'
  <2>1. \A p \in In(Queue(who)') : p.about \in DOMAIN sent' /\ Expected(who, p)'
    BY <1>0, <1>1, <1>2, <1>4, <1>5, <1>6 DEF MailInv
  <2> QED BY <1>3, <1>4, <2>1 DEF MailInv, Apart
<1>8. MailInv(other)'
  <2>1. \A p \in In(Queue(other)) \cup ({reading[other]} \ {NoMail}) :
          p.about \in DOMAIN sent' /\ Expected(other, p)'
    BY <1>1, <1>5, <1>6 DEF MailInv
  <2> QED BY <1>1, <1>3, <2>1 DEF MailInv
<1>9. ASSUME NEW i \in DOMAIN sent' PROVE SentInv(i)'
  <2>1. SentInv(i) /\ (Broken(i)' <=> Broken(i)) /\ kind' = kind
    BY <1>5, <1>6 DEF DialogueInv
  <2>2. (First(i) => First(i)') /\ (i # n => (First(i)' <=> First(i)))
    <3>1. In(Queue(other)') = In(Queue(other)) /\ In(Queue(who)') = In(Queue(who)) \cup {m}
      BY <1>4
    <3> QED BY <1>0, <1>1, <3>1 DEF First
  <2>3. CASE i # n
    BY <1>5, <2>1, <2>2, <2>3 DEF SentInv, Accepted
  <2>4. CASE i = n
    <3>1. sent[n].answers \in Nat /\ sent[n].again \in Nat
      BY <1>5 DEF Sendings
    <3>2. sent'[n].answers <= sent'[n].again + (IF First(n)' THEN 0 ELSE 1)
      BY <1>5, <2>1, <2>4, <3>1 DEF SentInv
    <3>3. SentInv(n) /\ (Broken(n)' <=> Broken(n)) /\ (First(n) => First(n)')
          /\ (Accepted(n)' <=> Accepted(n))
      BY <1>5, <2>1, <2>2, <2>4 DEF Accepted
    <3>4. SentInv(n)'
      BY ONLY <1>5, <2>1, <3>2, <3>3 DEF SentInv
    <3> QED BY ONLY <2>4, <3>4
  <2> QED BY <2>3, <2>4
<1>10. \A s \in Sides : MailInv(s)'
  BY <1>1, <1>7, <1>8
<1> QED BY <1>3, <1>5, <1>9, <1>10 DEF DialogueInv

\* A message of its own is the first of its number.
LEMMA SendStep ==
  ASSUME DialogueInv, ClientSends \/ VenueSends
  PROVE  DialogueInv'
<1>0. PICK n : n = Len(sent) + 1
  OBVIOUS
<1>1. PICK who \in Sides, other \in Sides, m \in FromVenue(n) \cup FromClient(n) :
        /\ Sent(who, m) /\ who # other
        /\ m \in (IF who = "venue" THEN FromVenue(n) ELSE FromClient(n))
        /\ Queue(IF who = "venue" THEN "client" ELSE "venue")' =
             Append(Queue(IF who = "venue" THEN "client" ELSE "venue"), m)
        /\ Queue(who)' = Queue(who)
        /\ reading' = reading /\ book' = book /\ silenced' = silenced /\ kind' = kind
  <2>1. CASE ClientSends
    <3>1. PICK m \in FromClient(n) : Sent("client", m) /\ toVenue' = Append(toVenue, m)
      BY <1>0, <2>1 DEF ClientSends
    <3>2. UNCHANGED <<handshakeVars, toClient, reading, book, silenced>>
      BY <2>1 DEF ClientSends
    <3> QED BY <3>1, <3>2 DEF Queue, Sides, handshakeVars
  <2>2. CASE VenueSends
    <3>1. PICK m \in FromVenue(n) : Sent("venue", m) /\ toClient' = Append(toClient, m)
      BY <1>0, <2>2 DEF VenueSends
    <3>2. UNCHANGED <<handshakeVars, toVenue, reading, book, silenced>>
      BY <2>2 DEF VenueSends
    <3> QED BY <3>1, <3>2 DEF Queue, Sides, handshakeVars
  <2> QED BY <2>1, <2>2
<1>2. /\ other = (IF who = "venue" THEN "client" ELSE "venue")
      /\ Queue(other)' = Append(Queue(other), m) /\ Sides = {who, other}
  BY <1>1 DEF Sides
<1>3. /\ n \in Nat \ {0} /\ n \notin DOMAIN sent /\ sent \in Seq(Sendings)
      /\ MailInv(who) /\ MailInv(other)
  BY <1>0 DEF DialogueInv
<1>4. /\ m \in Letter /\ m.about = n /\ m.depth = 0
      /\ m.type \in (IF who = "venue" THEN {ReportType, "B"} ELSE {"D", "B"})
      /\ m.type = "B" => m.flaw = "none"
      /\ m.type = "D" => m.id \in ClOrdIDs
  <2>1. CASE who = "venue"
    BY <1>1, <1>3, <2>1 DEF FromVenue, Message, Letter, Types, Flaws, Depths, MaxDepth
  <2>2. CASE who = "client"
    BY <1>1, <1>3, <2>2 DEF FromClient, Message, Letter, Types, Flaws, Depths, MaxDepth
  <2> QED BY <2>1, <2>2 DEF Sides
<1>5. PICK e : e = [by |-> who, type |-> m.type, flaw |-> m.flaw, answers |-> 0, chain |-> 0,
                    again |-> 0, muted |-> FALSE]
  OBVIOUS
<1>6. sent' = Append(sent, e) /\ Len(sent) < MaxMessages
  <2>1. sent' = Append(sent, e) /\ Room
    BY <1>1, <1>5, Zenon DEF Sent
  <2>2. Len(sent) \in Nat /\ MaxMessages \in Nat
    BY DialogueAssumption DEF DialogueInv
  <2> QED BY <2>1, <2>2 DEF Room
<1>7. /\ e \in Sendings /\ e.by = who /\ e.type = m.type /\ e.flaw = m.flaw
      /\ e.answers = 0 /\ e.chain = 0 /\ e.again = 0 /\ e.muted = FALSE
  BY <1>4, <1>5 DEF Sendings, Letter, Depths, MaxDepth
<1>8. /\ sent' \in Seq(Sendings) /\ Len(sent') <= MaxMessages
      /\ DOMAIN sent' = DOMAIN sent \cup {n}
      /\ \A i \in DOMAIN sent : sent'[i] = sent[i]
      /\ sent'[n] = e
  BY ONLY <1>0, <1>3, <1>6, <1>7, DialogueAssumption
<1>9. \A s \in Sides : \A p \in In(Queue(s)) \cup ({reading[s]} \ {NoMail}) : p.about # n
  BY <1>2, <1>3 DEF MailInv
<1>10. /\ \A i \in DOMAIN sent : Broken(i)' <=> Broken(i)
       /\ \A s \in Sides : \A p : p.about \in DOMAIN sent /\ Expected(s, p) => Expected(s, p)'
  BY <1>1, <1>8, Kept
<1>11. Expected(other, m)'
  BY <1>2, <1>4, <1>7, <1>8 DEF Expected, VenueMail, ClientMail, Begun, Sides
<1>12. /\ Queue(other)' \in Seq(Letter) /\ In(Queue(other)') = In(Queue(other)) \cup {m}
       /\ Distinct(Queue(other)')
  <2>1. \A p \in In(Queue(other)) : p.about # m.about
    BY <1>2, <1>4, <1>9
  <2>2. Queue(other) \in Seq(Letter) /\ Distinct(Queue(other))
    BY <1>3 DEF MailInv
  <2>3. m \in Letter /\ Queue(other)' = Append(Queue(other), m)
    BY <1>2, <1>4
  <2> QED BY ONLY <2>1, <2>2, <2>3, Putting
<1>13. MailInv(other)'
  <2>1. Apart(Queue(other)', reading[other])
    BY <1>2, <1>3, <1>4, <1>9, <1>12 DEF MailInv, Apart
  <2>2. \A p \in In(Queue(other)') \cup ({reading[other]} \ {NoMail}) :
          p.about \in DOMAIN sent' /\ Expected(other, p)'
    BY <1>3, <1>4, <1>8, <1>10, <1>11, <1>12 DEF MailInv
  <2> QED BY <1>1, <1>3, <1>12, <2>1, <2>2 DEF MailInv
<1>14. MailInv(who)'
  <2>1. \A p \in In(Queue(who)) \cup ({reading[who]} \ {NoMail}) :
          p.about \in DOMAIN sent' /\ Expected(who, p)'
    BY <1>3, <1>8, <1>10 DEF MailInv
  <2> QED BY <1>1, <1>3, <2>1 DEF MailInv
<1>15. First(n)' /\ \A i : i # n => (First(i)' <=> First(i))
  BY <1>1, <1>2, <1>4, <1>12 DEF First
<1>16. ASSUME NEW i \in DOMAIN sent' PROVE SentInv(i)'
  <2>1. CASE i = n
    BY <1>4, <1>7, <1>8, <1>15, <2>1 DEF SentInv
  <2>2. CASE i # n
    <3>1. SentInv(i) /\ (Broken(i)' <=> Broken(i)) /\ (First(i)' <=> First(i))
          /\ sent'[i] = sent[i] /\ kind' = kind
      BY <1>1, <1>8, <1>10, <1>15, <2>2 DEF DialogueInv
    <3> QED BY ONLY <3>1 DEF SentInv, Accepted
  <2> QED BY <2>1, <2>2
<1> QED BY <1>1, <1>2, <1>8, <1>13, <1>14, <1>16 DEF DialogueInv

LEMMA StepDialogue == HandshakeInv /\ DialogueInv /\ [Next]_vars => DialogueInv'
<1> SUFFICES ASSUME HandshakeInv, DialogueInv, [Next]_vars PROVE DialogueInv'
  OBVIOUS
<1>1. HandshakeTypeOK
  BY DEF HandshakeInv
<1>2. CASE SetSilenced
  BY <1>2, NothingMoves DEF SetSilenced, handshakeVars, DialogueInv
<1>3. CASE Session
  <2>1. kind' = kind /\ UNCHANGED dialogueVars
    BY <1>3 DEF Session, HandshakeNext, SendLogon, FromAdmin, SetRejectLogons, EditEnv, Lost
  <2> QED BY <2>1, NothingMoves DEF dialogueVars, DialogueInv
<1>4. ASSUME NEW who \in Sides, NEW other \in Sides, who # other, Killed(who),
             Queue(who)' = Resent(who, Queue(who)), Queue(other)' = Queue(other),
             kind' = kind, book' \subseteq ClOrdIDs, silenced' \in BOOLEAN
      PROVE  DialogueInv'
  <2>1. CASE reading[who] # NoMail
    BY <1>4, <2>1, KillStep
  <2>2. CASE reading[who] = NoMail
    <3>1. reading' = reading /\ sent' = sent
      BY <1>4, <2>2 DEF Killed, DialogueInv
    <3>2. toVenue' = toVenue /\ toClient' = toClient
      BY <1>4, <2>2 DEF Resent, Queue, Sides
    <3> QED BY <1>4, <3>1, <3>2, NothingMoves
  <2> QED BY <2>1, <2>2
<1>5. CASE RestartVenue
  <2>1. /\ Killed("venue") /\ toVenue' = Resent("venue", toVenue) /\ toClient' = toClient
        /\ kind' = kind /\ book' = {} /\ silenced' = FALSE
    BY <1>5 DEF RestartVenue, LoadKinds
  <2> QED BY <1>4, <2>1 DEF Queue, Sides
<1>6. CASE RestartClient
  <2>1. /\ Killed("client") /\ toClient' = Resent("client", toClient) /\ toVenue' = toVenue
        /\ kind' = kind /\ book' = book /\ silenced' = silenced
    BY <1>6 DEF RestartClient, StartClient
  <2> QED BY <1>4, <2>1 DEF Queue, Sides, DialogueInv
<1>7. CASE UNCHANGED vars
  BY <1>7, NothingMoves DEF vars, handshakeVars, dialogueVars, DialogueInv
<1> QED
  BY <1>1, <1>2, <1>3, <1>5, <1>6, <1>7, SendStep, VenueStep, ClientStep, CountStep DEF Next

LEMMA DialogueInvariance == Spec => [](HandshakeInv /\ DialogueInv)
<1> QED BY InitDialogue, StepDialogue, HandshakeInvariance, PTL DEF Spec

----------------------------------------------------------------------------
(* The theorems.                                                            *)

LEMMA Narrowing ==
  ASSUME NEW S, NEW T, NEW queue \in Seq(S), \A i \in DOMAIN queue : queue[i] \in T
  PROVE  queue \in Seq(T)
  OBVIOUS

\* Messages on both queues and in both hands are well formed and about something
\* that was sent.
THEOREM Typing == Spec => []TypeOK
<1>1. ASSUME DialogueInv, NEW m \in Letter, m.about \in DOMAIN sent PROVE m \in Mail
  BY <1>1 DEF Letter, Mail
<1>2. ASSUME DialogueInv, NEW who \in Sides
      PROVE  Queue(who) \in Seq(Mail) /\ reading[who] \in Mail \cup {NoMail}
  <2>1. MailInv(who)
    BY <1>2 DEF DialogueInv
  <2>2. \A i \in DOMAIN Queue(who) : Queue(who)[i] \in Mail
    <3> SUFFICES ASSUME NEW i \in DOMAIN Queue(who) PROVE Queue(who)[i] \in Mail
      OBVIOUS
    <3>1. Queue(who)[i] \in Letter /\ Queue(who)[i] \in In(Queue(who))
      BY <2>1 DEF MailInv, In
    <3> QED BY <1>1, <1>2, <2>1, <3>1 DEF MailInv
  <2>3. Queue(who) \in Seq(Mail)
    BY <2>1, <2>2, Narrowing DEF MailInv
  <2> QED BY <1>1, <1>2, <2>1, <2>3 DEF MailInv
<1>3. ASSUME DialogueInv PROVE {toVenue, toClient} \subseteq Seq(Mail)
  BY <1>2, <1>3 DEF Queue, Sides
<1>4. ASSUME DialogueInv PROVE reading \in [Sides -> Mail \cup {NoMail}]
  BY <1>2, <1>4 DEF DialogueInv
<1>5. HandshakeInv /\ DialogueInv => TypeOK
  BY <1>3, <1>4 DEF TypeOK, HandshakeInv, DialogueInv
<1> QED BY <1>5, DialogueInvariance, PTL

\* Whatever is sent is answered at most once for each time it is read, answers
\* only when they are a drop copy's, and what a client sent and the venue has
\* read was answered or accepted while the venue was silenced, over any
\* disconnects, kills and restarts.
THEOREM Answers == Spec => []AnsweredOnce
<1>1. ASSUME DialogueInv, NEW n \in DOMAIN sent
      PROVE  /\ sent[n].answers <= 1 + sent[n].again
             /\ sent[n].chain <= 1 \/ (sent[n].chain = 2 /\ Broken(n))
             /\ (sent[n].by = "client" /\ ~ Unread(toVenue, n)) =>
                  \/ sent[n].answers > 0
                  \/ /\ sent[n].muted /\ sent[n].type = "D" /\ sent[n].flaw = "none"
                     /\ kind = KindOrderEntry
  <2>1. SentInv(n) /\ sent[n].again \in Nat /\ sent[n].answers \in Nat
    <3>1. sent[n] \in Sendings /\ SentInv(n)
      BY <1>1 DEF DialogueInv
    <3> QED BY <3>1 DEF Sendings
  <2>2. sent[n].answers <= 1 + sent[n].again
    BY <2>1 DEF SentInv
  <2>3. sent[n].by = "client" /\ First(n) => Unread(toVenue, n)
    <3>1. \A p \in In(Queue("client")) : p.depth = 0 => sent[p.about].by = "venue"
      BY <1>1 DEF DialogueInv, MailInv, Sides, Expected, ClientMail, Begun
    <3> QED BY <3>1 DEF First, Sides, Queue, In, Unread
  <2> QED BY <2>1, <2>2, <2>3 DEF SentInv, Accepted
<1>2. DialogueInv => AnsweredOnce
  BY <1>1 DEF AnsweredOnce
<1> QED BY <1>2, DialogueInvariance, PTL

\* A drop-copy client answers nothing but a report with a field missing.
THEOREM DropCopySilence == Spec => []DropCopyIsSilent
<1>1. ASSUME DialogueInv, kind = KindDropCopy, NEW n \in DOMAIN sent, AnsweredBy("client", n)
      PROVE  sent[n].type = ReportType /\ sent[n].flaw = "missing"
  <2>1. SentInv(n) /\ sent[n] \in Sendings
    BY <1>1 DEF DialogueInv
  <2>2. Broken(n)
    BY <1>1, <2>1 DEF AnsweredBy, SentInv, Broken, Sendings, Sides, Depths, MaxDepth
  <2> QED BY <2>1, <2>2 DEF SentInv, Broken
<1>2. DialogueInv => DropCopyIsSilent
  BY <1>1 DEF DropCopyIsSilent
<1> QED BY <1>2, DialogueInvariance, PTL
=============================================================================
