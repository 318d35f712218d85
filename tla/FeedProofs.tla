------------------------------ MODULE FeedProofs ------------------------------
(***************************************************************************)
(* Theorems about the two feeds: what one ExecID stands for, that no       *)
(* report reaches a single session only, and that the venue implements     *)
(* ReportFeed.                                                             *)
(***************************************************************************)
EXTENDS VenueProofs, VenueFeed

oe == KindOrderEntry
dc == KindDropCopy

\* Control points of a goroutine that publishes a numbered report.
Fanning == {"sendOE", "sendDC"}

\* No two reports of a log carry one ExecID.
Distinct(log) == \A i, j \in DOMAIN log : log[i].execID = log[j].execID => i = j

\* Numbers in use are at most execSeq; goroutines in the fanout hold different
\* ones; a report about to be sent on a session is new there.
Numbered ==
    /\ \A t \in Threads : pc[t] \in Fanning => rep[t].execID \in 1..execSeq
    /\ \A s \in Session : \A r \in ReportsIn(sent[s]) : r.execID \in 1..execSeq
    /\ \A t, u \in Threads : t # u /\ pc[t] \in Fanning /\ pc[u] \in Fanning =>
         rep[t].execID # rep[u].execID

Fresh ==
    /\ \A t \in Threads : pc[t] = "sendOE" =>
         \A r \in ReportsIn(sent[oe]) : r.execID # rep[t].execID
    /\ \A t \in Threads : pc[t] = "sendDC" =>
         \A r \in ReportsIn(sent[dc]) : r.execID # rep[t].execID

FeedInv == Numbered /\ Fresh /\ ExecIDsNeverRepeat /\ FanoutComplete

\* A step that leaves both feeds, the counter and the fanouts alone.
Untouched ==
    /\ sent' = sent
    /\ execSeq' = execSeq
    /\ \A t \in Threads : pc[t] \in Fanning \/ pc'[t] \in Fanning =>
         pc'[t] = pc[t] /\ rep'[t] = rep[t]

USE DEF Session, KindOrderEntry, KindDropCopy, Threads, oe, dc

----------------------------------------------------------------------------
\* Appending adds one report, at a place of its own.
LEMMA Appended ==
  ASSUME NEW S, NEW log \in Seq(S), NEW r \in S
  PROVE  /\ ReportsIn(Append(log, r)) = ReportsIn(log) \cup {r}
         /\ (Distinct(log) /\ \A p \in ReportsIn(log) : p.execID # r.execID)
              => Distinct(Append(log, r))
<1> DEFINE new == Append(log, r)
<1>1. /\ Len(log) \in Nat
      /\ DOMAIN log = 1..Len(log)
      /\ DOMAIN new = 1..(Len(log) + 1)
      /\ \A i \in 1..Len(log) : new[i] = log[i]
      /\ new[Len(log) + 1] = r
  OBVIOUS
<1> HIDE DEF new
<1>2. \A i \in DOMAIN new : i \in DOMAIN log \/ i = Len(log) + 1
  BY <1>1
<1>3. ReportsIn(new) = ReportsIn(log) \cup {r}
  <2>1. ASSUME NEW p \in ReportsIn(new) PROVE p \in ReportsIn(log) \cup {r}
    BY <1>1, <1>2 DEF ReportsIn
  <2>2. ASSUME NEW p \in ReportsIn(log) PROVE p \in ReportsIn(new)
    <3>1. PICK i \in DOMAIN log : p = log[i]
      BY DEF ReportsIn
    <3>2. i \in DOMAIN new /\ new[i] = p
      BY <1>1, <3>1
    <3> QED BY <3>2 DEF ReportsIn
  <2>3. r \in ReportsIn(new)
    <3>1. Len(log) + 1 \in DOMAIN new
      BY <1>1
    <3> QED BY <1>1, <3>1 DEF ReportsIn
  <2> QED BY <2>1, <2>2, <2>3
<1>4. ASSUME Distinct(log), \A p \in ReportsIn(log) : p.execID # r.execID
      PROVE  Distinct(new)
  <2> SUFFICES ASSUME NEW i \in DOMAIN new, NEW j \in DOMAIN new,
                      new[i].execID = new[j].execID
               PROVE  i = j
    BY DEF Distinct
  <2>1. \A k \in DOMAIN log : new[k] = log[k] /\ log[k].execID # r.execID
    BY <1>1, <1>4 DEF ReportsIn
  <2>2. CASE i \in DOMAIN log /\ j \in DOMAIN log
    BY <1>4, <2>1, <2>2 DEF Distinct
  <2> QED BY <1>1, <1>2, <2>1, <2>2
<1> QED BY <1>3, <1>4 DEF new

LEMMA InitFeed == Init => FeedInv
<1> SUFFICES ASSUME Init PROVE FeedInv
  OBVIOUS
<1>1. \A t \in Threads : pc[t] = "idle"
  BY DEF Init
<1>2. \A s \in Session : DOMAIN sent[s] = {} /\ ReportsIn(sent[s]) = {}
  BY DEF Init, ReportsIn
<1>3. Numbered /\ Fresh /\ ExecIDsNeverRepeat
  BY <1>1, <1>2 DEF Numbered, Fresh, Fanning, ExecIDsNeverRepeat
<1>4. FanoutComplete
  BY <1>1, <1>2 DEF FanoutComplete
<1> QED BY <1>3, <1>4 DEF FeedInv

\* Such a step keeps what is known of the feeds, and the reader sees nothing.
LEMMA UntouchedFeed ==
  ASSUME FeedInv, Untouched
  PROVE  FeedInv' /\ issuedReports' = issuedReports
<1>1. \A t \in Threads : /\ pc'[t] \in Fanning <=> pc[t] \in Fanning
                         /\ pc'[t] = "sendOE" <=> pc[t] = "sendOE"
                         /\ pc'[t] = "sendDC" <=> pc[t] = "sendDC"
                         /\ pc[t] \in Fanning => rep'[t] = rep[t]
  BY DEF Untouched, Fanning
<1>2. /\ sent' = sent
      /\ execSeq' = execSeq
      /\ \A s \in Session : ReportsIn(sent[s])' = ReportsIn(sent[s])
  BY DEF Untouched, ReportsIn
<1>3. Numbered'
  BY <1>1, <1>2 DEF FeedInv, Numbered
<1>4. Fresh'
  BY <1>1, <1>2 DEF FeedInv, Fresh, Fanning
<1>5. ExecIDsNeverRepeat'
  BY <1>2 DEF FeedInv, ExecIDsNeverRepeat
<1>6. {rep[t] : t \in {u \in Threads : pc[u] = "sendDC"}}'
        = {rep[t] : t \in {u \in Threads : pc[u] = "sendDC"}}
  BY <1>1 DEF Fanning
<1>7. FanoutComplete'
  BY <1>2, <1>6 DEF FeedInv, FanoutComplete
<1>8. {rep[t] : t \in InFanout}' = {rep[t] : t \in InFanout}
  BY <1>1 DEF InFanout, Fanning
<1>9. issuedReports' = issuedReports
  BY <1>2, <1>8 DEF issuedReports
<1> QED BY <1>3, <1>4, <1>5, <1>7, <1>9 DEF FeedInv

----------------------------------------------------------------------------
\* A goroutine outside the fanout moves to another point outside it.
LEMMA OneMoves ==
  ASSUME Inv, NEW t \in Threads, NEW point \in Points, pc[t] \notin Fanning,
         point \notin Fanning, pc' = [pc EXCEPT ![t] = point],
         \A u \in Threads : u # t => rep'[u] = rep[u],
         sent' = sent, execSeq' = execSeq
  PROVE  Untouched
<1>1. pc \in [Threads -> Points]
  BY DEF Inv, TypeOK, Points
<1>2. pc'[t] = point /\ \A u \in Threads : u # t => pc'[u] = pc[u]
  BY <1>1
<1> QED BY <1>2 DEF Untouched

\* The only goroutine that changes its report is t.
LEMMA OneReports ==
  ASSUME Inv, NEW t \in Threads, NEW r, rep' = [rep EXCEPT ![t] = r]
  PROVE  \A u \in Threads : u # t => rep'[u] = rep[u]
  BY DEF Inv, TypeOK

\* Publish(t, r), by a goroutine that is not publishing yet.
LEMMA PublishUntouched ==
  ASSUME Inv, NEW t \in Threads, NEW r, pc[t] \notin Fanning, Publish(t, r),
         sent' = sent, execSeq' = execSeq
  PROVE  Untouched
<1>1. rep' = [rep EXCEPT ![t] = r] /\ pc' = [pc EXCEPT ![t] = "publish"]
  BY DEF Publish
<1>2. \A u \in Threads : u # t => rep'[u] = rep[u]
  BY <1>1, OneReports
<1> QED BY <1>1, <1>2, OneMoves DEF Fanning, Points

\* The acknowledgement of a new order, from its first copy to publish.
LEMMA CopyUntouched ==
  ASSUME Inv,
         \/ \E id \in ClOrdIDs, qty \in OrderQtys, tif \in TimesInForce :
              NewOrderSingle(id, qty, tif)
         \/ CopyStatus
         \/ CopyCumQty
  PROVE  Untouched
<1>1. /\ pc[oe] \notin Fanning /\ sent' = sent /\ execSeq' = execSeq
      /\ \A u \in Threads : u # oe => rep'[u] = rep[u]
  BY DEF NewOrderSingle, CopyStatus, CopyCumQty, Fanning, bookVars, Inv, TypeOK
<1>2. PICK point \in {"copy", "copyCum", "copyStatus", "publish"} :
        pc' = [pc EXCEPT ![oe] = point]
  BY DEF NewOrderSingle, CopyStatus, CopyCumQty
<1> QED BY <1>1, <1>2, OneMoves DEF Fanning, Points

\* Every step but the three of the fanout leaves the feeds alone.
LEMMA OtherSteps ==
  ASSUME Inv, [Next]_vars,
         \A t \in Threads : ~ AssignExecID(t) /\ ~ SendOE(t) /\ ~ SendDC(t)
  PROVE  Untouched
<1>1. CASE Still
  BY <1>1 DEF Still, Untouched, Fanning, Reporting
<1>2. ASSUME NEW h \in Handlers, NEW id, NEW q, Trading(h, id, q) PROVE Untouched
  BY <1>2, PublishUntouched DEF Trading, Trade, Fanning
<1>3. ASSUME NEW t \in Handlers \cup Timers, NEW id, NEW status, NEW execType,
             NEW restated, Closing(t, id, status, execType, restated)
      PROVE  Untouched
  BY <1>3, PublishUntouched DEF Closing, Fanning
<1>4. ASSUME NEW t \in Threads, PublishStep(t) PROVE Untouched
  <2>1. /\ pc[t] = "publish" /\ pc' = [pc EXCEPT ![t] = "assign"]
        /\ rep' = rep /\ sent' = sent /\ execSeq' = execSeq
    BY <1>4 DEF PublishStep, ReadSilenced, bookVars
  <2> QED BY <2>1, OneMoves DEF Fanning, Points
<1> QED BY <1>1, <1>2, <1>3, <1>4, CopyUntouched, StepKinds DEF StepKind

----------------------------------------------------------------------------
(* The three steps of the fanout.                                           *)

Carrying(p) == {rep[t] : t \in {u \in Threads : pc[u] = p}}

\* A new number is greater than every number in use.
LEMMA AssignFeed ==
  ASSUME Inv, FeedInv, NEW t \in Threads, AssignExecID(t)
  PROVE  /\ FeedInv'
         /\ mute[t] => issuedReports' = issuedReports
         /\ ~ mute[t] => Feed!Issue(rep'[t]) /\ rep'[t] \in issuedReports'
<1> DEFINE r == [rep[t] EXCEPT !.execID = execSeq + 1]
<1>1. /\ execSeq \in Nat
      /\ execSeq' = execSeq + 1
      /\ pc[t] = "assign"
      /\ sent' = sent
      /\ rep[t] \in Report
      /\ rep \in [Threads -> Report \cup {NoReport}]
      /\ pc \in [Threads -> Points]
  BY DEF AssignExecID, NextExecID, Inv, TypeOK, LocalsOK, Points, Reporting
<1>2. r.execID = execSeq + 1
  BY <1>1 DEF Report
<1>3. \A u \in Threads : u # t => pc'[u] = pc[u] /\ rep'[u] = rep[u]
  BY <1>1 DEF AssignExecID
<1>4. mute[t] => pc'[t] \in {"idle", "sweep"}
  BY <1>1 DEF AssignExecID, Resume
<1>5. ~ mute[t] => pc'[t] = "sendOE" /\ rep'[t] = r
  BY <1>1 DEF AssignExecID
<1> HIDE DEF r
<1>6. pc'[t] # "sendDC" /\ (pc'[t] = "sendOE" => ~ mute[t])
  BY <1>4, <1>5
<1>7. \A s \in Session : ReportsIn(sent[s])' = ReportsIn(sent[s])
  BY <1>1 DEF ReportsIn
<1>8. Numbered'
  <2>1. ASSUME NEW u \in Threads, pc'[u] \in Fanning PROVE rep'[u].execID \in 1..execSeq'
    <3>1. CASE u = t
      BY <1>1, <1>2, <1>5, <1>6, <2>1, <3>1 DEF Fanning
    <3>2. CASE u # t
      <4>1. rep[u].execID \in 1..execSeq
        BY <1>3, <2>1, <3>2 DEF FeedInv, Numbered
      <4>2. rep'[u] = rep[u] /\ 1..execSeq \subseteq 1..execSeq'
        BY <1>1, <1>3, <3>2
      <4> QED BY <4>1, <4>2
    <3> QED BY <3>1, <3>2
  <2>2. \A s \in Session : \A p \in ReportsIn(sent[s])' : p.execID \in 1..execSeq'
    BY <1>1, <1>7 DEF FeedInv, Numbered
  <2>3. ASSUME NEW u \in Threads, u # t, pc'[u] \in Fanning, pc'[t] \in Fanning
        PROVE  rep'[u].execID # rep'[t].execID
    BY <1>1, <1>2, <1>3, <1>5, <1>6, <2>3 DEF FeedInv, Numbered, Fanning
  <2>4. ASSUME NEW u \in Threads, NEW v \in Threads, u # v, u # t, v # t,
               pc'[u] \in Fanning, pc'[v] \in Fanning
        PROVE  rep'[u].execID # rep'[v].execID
    BY <1>3, <2>4 DEF FeedInv, Numbered
  <2> QED BY <2>1, <2>2, <2>3, <2>4 DEF Numbered
<1>9. Fresh'
  <2>1. ASSUME NEW u \in Threads, pc'[u] = "sendOE", NEW p \in ReportsIn(sent[oe])
        PROVE  p.execID # rep'[u].execID
    <3>1. CASE u = t
      BY <1>1, <1>2, <1>5, <1>6, <2>1, <3>1 DEF FeedInv, Numbered
    <3>2. CASE u # t
      BY <1>3, <2>1, <3>2 DEF FeedInv, Fresh
    <3> QED BY <3>1, <3>2
  <2>2. ASSUME NEW u \in Threads, pc'[u] = "sendDC", NEW p \in ReportsIn(sent[dc])
        PROVE  p.execID # rep'[u].execID
    BY <1>3, <1>6, <2>2 DEF FeedInv, Fresh
  <2> QED BY <1>7, <2>1, <2>2 DEF Fresh
<1>10. ExecIDsNeverRepeat'
  BY <1>1 DEF FeedInv, ExecIDsNeverRepeat
<1>11. Carrying("sendDC")' = Carrying("sendDC")
  BY <1>1, <1>3, <1>6 DEF Carrying
<1>12. FanoutComplete'
  BY <1>7, <1>11 DEF FeedInv, FanoutComplete, Carrying
<1>13. ASSUME mute[t] PROVE issuedReports' = issuedReports
  <2>1. {rep[u] : u \in InFanout}' = {rep[u] : u \in InFanout}
    BY <1>1, <1>3, <1>4, <1>13 DEF InFanout
  <2> QED BY <1>7, <2>1 DEF issuedReports
<1>14. ASSUME ~ mute[t] PROVE Feed!Issue(rep'[t]) /\ rep'[t] \in issuedReports'
  <2>1. {rep[u] : u \in InFanout}' = {rep[u] : u \in InFanout} \cup {rep'[t]}
    BY <1>1, <1>3, <1>5, <1>14 DEF InFanout
  <2>2. issuedReports' = issuedReports \cup {rep'[t]}
    BY <1>7, <2>1 DEF issuedReports
  <2>3. ASSUME NEW p \in issuedReports PROVE p.execID < rep'[t].execID
    <3>1. p.execID \in 1..execSeq
      BY <2>3 DEF issuedReports, InFanout, FeedInv, Numbered, Fanning
    <3> QED BY <1>1, <1>2, <1>5, <1>14, <3>1
  <2> QED BY <1>1, <2>2, <2>3 DEF Feed!Issue
<1> QED BY <1>8, <1>9, <1>10, <1>12, <1>13, <1>14 DEF FeedInv

\* What either SendToTarget does to the two logs.
LEMMA Sending ==
  ASSUME Inv, FeedInv, NEW t \in Threads, NEW s \in Session, Send(s, rep[t]),
         pc[t] \in Fanning,
         \A p \in ReportsIn(sent[s]) : p.execID # rep[t].execID
  PROVE  /\ ReportsIn(sent[s])' = ReportsIn(sent[s]) \cup {rep[t]}
         /\ \A z \in Session : z # s => ReportsIn(sent[z])' = ReportsIn(sent[z])
         /\ ExecIDsNeverRepeat'
         /\ \A z \in Session : \A p \in ReportsIn(sent[z])' : p.execID \in 1..execSeq
         /\ rep[t] \in issuedReports
         /\ rep[t] \notin ReportsIn(sent[s])
         /\ sent' = [sent EXCEPT ![s] = Append(@, rep[t])]
<1>1. /\ rep[t] \in Report
      /\ sent \in [Session -> Seq(Report)]
      /\ rep[t].execID \in 1..execSeq
  BY DEF Inv, TypeOK, LocalsOK, Reporting, Fanning, FeedInv, Numbered
<1>2. sent' = [sent EXCEPT ![s] = Append(@, rep[t])]
  BY DEF Send
<1>3. sent'[s] = Append(sent[s], rep[t]) /\ \A z \in Session : z # s => sent'[z] = sent[z]
  BY <1>1, <1>2
<1>4. \A z \in Session : Distinct(sent[z])
  BY DEF FeedInv, ExecIDsNeverRepeat, Distinct
<1>5. /\ ReportsIn(Append(sent[s], rep[t])) = ReportsIn(sent[s]) \cup {rep[t]}
      /\ Distinct(Append(sent[s], rep[t]))
  <2>1. sent[s] \in Seq(Report)
    BY <1>1
  <2> QED BY <1>1, <1>4, <2>1, Appended
<1>6. \A z \in Session : Distinct(sent'[z])
  BY <1>3, <1>4, <1>5
<1>7. ExecIDsNeverRepeat'
  BY <1>6 DEF ExecIDsNeverRepeat, Distinct
<1>8. ReportsIn(sent[s])' = ReportsIn(sent[s]) \cup {rep[t]}
  BY <1>3, <1>5 DEF ReportsIn
<1>9. \A z \in Session : z # s => ReportsIn(sent[z])' = ReportsIn(sent[z])
  BY <1>3 DEF ReportsIn
<1>10. \A z \in Session : \A p \in ReportsIn(sent[z])' : p.execID \in 1..execSeq
  BY <1>1, <1>8, <1>9 DEF FeedInv, Numbered
<1>11. rep[t] \in issuedReports
  BY DEF issuedReports, InFanout, Fanning
<1> QED BY <1>2, <1>7, <1>8, <1>9, <1>10, <1>11

LEMMA SendOEFeed ==
  ASSUME Inv, FeedInv, NEW t \in Threads, SendOE(t)
  PROVE  FeedInv' /\ Feed!Post(oe, rep[t]) /\ rep[t] \in issuedReports
<1>1. /\ pc[t] = "sendOE" /\ pc'[t] = "sendDC"
      /\ \A u \in Threads : u # t => pc'[u] = pc[u]
      /\ rep' = rep /\ execSeq' = execSeq
      /\ Send(oe, rep[t])
  BY DEF SendOE, bookVars, Inv, TypeOK
<1>2. \A p \in ReportsIn(sent[oe]) : p.execID # rep[t].execID
  BY <1>1 DEF FeedInv, Fresh
<1>3. /\ ReportsIn(sent[oe])' = ReportsIn(sent[oe]) \cup {rep[t]}
      /\ ReportsIn(sent[dc])' = ReportsIn(sent[dc])
      /\ ExecIDsNeverRepeat'
      /\ \A z \in Session : \A p \in ReportsIn(sent[z])' : p.execID \in 1..execSeq
      /\ rep[t] \in issuedReports
      /\ rep[t] \notin ReportsIn(sent[oe])
      /\ sent' = [sent EXCEPT ![oe] = Append(@, rep[t])]
  BY <1>1, <1>2, Sending DEF Fanning
<1>4. Numbered'
  BY <1>1, <1>3 DEF FeedInv, Numbered, Fanning
<1>5. \A p \in ReportsIn(sent[dc]) : p.execID # rep[t].execID
  BY <1>2 DEF FeedInv, FanoutComplete
<1>6. Fresh'
  <2>1. ASSUME NEW u \in Threads, pc'[u] = "sendOE", NEW p \in ReportsIn(sent[oe])'
        PROVE  p.execID # rep'[u].execID
    <3>1. u # t /\ pc[u] = "sendOE"
      BY <1>1, <2>1
    <3>2. rep[u].execID # rep[t].execID
      BY <1>1, <3>1 DEF FeedInv, Numbered, Fanning
    <3> QED BY <1>1, <1>3, <2>1, <3>1, <3>2 DEF FeedInv, Fresh
  <2>2. ASSUME NEW u \in Threads, pc'[u] = "sendDC", NEW p \in ReportsIn(sent[dc])'
        PROVE  p.execID # rep'[u].execID
    BY <1>1, <1>3, <1>5, <2>2 DEF FeedInv, Fresh
  <2> QED BY <2>1, <2>2 DEF Fresh
<1>7. Carrying("sendDC")' = Carrying("sendDC") \cup {rep[t]}
  BY <1>1 DEF Carrying
<1>8. FanoutComplete'
  <2>1. rep[t] \notin ReportsIn(sent[dc])
    BY <1>5
  <2> QED BY <1>3, <1>7, <2>1 DEF FeedInv, FanoutComplete, Carrying
<1>9. {rep[u] : u \in InFanout}' = {rep[u] : u \in InFanout}
  BY <1>1 DEF InFanout
<1>10. issuedReports' = issuedReports
  BY <1>1, <1>3, <1>9 DEF issuedReports, InFanout
<1> QED BY <1>3, <1>4, <1>6, <1>8, <1>10 DEF FeedInv, Feed!Post, Feed!Posted, ReportsIn

LEMMA SendDCFeed ==
  ASSUME Inv, FeedInv, NEW t \in Threads, SendDC(t)
  PROVE  FeedInv' /\ Feed!Post(dc, rep[t]) /\ rep[t] \in issuedReports
<1>1. /\ pc[t] = "sendDC" /\ pc'[t] \in {"idle", "sweep"}
      /\ \A u \in Threads : u # t => pc'[u] = pc[u] /\ rep'[u] = rep[u]
      /\ execSeq' = execSeq
      /\ Send(dc, rep[t])
  BY DEF SendDC, Resume, bookVars, Inv, TypeOK
<1>2. \A p \in ReportsIn(sent[dc]) : p.execID # rep[t].execID
  BY <1>1 DEF FeedInv, Fresh
<1>3. /\ ReportsIn(sent[dc])' = ReportsIn(sent[dc]) \cup {rep[t]}
      /\ ReportsIn(sent[oe])' = ReportsIn(sent[oe])
      /\ ExecIDsNeverRepeat'
      /\ \A z \in Session : \A p \in ReportsIn(sent[z])' : p.execID \in 1..execSeq
      /\ rep[t] \in issuedReports
      /\ rep[t] \notin ReportsIn(sent[dc])
      /\ sent' = [sent EXCEPT ![dc] = Append(@, rep[t])]
  BY <1>1, <1>2, Sending DEF Fanning
<1>4. Numbered'
  BY <1>1, <1>3 DEF FeedInv, Numbered, Fanning
<1>5. ASSUME NEW u \in Threads, u # t, pc[u] = "sendDC"
      PROVE  rep[u].execID # rep[t].execID
  BY <1>1, <1>5 DEF FeedInv, Numbered, Fanning
<1>6. Fresh'
  <2>1. ASSUME NEW u \in Threads, pc'[u] = "sendOE", NEW p \in ReportsIn(sent[oe])'
        PROVE  p.execID # rep'[u].execID
    BY <1>1, <1>3, <2>1 DEF FeedInv, Fresh
  <2>2. ASSUME NEW u \in Threads, pc'[u] = "sendDC", NEW p \in ReportsIn(sent[dc])'
        PROVE  p.execID # rep'[u].execID
    BY <1>1, <1>3, <1>5, <2>2 DEF FeedInv, Fresh
  <2> QED BY <2>1, <2>2 DEF Fresh
<1>7. Carrying("sendDC")' = Carrying("sendDC") \ {rep[t]}
  <2>1. Carrying("sendDC")' = {rep[u] : u \in {v \in Threads : v # t /\ pc[v] = "sendDC"}}
    BY <1>1 DEF Carrying
  <2> QED BY <1>1, <1>5, <2>1 DEF Carrying
<1>8. rep[t] \in ReportsIn(sent[oe])
  BY <1>1 DEF FeedInv, FanoutComplete
<1>9. FanoutComplete'
  BY <1>3, <1>7, <1>8 DEF FeedInv, FanoutComplete, Carrying
<1>10. {rep[u] : u \in InFanout}' \cup {rep[t]} = {rep[u] : u \in InFanout}
  <2>1. InFanout = InFanout' \cup {t} /\ \A u \in InFanout' : rep'[u] = rep[u]
    BY <1>1 DEF InFanout
  <2> QED BY <2>1
<1>11. issuedReports' = issuedReports
  BY <1>3, <1>8, <1>10 DEF issuedReports
<1> QED BY <1>3, <1>4, <1>6, <1>9, <1>11 DEF FeedInv, Feed!Post, Feed!Posted, ReportsIn

----------------------------------------------------------------------------
\* A log holds reports, and a step adds none but the one a fanout carries.
LEMMA SentReports ==
  ASSUME Inv, NEW s \in Session
  PROVE  ReportsIn(sent[s]) \subseteq Report
<1>1. sent[s] \in Seq(Report)
  BY DEF Inv, TypeOK
<1> QED BY <1>1 DEF ReportsIn

LEMMA LogsGrow ==
  ASSUME Inv, [Next]_vars, NEW s \in Session
  PROVE  \A r \in ReportsIn(sent'[s]) :
           r \in ReportsIn(sent[s]) \/ \E t \in Threads : pc[t] \in Fanning /\ r = rep[t]
<1>1. CASE sent' = sent
  BY <1>1
<1>2. ASSUME NEW t \in Threads, NEW z \in Session, Send(z, rep[t]), pc[t] \in Fanning
      PROVE  \A r \in ReportsIn(sent'[s]) : r \in ReportsIn(sent[s]) \/ r = rep[t]
  <2>1. /\ sent \in [Session -> Seq(Report)]
        /\ rep[t] \in Report
        /\ sent' = [sent EXCEPT ![z] = Append(@, rep[t])]
    BY <1>2 DEF Inv, TypeOK, LocalsOK, Fanning, Reporting, Send
  <2>2. sent'[s] \in {sent[s], Append(sent[s], rep[t])} /\ sent[s] \in Seq(Report)
    BY <2>1
  <2> QED BY <2>1, <2>2, Appended
<1>3. ASSUME NEW t \in Threads, PublishStep(t), sent' # sent
      PROVE  \E z \in Session : Send(z, rep[t]) /\ pc[t] \in Fanning
  BY <1>3 DEF PublishStep, ReadSilenced, AssignExecID, SendOE, SendDC, Fanning
<1>4. CASE CopyStatus \/ CopyCumQty
       \/ \E id \in ClOrdIDs, qty \in OrderQtys, tif \in TimesInForce :
            NewOrderSingle(id, qty, tif)
  BY <1>1, <1>4 DEF CopyStatus, CopyCumQty, NewOrderSingle
<1> QED BY <1>1, <1>2, <1>3, <1>4, StepKinds DEF StepKind, Still, Trading, Closing

LEMMA StepFeed ==
  Inv /\ FeedInv /\ [Next]_vars => FeedInv' /\ [Feed!Next]_<<issuedReports, sent>>
<1> SUFFICES ASSUME Inv, FeedInv, [Next]_vars
             PROVE  FeedInv' /\ [Feed!Next]_<<issuedReports, sent>>
  OBVIOUS
<1>1. ASSUME NEW t \in Threads, AssignExecID(t)
      PROVE  FeedInv' /\ [Feed!Next]_<<issuedReports, sent>>
  <2>1. sent' = sent
    BY <1>1 DEF AssignExecID
  <2> QED BY <1>1, <2>1, AssignFeed DEF Feed!Next
<1>2. ASSUME NEW t \in Threads, SendOE(t)
      PROVE  FeedInv' /\ [Feed!Next]_<<issuedReports, sent>>
  BY <1>2, SendOEFeed DEF Feed!Next
<1>3. ASSUME NEW t \in Threads, SendDC(t)
      PROVE  FeedInv' /\ [Feed!Next]_<<issuedReports, sent>>
  BY <1>3, SendDCFeed DEF Feed!Next
<1>4. ASSUME \A t \in Threads : ~ AssignExecID(t) /\ ~ SendOE(t) /\ ~ SendDC(t)
      PROVE  FeedInv' /\ [Feed!Next]_<<issuedReports, sent>>
  <2>1. Untouched
    BY <1>4, OtherSteps
  <2> QED BY <2>1, UntouchedFeed DEF Untouched
<1> QED BY <1>1, <1>2, <1>3, <1>4

\* Numbering, freshness and the fanout hold in every reachable state.
THEOREM FeedInvariance == Spec => []FeedInv
<1> QED BY InitFeed, StepFeed, Invariance, PTL DEF Spec

\* An ExecID names one event, on each session and across the two, however many
\* handlers, timers and the order-entry session publish at once.
THEOREM Identity == Spec => []ExecIDIdentity
<1>1. FeedInv => ExecIDIdentity
  <2> SUFFICES ASSUME FeedInv,
                      NEW p \in ReportsIn(sent[oe]), NEW q \in ReportsIn(sent[dc]),
                      p.execID = q.execID
               PROVE  p = q
    BY DEF ExecIDIdentity, FeedInv
  <2>1. q \in ReportsIn(sent[oe])
    BY DEF FeedInv, FanoutComplete
  <2> QED BY <2>1 DEF FeedInv, ExecIDsNeverRepeat, ReportsIn
<1> QED BY <1>1, FeedInvariance, PTL

\* publish hands each report to both sessions: the only ones on one session
\* are those whose publisher is between its two sends.
THEOREM Fanout == Spec => []FanoutComplete
<1>1. FeedInv => FanoutComplete
  BY DEF FeedInv
<1> QED BY <1>1, FeedInvariance, PTL

\* The venue, for any number of handlers, timers and orders, implements the
\* feed its readers are promised.
THEOREM Refinement == Spec => ImplementsReportFeed
<1>1. Init => Feed!Init
  BY DEF Init, Feed!Init, issuedReports, InFanout, ReportsIn
<1> QED
  BY <1>1, InitFeed, StepFeed, FeedInvariance, Invariance, PTL
  DEF Spec, ImplementsReportFeed, Feed!Spec
=============================================================================
