--------------------------------- MODULE Wire ---------------------------------
(***************************************************************************)
(* One direction of a FIX session, from the message store of the sender to *)
(* the memory of the application that reads: the venue's execution reports *)
(* on their way to the order-entry or the drop-copy client, or the         *)
(* client's orders on their way to the venue's book.                       *)
(*                                                                         *)
(* The engine (quickfixgo) is not part of the repository.  Its steps are   *)
(* modelled as the configuration files (ResetOnLogon=N, PersistMessages=Y) *)
(* and the traces of drills 06, 07 and 08 show them.  Every message takes  *)
(* the next number and is stored; a number higher than expected makes the  *)
(* receiver ask for the range; the sender replays stored items with        *)
(* PossDupFlag and fills over everything else.                             *)
(*                                                                         *)
(* MaxNum caps the numbers that applications, operators and Logons take.   *)
(***************************************************************************)
EXTENDS Integers, Sequences, FiniteSets

CONSTANTS
    Orders,     \* orders the reports are about
    GapSizes,   \* n arguments of POST /admin/gap
    Apps,       \* which reader this instance has: "view", "copy", "book"
    MaxNum

ASSUME WireAssumption ==
    /\ GapSizes \subseteq Int
    /\ Apps \subseteq {"view", "copy", "book"}
    /\ MaxNum \in Nat

VARIABLES
    app,        \* OrderEntry, DropCopy, or the venue's Book
    \* the sender: its application's counter, and its store by MsgSeqNum
    counter, stored,
    \* the connection: what is under way in each direction, and the resend
    up, net, asked, replay,
    \* the receiver's engine: next expected number (stored), the end of the
    \* range it waits for, messages kept meanwhile, FromApp not counted yet
    next, resendEnd, stash, reading,
    mem,        \* the receiver's application
    base,       \* history: number of the current connection's Logon
    first       \* history: the first item for the process that reads now

senderVars   == <<counter, stored>>
lineVars     == <<up, net, asked, replay>>
receiverVars == <<next, resendEnd, stash, reading>>
vars == <<app, senderVars, lineVars, receiverVars, mem, base, first>>

----------------------------------------------------------------------------
(* Messages. *)

Admin == [type |-> "admin", no |-> 0]
Hole  == [type |-> "hole", no |-> 0]
Item(no, order) == [type |-> "item", no |-> no, order |-> order]

IsItem(entry) == entry.type = "item"
ItemNums(store) == {n \in DOMAIN store : IsItem(store[n])}

\* How many items a store has below number n, and all of them in their order.
ItemsBelow(store, n) == Cardinality({i \in ItemNums(store) : i < n})
ItemsOf(store) == [k \in 1..Cardinality(ItemNums(store)) |->
                     store[CHOOSE n \in ItemNums(store) : ItemsBelow(store, n) = k - 1]]
Items == ItemsOf(stored)

\* fill is NewSeqNo of a SequenceReset with GapFillFlag, else 0.
Message(num, body, dup, fill) == [num |-> num, body |-> body, dup |-> dup, fill |-> fill]

NoReplay == [from |-> 1, to |-> 0]

\* What the receiving application keeps: OrderEntry's LastExecID by order and
\* its replay count; DropCopy's reports or the book's orders, and how many
\* were turned away.
NewMemory == [view |-> [o \in Orders |-> 0], replays |-> 0, kept |-> << >>, refused |-> 0]

\* How far the application has been handed the items.
Handed == ItemsBelow(stored, next) + (IF reading THEN 1 ELSE 0)

----------------------------------------------------------------------------
TypeOK ==
    /\ app \in Apps
    /\ counter \in Nat
    /\ \A i \in DOMAIN stored : IsItem(stored[i]) => stored[i].no \in 1..counter
    /\ up \in BOOLEAN
    /\ \A i \in DOMAIN net : net[i].num \in 1..Len(stored)
    /\ \A i \in DOMAIN asked : asked[i] \in 1..Len(stored)
    /\ replay.from \in 1..Len(stored) + 1
    /\ next \in 1..Len(stored) + 1
    /\ resendEnd \in 0..Len(stored)
    /\ resendEnd = 0 => stash = {}
    /\ ~ up => /\ net = << >> /\ asked = << >> /\ replay = NoReplay
               /\ resendEnd = 0 /\ ~ reading

Init ==
    /\ app \in Apps
    /\ counter = 0
    /\ stored = << >>
    /\ up = FALSE
    /\ net = << >> /\ asked = << >> /\ replay = NoReplay
    /\ next = 1 /\ resendEnd = 0 /\ stash = {} /\ reading = FALSE
    /\ mem = NewMemory
    /\ base = 0
    /\ first = 1

----------------------------------------------------------------------------
(* The sending application. *)

LateNumber == counter

\* The ExecID or the ClOrdID of the next item, from a counter in memory.
Number == counter + 1

\* publish and OrderEntry.Send: SendToTarget numbers and stores the message
\* whether or not the session is up, and returns no error when it is down.
Post(order) ==
    /\ Len(stored) < MaxNum
    /\ counter' = Number
    /\ stored' = Append(stored, Item(Number, order))
    /\ net' = IF up THEN Append(net, Message(Len(stored'), Item(Number, order), FALSE, 0))
                    ELSE net
    /\ UNCHANGED <<app, up, asked, replay, receiverVars, mem, base, first>>

AnyAdvance(n) == TRUE

MayAdvance(n) == n > 0

\* POST /admin/gap moves the next number and stores nothing.  It is called
\* while the session is quiet, as its comment demands: here, disconnected.
AdvanceSeqNum(n) ==
    /\ app # "book"
    /\ ~ up
    /\ MayAdvance(n)
    /\ Len(stored) + n \in 0..MaxNum
    /\ stored' = IF n > 0 THEN stored \o [i \in 1..n |-> Hole]
                          ELSE SubSeq(stored, 1, Len(stored) + n)
    /\ UNCHANGED <<app, counter, lineVars, receiverVars, mem, base, first>>

----------------------------------------------------------------------------
(* The sender's engine. *)

\* ResetOnLogon=Y: both sides start at 1 and the store is emptied.
ResettingLogon(arrives) ==
    /\ ~ up
    /\ stored' = <<Admin>>
    /\ up' = arrives
    /\ base' = 1
    /\ next' = IF arrives THEN 2 ELSE 1
    /\ UNCHANGED <<app, counter, net, asked, replay, resendEnd, stash, reading, mem, first>>

\* The Logon takes a number and may be lost with its connection.  Received,
\* it shows at once how far the receiver is behind.
Logon(arrives) ==
    /\ ~ up
    /\ Len(stored) < MaxNum
    /\ stored' = Append(stored, Admin)
    /\ up' = arrives
    /\ base' = IF arrives THEN Len(stored') ELSE base
    /\ next' = IF arrives /\ next = Len(stored') THEN next + 1 ELSE next
    /\ IF arrives /\ next < Len(stored')
       THEN asked' = <<next>> /\ resendEnd' = Len(stored)
       ELSE UNCHANGED <<asked, resendEnd>>
    /\ UNCHANGED <<app, counter, net, replay, stash, reading, mem, first>>

\* After HeartBtInt of silence.  One that finds nothing to recover is left out.
Heartbeat ==
    /\ up /\ net = << >> /\ asked = << >> /\ replay = NoReplay
    /\ next <= Len(stored) /\ resendEnd = 0
    /\ stored' = Append(stored, Admin)
    /\ net' = <<Message(Len(stored'), Admin, FALSE, 0)>>
    /\ UNCHANGED <<app, counter, up, asked, replay, receiverVars, mem, base, first>>

\* EndSeqNo=0 asks for everything: up to the last number taken by now.
ResendRequest ==
    /\ asked # << >> /\ replay = NoReplay
    /\ replay' = [from |-> Head(asked), to |-> Len(stored)]
    /\ asked' = Tail(asked)
    /\ UNCHANGED <<app, senderVars, up, net, receiverVars, mem, base, first>>

ShortGapFill(from, last) == Message(from, Admin, TRUE, last)

\* SequenceReset over everything from..last, NewSeqNo being what follows.
GapFill(from, last) == Message(from, Admin, TRUE, last + 1)

\* One message of the replay: the first item left, or a fill up to it or, when
\* there is none, over what else is stored.  Live messages may come in between.
Resend ==
    LET left  == replay.from..replay.to
        items == {i \in left : IsItem(stored[i])}
        kept  == {i \in left : stored[i] # Hole}
    IN  /\ replay # NoReplay
        /\ \/ \E i \in items :
                /\ \A j \in items : i <= j
                /\ IF i = replay.from
                   THEN /\ net' = Append(net, Message(i, stored[i], TRUE, 0))
                        /\ replay' = IF i = replay.to THEN NoReplay
                                                      ELSE [replay EXCEPT !.from = i + 1]
                   ELSE /\ net' = Append(net, GapFill(replay.from, i - 1))
                        /\ replay' = [replay EXCEPT !.from = i]
           \/ /\ items = {}
              /\ \E i \in kept : /\ \A j \in kept : j <= i
                                 /\ net' = Append(net, GapFill(replay.from, i))
              /\ replay' = NoReplay
        /\ UNCHANGED <<app, senderVars, up, asked, receiverVars, mem, base, first>>

----------------------------------------------------------------------------
(* The receiving applications. *)

NeverReplayed(m) == FALSE

\* PossDupFlag (43) as the application reads it off the header.
Replayed(m) == m.dup

\* A client that takes 43=Y for "already handled".
SkippingReport(old, m) ==
    IF Replayed(m) THEN [old EXCEPT !.replays = @ + 1]
                   ELSE [old EXCEPT !.view[m.body.order] = m.body.no]

\* OrderEntry.onExecutionReport: assigned, never accumulated.
ViewReport(old, m) ==
    [old EXCEPT !.view[m.body.order] = m.body.no,
                !.replays = IF Replayed(m) THEN @ + 1 ELSE @]

\* Deduplication on the order rather than on the event.
SeenOrder(old, m) == \E i \in DOMAIN old.kept : old.kept[i].order = m.body.order

\* DropCopy.seen by ExecID; Book.orders by ClOrdID.
Seen(old, m) == \E i \in DOMAIN old.kept : old.kept[i].no = m.body.no

\* DropCopy.onExecutionReport and Book.Insert: one they know is turned away.
\* The venue does not look at PossDupFlag.
KeepItem(old, m) ==
    IF Seen(old, m) THEN [old EXCEPT !.refused = @ + 1]
    ELSE [old EXCEPT !.kept = Append(@, [no |-> m.body.no, order |-> m.body.order,
                                         replayed |-> app = "copy" /\ Replayed(m)])]

----------------------------------------------------------------------------
(* The receiver's engine. *)

\* The range asked for has been filled: messages kept meanwhile come first.
Unstashing == resendEnd # 0 /\ resendEnd < next

Pending == IF Unstashing THEN {m \in stash : m.num = next}
                         ELSE {net[i] : i \in {1} \cap DOMAIN net}

Consume(m) ==
    IF Unstashing THEN stash' = stash \ {m} /\ UNCHANGED net
                  ELSE net' = Tail(net) /\ UNCHANGED stash

\* The application is called before the number is counted.
FromApp(m) ==
    /\ ~ reading
    /\ m.num = next /\ IsItem(m.body)
    /\ mem' = IF app = "view" THEN ViewReport(mem, m) ELSE KeepItem(mem, m)
    /\ reading' = TRUE
    /\ UNCHANGED <<app, senderVars, lineVars, next, resendEnd, stash, base, first>>

\* The number is counted: after FromApp, for an admin message, a gap fill.
Count(m) ==
    /\ m.num = next
    /\ reading \/ ~ IsItem(m.body)
    /\ next' = IF m.fill # 0 THEN m.fill ELSE next + 1
    /\ reading' = FALSE
    /\ Consume(m)
    /\ UNCHANGED <<app, senderVars, up, asked, replay, resendEnd, mem, base, first>>

\* Above the number expected: a ResendRequest, unless one is being answered.
\* The message is kept for later or left to the replay.
TooHigh(m) ==
    /\ m.num > next
    /\ net' = Tail(net)
    /\ stash' \in {stash, stash \cup {m}}
    /\ IF resendEnd = 0 THEN asked' = Append(asked, next) /\ resendEnd' = m.num - 1
                        ELSE UNCHANGED <<asked, resendEnd>>
    /\ UNCHANGED <<app, senderVars, up, replay, next, reading, mem, base, first>>

\* Below it: dropped if flagged, and NeverTooLow says that it is.
Duplicate(m) ==
    /\ m.num < next
    /\ net' = Tail(net)
    /\ UNCHANGED <<app, senderVars, up, asked, replay, receiverVars, mem, base, first>>

EndOfRange ==
    /\ Unstashing /\ Pending = {}
    /\ resendEnd' = 0
    /\ stash' = {}
    /\ UNCHANGED <<app, senderVars, lineVars, next, reading, mem, base, first>>

----------------------------------------------------------------------------
(* Endings. *)

\* The line goes down: what is under way is lost, what is stored is not.
Cut ==
    /\ up' = FALSE
    /\ net' = << >> /\ asked' = << >> /\ replay' = NoReplay
    /\ resendEnd' = 0 /\ stash' = {} /\ reading' = FALSE

Disconnect ==
    /\ up /\ ~ reading
    /\ Cut
    /\ UNCHANGED <<app, senderVars, next, mem, base, first>>

\* A graceful end of a session that has nothing under way: the Logout is read.
Logout ==
    /\ up /\ next = Len(stored) + 1 /\ Len(stored) < MaxNum
    /\ net = << >> /\ asked = << >> /\ replay = NoReplay /\ resendEnd = 0
    /\ stored' = Append(stored, Admin)
    /\ next' = next + 1
    /\ up' = FALSE
    /\ UNCHANGED <<app, counter, net, asked, replay, resendEnd, stash, reading, mem, base, first>>

\* The application object is made anew: Supervisor.Restart, or the process.
Forget == mem' = NewMemory /\ first' = ItemsBelow(stored, next) + 1

Rebuild ==
    /\ ~ up /\ mem # NewMemory
    /\ Forget
    /\ UNCHANGED <<app, senderVars, lineVars, receiverVars, base>>

\* The process is killed between FromApp and the count of its message.
Crash ==
    /\ reading
    /\ Cut
    /\ Forget
    /\ UNCHANGED <<app, senderVars, next, base>>

----------------------------------------------------------------------------
\* Only the order view tells orders apart: elsewhere all items are about one.
Subjects == IF app = "view" THEN Orders ELSE {CHOOSE o \in Orders : TRUE}

SenderStep == ResendRequest \/ Resend \/ Heartbeat
Receive ==
    \/ \E m \in Pending : FromApp(m) \/ Count(m) \/ TooHigh(m) \/ Duplicate(m)
    \/ EndOfRange

Next ==
    \/ \E o \in Subjects : Post(o)
    \/ \E n \in GapSizes : AdvanceSeqNum(n)
    \/ \E arrives \in BOOLEAN : Logon(arrives)
    \/ SenderStep
    \/ Receive
    \/ Disconnect \/ Logout \/ Rebuild \/ Crash

Spec == Init /\ [][Next]_vars

\* Both engines do what they are in the middle of, and heartbeats are sent.
\* No post, Logon or disconnect is assumed.
FairSpec == Spec /\ WF_vars(SenderStep) /\ WF_vars(Receive)

\* The sending venue starts anew: execSeq is in memory, the store is not.  (A
\* watchdog's rebuild does the same to the client's ClOrdIDs; a new client
\* process has a prefix of its own.)
RestartSender ==
    /\ ~ up /\ counter > 0
    /\ counter' = 0
    /\ UNCHANGED <<app, stored, lineVars, receiverVars, mem, base, first>>

RestartSpec == Init /\ [][Next \/ RestartSender]_vars

----------------------------------------------------------------------------
(*                               Properties                                *)

\* The session implements Delivery: through drops, lost Logons, gaps made by
\* an operator, live messages between replayed ones and kept ones, every item
\* reaches the application once and in order; only a process killed inside
\* FromApp leaves its item to the next one a second time.
Ideal == INSTANCE Delivery WITH log <- Items, from <- first, to <- Handed
ImplementsDelivery == Ideal!Spec

\* The receiver never meets a number below the one it expects without
\* PossDupFlag, which would end the session: what admin/gap does to the
\* sender's numbers only ever looks like a loss.
NeverTooLow ==
    /\ next <= Len(stored) + 1
    /\ \A i \in DOMAIN net : net[i].num < next => net[i].dup

\* The last item about o that the process that reads now has been handed.
LatestOf(o) ==
    LET about == {i \in first..Handed : Items[i].order = o}
    IN  IF about = {} THEN 0
        ELSE Items[CHOOSE i \in about : \A j \in about : j <= i].no

\* OrderEntry's view is assigned from whatever report comes: replays, kept
\* messages and live ones must not move it back.  It is the latest report of
\* the order among those handed to this process.
ViewIsLatest == app = "view" => \A o \in Orders : mem.view[o] = LatestOf(o)

\* DropCopy records, and the book accepts, every item handed to this process,
\* in order, and turns none away: a recovery makes no duplicates.
CopyIsComplete ==
    app # "view" =>
        /\ [i \in DOMAIN mem.kept |-> mem.kept[i].no]
             = [i \in 1..Handed + 1 - first |-> Items[first + i - 1].no]
        /\ mem.refused = 0

\* Whatever was sent before the Logon of this connection reaches the client
\* as history: OrderEntry counts it in ReplayCount, DropCopy marks the report
\* Replayed, even when it is the first time the client sees it.
HistoryIsFlagged ==
    [][\A m \in Pending : FromApp(m) /\ next < base =>
         /\ app = "view" => mem'.replays = mem.replays + 1
         /\ app = "copy" => mem'.kept[Len(mem'.kept)].replayed]_vars

\* While the connection holds, everything stored is read in the end, whether
\* it was sent before or after the Logon.
Recovers ==
    \A n \in 1..MaxNum : (up /\ n <= Len(stored)) ~> (next > n \/ ~ up)

----------------------------------------------------------------------------
(* What comments say and this code does not keep.                           *)

\* main.go of oe-client on the rebuilt application: it "rebuilds it from what
\* the venue replays".  A client with nothing left to read knows the latest
\* report of every order.
ViewIsRebuilt ==
    (app = "view" /\ up /\ next = Len(stored) + 1) =>
      \A o \in Orders : \A i \in DOMAIN Items :
        Items[i].order = o => mem.view[o] # 0

\* dc.go on Reports: "every distinct report received, in arrival order".
\* Reports are distinct when the venue made them for distinct events.
EveryReportIsKept == app = "copy" => Len(mem.kept) = Handed + 1 - first
=============================================================================
