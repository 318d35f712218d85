------------------------------- MODULE Delivery -------------------------------
(***************************************************************************)
(* What a FIX session promises the application that reads it, with no      *)
(* sequence number, connection or resend in sight.                         *)
(*                                                                         *)
(* Items are posted to a log that only grows.  The reading process is      *)
(* handed them one by one in the order of the log, none skipped and none   *)
(* twice.  A process that starts anew goes on where the last one stopped;  *)
(* only if that one was killed may the last item be handed over again.     *)
(***************************************************************************)
EXTENDS Naturals, Sequences

VARIABLES log,   \* what has been posted
          from,  \* position of the first item for the process that reads now
          to     \* it has been handed log[from..to]

Init == log = << >> /\ from = 1 /\ to = 0

Post(item) == log' = Append(log, item) /\ UNCHANGED <<from, to>>

Hand ==
    /\ to < Len(log)
    /\ to' = to + 1
    /\ UNCHANGED <<log, from>>

NewLife(again) ==
    /\ again => to >= from
    /\ to' = IF again THEN to - 1 ELSE to
    /\ from' = to' + 1
    /\ UNCHANGED log

Next == \/ \E i \in DOMAIN log' : Post(log'[i])
        \/ Hand
        \/ \E again \in BOOLEAN : NewLife(again)

Spec == Init /\ [][Next]_<<log, from, to>>
=============================================================================
