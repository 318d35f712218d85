------------------------------ MODULE ReportFeed ------------------------------
(***************************************************************************)
(* What the venue promises the readers of its sessions about execution     *)
(* reports, with no order book, goroutine or connection in sight.          *)
(*                                                                         *)
(* A report is issued once, with an ExecID greater than that of every      *)
(* report issued before.  Each feed is a log; an issued report is appended *)
(* to each log at most once, and nothing else ever is.  Reports may reach  *)
(* a log out of the order they were issued in.                             *)
(***************************************************************************)
EXTENDS Naturals, Sequences

CONSTANT Feeds

VARIABLES issued,  \* the reports issued so far
          log      \* Feeds -> sequence of the reports posted there

Posted(f) == {log[f][i] : i \in DOMAIN log[f]}

Init == issued = {} /\ log = [f \in Feeds |-> << >>]

Issue(r) ==
    /\ \A p \in issued : p.execID < r.execID
    /\ issued' = issued \cup {r}
    /\ UNCHANGED log

Post(f, r) ==
    /\ r \in issued
    /\ r \notin Posted(f)
    /\ log' = [log EXCEPT ![f] = Append(@, r)]
    /\ UNCHANGED issued

Next == \/ \E r \in issued' : Issue(r)
        \/ \E f \in Feeds, r \in issued : Post(f, r)

Spec == Init /\ [][Next]_<<issued, log>>
=============================================================================
