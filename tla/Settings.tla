------------------------------- MODULE Settings -------------------------------
(***************************************************************************)
(* From a settings file and the -host flag to the sessions a client dials. *)
(*                                                                         *)
(* A file has a host for all sessions and possibly one in the block of a   *)
(* session, which overlays it.  Settings.SessionSettings makes a copy of   *)
(* both for each session whenever it is called.                            *)
(***************************************************************************)
EXTENDS Naturals, FiniteSets

\* No -host, no SocketConnectHost.
NoHost == ""

\* SessionSettings: a fresh clone of the global settings, overlaid.
HostOf(file, session) ==
    IF file.blocks[session] # NoHost THEN file.blocks[session] ELSE file.global

Sessions(file) == DOMAIN file.blocks

Unchanged(file) == [file |-> file, ok |-> TRUE]

\* What was set on a clone, and read back from it, is seen by nobody else.
OverrideClones(file, host) == Unchanged(file)

\* OverrideConnectHost writes to the global settings, then looks whether every
\* session dials the host now.
OverrideConnectHost(file, host) ==
    IF host = NoHost THEN Unchanged(file)
    ELSE LET written == [file EXCEPT !.global = host]
         IN  [file |-> written,
              ok   |-> \A s \in Sessions(file) : HostOf(written, s) = host]

SoleSession(file) == Cardinality(Sessions(file)) = 1

\* An Initiator dials every session of its file, and is not made if one of
\* them has no host.
Dials(file) ==
    IF \E s \in Sessions(file) : HostOf(file, s) = NoHost THEN {}
    ELSE {[session |-> s, host |-> HostOf(file, s)] : s \in Sessions(file)}

\* run of oe-client counts the sessions before anything is dialled, run of
\* dc-client once its Initiator has started.
Dialled(program, file, host) ==
    LET o == OverrideConnectHost(file, host)
    IN  IF o.ok /\ (program = "oe-client" => SoleSession(o.file)) THEN Dials(o.file) ELSE {}

StaysUp(program, file, host) ==
    LET o == OverrideConnectHost(file, host)
    IN  o.ok /\ SoleSession(o.file) /\ Dialled(program, file, host) # {}
=============================================================================
