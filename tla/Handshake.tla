------------------------------- MODULE Handshake -------------------------------
(***************************************************************************)
(* How one session comes up: the client puts credentials and its           *)
(* cancel-on-disconnect request on a Logon (InjectLogon), the venue reads  *)
(* them (ParseLogon), judges the password against the one it captured when *)
(* it started, and remembers the request.                                  *)
(*                                                                         *)
(* Passwords come from the environment of each process: FIXLAB_<CompID>_   *)
(* PASSWORD, keyed by the client's CompID on both sides, so one variable   *)
(* for each process and session.                                           *)
(***************************************************************************)
EXTENDS Naturals

CONSTANTS
    Passwords,     \* values the variable may have
    CODTypes,      \* -cod-type
    Windows        \* -cod-window

ASSUME HandshakeAssumption ==
    /\ Passwords \cap {"none"} = {}
    /\ CODTypes \subseteq Nat
    /\ Windows \subseteq Nat \ {0}

VARIABLES
    kind,          \* the session's role: SessionKind in exchange.cfg
    env,           \* what the variable is set to for the next client and venue
    creds,         \* Client.Creds of the running client
    line,          \* the Logon under way
    expect,        \* App.expect
    rejectLogons,  \* App.rejectLogons is not empty
    loggedOn,      \* App.loggedOn and Client.loggedOn
    cod,           \* App.cod
    wanted,        \* history: what the client admitted last was started with
    judged         \* history: passwords looked at by this venue, and the verdict

handshakeVars ==
    <<kind, env, creds, line, expect, rejectLogons, loggedOn, cod, wanted, judged>>

KindOrderEntry == "ORDER_ENTRY"
KindDropCopy   == "DROP_COPY"

\* An unset variable, and a Logon without RawData.
NoPassword  == "none"
CODDisabled == 0
Env         == Passwords \cup {NoPassword}

Request(codType, window) == [codType |-> codType, window |-> window]

\* What GetInt leaves in a LogonRequest when the fields are missing.
NoRequest == Request(CODDisabled, 0)

NoLogon == [password |-> "no Logon"]

\* LogonCredentials: the drop-copy client never asks for cancel on disconnect.
LogonCredentials(k) ==
    IF k = KindDropCopy THEN {NoRequest}
                        ELSE {Request(c, w) : c \in CODTypes, w \in Windows}

HandshakeTypeOK ==
    /\ kind \in {KindOrderEntry, KindDropCopy}
    /\ env \in [{"client", "venue"} -> Env]
    /\ creds \in LogonCredentials(kind)
    /\ line = NoLogon \/ line.password \in Env
    /\ expect \in Env
    /\ {rejectLogons, loggedOn} \subseteq BOOLEAN
    /\ cod \in [codType : Nat, window : Nat]
    /\ loggedOn => line = NoLogon
    /\ judged \subseteq Env \X BOOLEAN

HandshakeInit ==
    /\ kind \in {KindOrderEntry, KindDropCopy}
    /\ env \in [{"client", "venue"} -> Env]
    /\ creds \in LogonCredentials(kind)
    /\ line = NoLogon
    /\ expect = env["venue"]
    /\ rejectLogons = FALSE
    /\ loggedOn = FALSE
    /\ cod = NoRequest
    /\ wanted = NoRequest
    /\ judged = {}

----------------------------------------------------------------------------
(* The client. *)

\* InjectLogon that gives up as soon as it finds no password.
HastyInjectLogon(c, password) ==
    [password |-> password,
     request  |-> IF c.codType = CODDisabled \/ password = NoPassword THEN NoRequest ELSE c]

\* InjectLogon: a missing password suppresses the credentials and nothing else.
InjectLogon(c, password) ==
    [password |-> password,
     request  |-> IF c.codType = CODDisabled THEN NoRequest ELSE c]

\* The engine dials and sends a Logon; ToAdmin fills it in.
SendLogon ==
    /\ ~ loggedOn /\ line = NoLogon
    /\ line' = InjectLogon(creds, env["client"])
    /\ UNCHANGED <<kind, env, creds, expect, rejectLogons, loggedOn, cod, wanted, judged>>

\* The client is started anew, with other flags.
StartClient ==
    /\ ~ loggedOn /\ line = NoLogon
    /\ creds' \in LogonCredentials(kind)
    /\ UNCHANGED <<kind, env, line, expect, rejectLogons, loggedOn, cod, wanted, judged>>

----------------------------------------------------------------------------
(* The venue. *)

RereadPassword(password) == env["venue"] = NoPassword \/ password = env["venue"]

\* With nothing configured anything is accepted.
checkPassword(password) == expect = NoPassword \/ password = expect

\* FromAdmin and, when it accepts, OnLogon on both sides.  A Logon refused
\* leaves the venue as it was: the engine answers with a Logout.
FromAdmin ==
    /\ line # NoLogon
    /\ line' = NoLogon
    /\ LET ok == checkPassword(line.password)
       IN  /\ judged' = IF rejectLogons THEN judged ELSE judged \cup {<<line.password, ok>>}
           /\ IF ok /\ ~ rejectLogons
              THEN cod' = line.request /\ loggedOn' = TRUE /\ wanted' = creds
              ELSE UNCHANGED <<cod, loggedOn, wanted>>
    /\ UNCHANGED <<kind, env, creds, expect, rejectLogons>>

\* POST /admin/reject-logon, on or off.
SetRejectLogons ==
    /\ rejectLogons' = ~ rejectLogons
    /\ UNCHANGED <<kind, env, creds, line, expect, loggedOn, cod, wanted, judged>>

\* The venue starts: LoadKinds captures the password, all else is empty.
LoadKinds ==
    /\ expect' = env["venue"]
    /\ rejectLogons' = FALSE
    /\ loggedOn' = FALSE
    /\ line' = NoLogon
    /\ cod' = NoRequest /\ wanted' = NoRequest /\ judged' = {}
    /\ UNCHANGED <<kind, env, creds>>

----------------------------------------------------------------------------
(* The world. *)

\* An operator sets one of the variables.
EditEnv ==
    /\ \E who \in {"client", "venue"}, p \in Env : env' = [env EXCEPT ![who] = p]
    /\ UNCHANGED <<kind, creds, line, expect, rejectLogons, loggedOn, cod, wanted, judged>>

\* The connection goes, with the Logon on it or with the session.
Lost ==
    /\ loggedOn \/ line # NoLogon
    /\ line' = NoLogon
    /\ loggedOn' = FALSE
    /\ UNCHANGED <<kind, env, creds, expect, rejectLogons, cod, wanted, judged>>

\* StartClient and LoadKinds are left to the module that knows what else a
\* start empties.
HandshakeNext == SendLogon \/ FromAdmin \/ SetRejectLogons \/ EditEnv \/ Lost

----------------------------------------------------------------------------
(*                               Properties                                *)

\* The venue's arming is what the flags of the client it admitted last ask
\* for: a password that is missing drops no field of the request, a Logon
\* refused or lost neither arms nor disarms, and a drop-copy client arms
\* nothing.  An order-entry client that believes itself protected is.
ArmedAsAsked ==
    cod = IF wanted.codType = CODDisabled THEN NoRequest ELSE wanted

\* Between two starts of the venue no password is both accepted and refused,
\* whatever becomes of its environment meanwhile.
VenueJudgesAlike == \A p \in Env : ~ {<<p, TRUE>>, <<p, FALSE>>} \subseteq judged
=============================================================================
