------------------------------- MODULE MCVenue -------------------------------
(***************************************************************************)
(* Values for Venue's constants that a cfg cannot write, and symmetry.     *)
(***************************************************************************)
EXTENDS Venue, TLC

NoCOD == [password |-> NoPassword, codType |-> CODDisabled, window |-> 0]

\* Both sessions log on without asking for cancel-on-disconnect.
PlainLogons == [s \in Session |-> {NoCOD}]

\* Only order entry logs on; the drop copy is stored for a session that is down.
OrderEntryOnly == (KindOrderEntry :> {NoCOD}) @@ (KindDropCopy :> {})

AnyPassword == [s \in Session |-> NoPassword]

Request(type, window) == [password |-> NoPassword, codType |-> type, window |-> window]

\* Order entry arms COD with a window of one tick; drop copy never connects.
OrderEntryCOD == (KindOrderEntry :> {Request(CODOnDisconnect, 1)})
                   @@ (KindDropCopy :> {})

\* Order entry logs on disarmed, armed for a drop with no window, or armed for
\* any ending with a window of one tick.
MixedCOD == (KindOrderEntry :> {NoCOD, Request(CODOnDisconnect, 0),
                                Request(CODOnDisconnectOrLogout, 1)})
              @@ (KindDropCopy :> {})

\* Drop copy asks for COD too, as a copied configuration file would.
DropCopyCOD == (KindOrderEntry :> {NoCOD})
                 @@ (KindDropCopy :> {Request(CODOnDisconnect, 0)})

Symmetry == Permutations(ClOrdIDs) \cup Permutations(Handlers) \cup Permutations(Timers)
=============================================================================
