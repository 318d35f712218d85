-------------------------------- MODULE MCWire --------------------------------
(* Wire on small instances. *)
EXTENDS Wire

\* n of POST /admin/gap: one that opens a gap and one that is refused.
Gaps == {-1, 1}
=============================================================================
