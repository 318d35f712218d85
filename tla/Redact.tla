-------------------------------- MODULE Redact --------------------------------
(***************************************************************************)
(* The masking of passwords in logged FIX messages.  A message is a        *)
(* sequence of bytes.                                                      *)
(***************************************************************************)
EXTENDS Integers, Sequences, FiniteSets, SequencesExt

CONSTANT Modulus   \* 2^64: where Go's int wraps

SOH        == 1
EqualsSign == 61
DisplaySep == 124
Mask       == <<42, 42, 42, 42>>
Zero       == 48
Digits     == Zero..(Zero + 9)
SecretTags == {96, 554}

ASSUME ModulusAssumption == Modulus \in Nat /\ \A tag \in SecretTags : tag < Modulus

\* bytes.IndexByte, counted from 1; 0 if there is none.
IndexByte(bytes, byte) == SelectInSeq(bytes, LAMBDA b : b = byte)

LastIndexByte(bytes, byte) == SelectLastInSeq(bytes, LAMBDA b : b = byte)

AllDigits(tag) == tag # << >> /\ \A i \in DOMAIN tag : tag[i] \in Digits

\* The number atoiStrict finds: n*10 + c wraps.
Number(tag) ==
    LET n[k \in 0..Len(tag)] ==
          IF k = 0 THEN 0 ELSE (n[k - 1] * 10 + tag[k] - Zero) % Modulus
    IN  n[Len(tag)]

\* atoiStrict that skips what is no digit.
LenientIsSecret(tag) ==
    tag # << >> /\ Number(SelectSeq(tag, LAMBDA c : c \in Digits)) \in SecretTags

isSecret(tag) == AllDigits(tag) /\ Number(tag) \in SecretTags

RedactFieldAtLast(field) ==
    LET eq == LastIndexByte(field, EqualsSign)
    IN  IF eq > 1 /\ isSecret(SubSeq(field, 1, eq - 1))
        THEN SubSeq(field, 1, eq) \o Mask
        ELSE field

\* A value may contain '=': the tag ends at the first.
RedactField(field) ==
    LET eq == IndexByte(field, EqualsSign)
    IN  IF eq > 1 /\ isSecret(SubSeq(field, 1, eq - 1))
        THEN SubSeq(field, 1, eq) \o Mask
        ELSE field

\* A turn of the loop, at the field that starts at byte i.
Turn(raw, loop) ==
    LET rest == SubSeq(raw, loop.i, Len(raw))
        soh  == IndexByte(rest, SOH)
        end  == IF soh = 0 THEN Len(rest) ELSE soh - 1
        next == loop.i + end
    IN  IF loop.i > Len(raw) THEN loop
        ELSE [out |-> loop.out \o RedactField(SubSeq(raw, loop.i, next - 1))
                      \o (IF next <= Len(raw) THEN <<DisplaySep>> ELSE << >>),
              i   |-> next + 1]

RedactBytes(raw) ==
    LET after[k \in 0..Len(raw)] ==
          IF k = 0 THEN [out |-> << >>, i |-> 1] ELSE Turn(raw, after[k - 1])
    IN  after[Len(raw)].out

----------------------------------------------------------------------------
(* What is to be masked, field by field. *)

\* The delimiters, the ends of the message counting as such, and the k-th of them.
Ends(raw) == {i \in DOMAIN raw : raw[i] = SOH} \cup {0, Len(raw) + 1}
Rank(raw, e) == Cardinality({d \in Ends(raw) : d <= e})
End(raw, k) == CHOOSE e \in Ends(raw) : Rank(raw, e) = k

\* The bytes between two delimiters.
Fields(raw) == [k \in 1..Cardinality(Ends(raw)) - 1 |->
                  SubSeq(raw, End(raw, k) + 1, End(raw, k + 1) - 1)]

\* A field is tag = value, for the shortest such tag.
IsField(field, tag) ==
    /\ Len(tag) < Len(field)
    /\ IsPrefix(tag, field) /\ field[Len(tag) + 1] = EqualsSign
    /\ \A i \in DOMAIN tag : tag[i] # EqualsSign

TagOf(field) ==
    IF EqualsSign \in ToSet(field)
    THEN CHOOSE tag \in Prefixes(field) : IsField(field, tag)
    ELSE << >>

\* The secret tags as they are written, leading zeros allowed.
Spelled == {<<57, 54>>, <<53, 53, 52>>}
SpellsSecret(tag) ==
    \E secret \in Spelled : tag = [i \in 1..Len(tag) - Len(secret) |-> Zero] \o secret

SecretFields(fields) == {k \in DOMAIN fields : SpellsSecret(TagOf(fields[k]))}

\* Fields whose tag is a number no int holds.
Value(tag) ==
    LET value[k \in 0..Len(tag)] ==
          IF k = 0 THEN 0 ELSE value[k - 1] * 10 + tag[k] - Zero
    IN  value[Len(tag)]
Overlong(tag) == AllDigits(tag) /\ Value(tag) >= Modulus
OverlongFields(fields) == {k \in DOMAIN fields : Overlong(TagOf(fields[k]))}

\* The fields on the screen, with the values of those in masked hidden.
Shown(fields, masked) ==
    LET shown == [k \in DOMAIN fields |->
                    (IF k = 1 THEN << >> ELSE <<DisplaySep>>)
                    \o (IF k \in masked THEN TagOf(fields[k]) \o <<EqualsSign>> \o Mask
                                        ELSE fields[k])]
    IN  FlattenSeq(shown)
=============================================================================
