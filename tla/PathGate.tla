------------------------------ MODULE PathGate ------------------------------
(***************************************************************************)
(* The prefix gate of src/callbacks/registry.rs: which registry keys are   *)
(* worth an event.  A key is a sequence of UTF-16 units, a watched prefix  *)
(* a sequence of ASCII bytes; they are compared without regard to case.    *)
(* Nothing here has state: the operators are the code's functions, and the *)
(* reference definition they are compared with.                            *)
(***************************************************************************)
EXTENDS Naturals, Sequences

Unit == 0 .. 65535
Ascii == 0 .. 127

\* "k as u8" keeps the low byte.
LowByte(k) == k % 256

\* The inline upper-casing of one byte.
Upper(b) == IF b \in 97 .. 122 THEN b - 32 ELSE b

\* Mutant: units beyond ASCII are not refused.
PrefixOfLowBytes(key, prefix) ==
  /\ Len(key) >= Len(prefix)
  /\ \A i \in 1 .. Len(prefix) : Upper(LowByte(key[i])) = Upper(prefix[i])

\* The key is long enough, and every unit the loop visits is ASCII and agrees with
\* the prefix's byte once both are in upper case.
key_has_ascii_prefix_ci(key, prefix) ==
  /\ Len(key) >= Len(prefix)
  /\ \A i \in 1 .. Len(prefix) :
       /\ key[i] <= 127
       /\ Upper(LowByte(key[i])) = Upper(prefix[i])

is_interesting_path(key, prefixes) ==
  \E prefix \in prefixes : key_has_ascii_prefix_ci(key, prefix)

----------------------------------------------------------------------------
(* What the gate is meant to decide. *)

\* Two characters are equal, or the two cases of one letter.
SameLetter(k, p) == k = p \/ \E n \in 0 .. 25 : {k, p} = {65 + n, 97 + n}

\* The key begins with the prefix, whatever the case.
StartsWith(key, prefix) ==
  /\ Len(prefix) <= Len(key)
  /\ \A i \in 1 .. Len(prefix) : SameLetter(key[i], prefix[i])

Watched(key, prefixes) == \E prefix \in prefixes : StartsWith(key, prefix)
=============================================================================
