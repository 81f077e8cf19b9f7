--------------------------- MODULE PathGateProofs ---------------------------
(***************************************************************************)
(* The prefix gate decides what it is meant to decide, for every key and   *)
(* every list of ASCII prefixes; and it may be asked about a key that has  *)
(* been cut short, as long as the prefixes are shorter than the cut.       *)
(***************************************************************************)
EXTENDS PathGate, TLAPS

\* A unit that fits in a byte survives "k as u8".
LEMMA ByteKept ==
  ASSUME NEW k \in Nat, k < 256
  PROVE  LowByte(k) = k
BY DEF LowByte

\* Folding bytes is comparing letters: an ASCII unit keeps its value as a byte,
\* and two ASCII characters have the same upper case exactly when they are the
\* same letter; a unit beyond ASCII is no letter of any ASCII prefix.
LEMMA FoldIsSameLetter ==
  ASSUME NEW k \in Unit, NEW p \in Ascii
  PROVE  (k <= 127 /\ Upper(LowByte(k)) = Upper(p)) <=> SameLetter(k, p)
<1> k \in Nat
  BY SMTT(30) DEF Unit
<1>1. ASSUME k <= 127
      PROVE  LowByte(k) = k
  <2>1. k < 256
    BY <1>1
  <2> QED BY <2>1, ByteKept
<1>2. ASSUME k <= 127, Upper(k) = Upper(p)
      PROVE  SameLetter(k, p)
  <2>1. CASE k = p
    BY <2>1 DEF SameLetter
  <2>2. CASE k # p
    <3>1. CASE k \in 97 .. 122
      <4>1. p = k - 32
        BY <1>2, <2>2, <3>1 DEF Upper, Ascii
      <4>2. /\ k - 97 \in 0 .. 25
            /\ p = 65 + (k - 97)
            /\ k = 97 + (k - 97)
        BY <3>1, <4>1
      <4> QED BY <4>2 DEF SameLetter
    <3>2. CASE k \notin 97 .. 122
      <4>1. k = p - 32 /\ p \in 97 .. 122
        BY <1>2, <2>2, <3>2 DEF Upper, Ascii
      <4>2. /\ p - 97 \in 0 .. 25
            /\ k = 65 + (p - 97)
            /\ p = 97 + (p - 97)
        BY <4>1 DEF Ascii
      <4> QED BY <4>2 DEF SameLetter
    <3> QED BY <3>1, <3>2
  <2> QED BY <2>1, <2>2
<1>3. ASSUME SameLetter(k, p)
      PROVE  k <= 127 /\ Upper(k) = Upper(p)
  <2>1. CASE k = p
    BY <2>1 DEF Ascii
  <2>2. ASSUME NEW n \in 0 .. 25, {k, p} = {65 + n, 97 + n}
        PROVE  k <= 127 /\ Upper(k) = Upper(p)
    <3>1. \/ k = 65 + n /\ p = 97 + n
          \/ k = 97 + n /\ p = 65 + n
      BY <2>2
    <3> QED BY <3>1 DEF Upper
  <2> QED BY <1>3, <2>1, <2>2 DEF SameLetter
<1> QED BY <1>1, <1>2, <1>3, Zenon

\* key_has_ascii_prefix_ci is the case-insensitive prefix test.
LEMMA PrefixTest ==
  ASSUME NEW key \in Seq(Unit), NEW prefix \in Seq(Ascii)
  PROVE  key_has_ascii_prefix_ci(key, prefix) <=> StartsWith(key, prefix)
<1>1. CASE Len(key) < Len(prefix)
  BY <1>1 DEF key_has_ascii_prefix_ci, StartsWith
<1>2. CASE Len(key) >= Len(prefix)
  <2>1. \A i \in 1 .. Len(prefix) : key[i] \in Unit /\ prefix[i] \in Ascii
    BY <1>2
  <2>2. \A i \in 1 .. Len(prefix) :
          (key[i] <= 127 /\ Upper(LowByte(key[i])) = Upper(prefix[i]))
            <=> SameLetter(key[i], prefix[i])
    BY <2>1, FoldIsSameLetter
  <2> QED BY <1>2, <2>2 DEF key_has_ascii_prefix_ci, StartsWith
<1> QED BY <1>1, <1>2

\* The gate lets through exactly the watched keys: is_interesting_path decides the
\* reference definition Watched, for all keys of 16-bit units, ASCII or not.
THEOREM GateIsExact ==
  ASSUME NEW prefixes, prefixes \subseteq Seq(Ascii), NEW key \in Seq(Unit)
  PROVE  is_interesting_path(key, prefixes) <=> Watched(key, prefixes)
BY PrefixTest DEF is_interesting_path, Watched

\* A key cut to its first room units starts with the prefixes the whole key starts
\* with, if every prefix fits in them.
LEMMA CutKeepsPrefixes ==
  ASSUME NEW prefixes, prefixes \subseteq Seq(Ascii), NEW key \in Seq(Unit),
         NEW room \in Nat, room <= Len(key),
         \A prefix \in prefixes : Len(prefix) <= room
  PROVE  Watched(SubSeq(key, 1, room), prefixes) <=> Watched(key, prefixes)
<1> DEFINE cut == SubSeq(key, 1, room)
<1>1. Len(cut) = room /\ \A i \in 1 .. room : cut[i] = key[i]
  OBVIOUS
<1>2. ASSUME NEW prefix \in prefixes
      PROVE  StartsWith(cut, prefix) <=> StartsWith(key, prefix)
  <2>1. Len(prefix) \in Nat /\ Len(prefix) <= room
    OBVIOUS
  <2>2. \A i \in 1 .. Len(prefix) : cut[i] = key[i]
    BY <1>1, <2>1
  <2> HIDE DEF cut
  <2>3. Len(prefix) <= Len(cut) /\ Len(prefix) <= Len(key)
    BY <1>1, <2>1
  <2> QED BY <2>2, <2>3 DEF StartsWith
<1> QED BY <1>2 DEF Watched

\* The gate's test of the cut copy decides whether the whole key is watched, if
\* every prefix fits in the copy: resolve_and_gate_object may call
\* is_interesting_path on the stack buffer instead of the name.
THEOREM CutKeepsDecision ==
  ASSUME NEW prefixes, prefixes \subseteq Seq(Ascii), NEW key \in Seq(Unit),
         NEW room \in Nat, room <= Len(key),
         \A prefix \in prefixes : Len(prefix) <= room
  PROVE  is_interesting_path(SubSeq(key, 1, room), prefixes) <=> Watched(key, prefixes)
<1> HIDE DEF Unit, Ascii
<1>1. SubSeq(key, 1, room) \in Seq(Unit)
  OBVIOUS
<1>2. is_interesting_path(SubSeq(key, 1, room), prefixes)
        <=> Watched(SubSeq(key, 1, room), prefixes)
  BY <1>1, GateIsExact
<1> QED BY <1>2, CutKeepsPrefixes
=============================================================================
