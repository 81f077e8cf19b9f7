-------------------------- MODULE CallbacksProofs ---------------------------
(***************************************************************************)
(* Proofs about module Callbacks: any number of calls, any capacity of the *)
(* string buffers, any keys and prefixes.                                  *)
(***************************************************************************)
EXTENDS Callbacks, PathGateProofs, FiniteSetTheorems

----------------------------------------------------------------------------
(* The inductive invariant. *)

EarlyPcs == {"idle", "resolve", "copy_key", "release", "gate", "alloc"}
ResolvingPcs == {"resolve", "copy_key", "release", "gate"}

\* The fields named in a list of strings.
Named(list) == {list[j] : j \in DOMAIN list}

\* A call holds a name of the CM exactly between getting it and giving it back.
LentInv == \A c \in Calls : c \in lent <=> pc[c] \in {"copy_key", "release"}

\* What a call is at says what it is notified of; only a registry call goes through
\* the gate.
KindInv ==
  \A c \in Calls :
    /\ pc[c] = "idle" => kind[c] = "ignored"
    /\ pc[c] \in ResolvingPcs => kind[c] \in ObjectKinds

\* Each string of an event is copied once: what is still to be copied has not been.
TodoInv ==
  \A c \in Calls :
    /\ pc[c] \in {"idle", "resolve", "copy_key"} => \A f \in Fields : source[c][f] = 0
    /\ pc[c] \in EarlyPcs \cup {"fill"} => \A f \in Named(todo[c]) : source[c][f] = 0
    /\ \A i, j \in DOMAIN todo[c] : todo[c][i] = todo[c][j] => i = j
    /\ pc[c] \in ResolvingPcs => "key_path" \notin Named(todo[c])

\* A field says what was copied into it, and a cut has been counted.
FieldInv ==
  \A c \in Calls, f \in Fields :
    /\ written[c][f] = IF source[c][f] <= Room(f) THEN source[c][f] ELSE Room(f)
    /\ source[c][f] > Room(f) <=> <<c, f>> \in Counted

\* A call that has no header yet reports nothing.
CutInv ==
  /\ CutsCountedOnce
  /\ IsFiniteSet(cuts)
  /\ \A c \in Calls : pc[c] \in EarlyPcs => reports[c] = {}

\* The name on the stack is that of the key, as far as there is room.
GateInv ==
  /\ GateExact
  /\ \A c \in Calls : pc[c] \in {"release", "gate"} => source[c]["key_path"] = Len(key[c])

IndInv == TypeOK /\ LentInv /\ KindInv /\ TodoInv /\ FieldInv /\ CutInv /\ GateInv

----------------------------------------------------------------------------
(* The operators. *)

\* The smaller of two numbers, as CopyInto takes it.
LEMMA MinOfTwo ==
  ASSUME NEW n \in Nat, NEW m \in Nat
  PROVE  Min({n, m}) = IF n <= m THEN n ELSE m
<1>1. CASE n <= m
  <2>1. \A x \in {n, m} : (\A y \in {n, m} : x <= y) <=> x = n
    BY <1>1
  <2>2. n \in {n, m}
    OBVIOUS
  <2> QED
    BY <1>1, <2>1, <2>2 DEF Min
<1>2. CASE ~ (n <= m)
  <2>1. \A x \in {n, m} : (\A y \in {n, m} : x <= y) <=> x = m
    BY <1>2
  <2>2. m \in {n, m}
    OBVIOUS
  <2> QED
    BY <1>2, <2>1, <2>2 DEF Min
<1> QED
  BY <1>1, <1>2

\* The room in a buffer, and that no prefix is longer.
LEMMA RoomFacts ==
  /\ MAX \in Nat
  /\ \A f \in Fields : Room(f) \in Nat /\ Room(f) <= MAX
  /\ \A f \in Fields : f # "data_preview" => Room(f) < MAX
  /\ Room("key_path") = MAX - 1
BY MaxAssumption DEF Room

\* No string of an event is copied twice, and the name of a key that has been
\* resolved is not copied again.
LEMMA StringsFacts ==
  ASSUME NEW kd \in Kinds
  PROVE  /\ StringsOf(kd) \in Seq(Fields)
         /\ \A i, j \in DOMAIN StringsOf(kd) : StringsOf(kd)[i] = StringsOf(kd)[j] => i = j
         /\ kd \in ObjectKinds => "key_path" \notin Named(StringsOf(kd))
<1>1. ASSUME NEW f \in Fields
      PROVE  /\ <<f>> \in Seq(Fields)
             /\ \A i, j \in DOMAIN <<f>> : <<f>>[i] = <<f>>[j] => i = j
             /\ f # "key_path" => "key_path" \notin Named(<<f>>)
  BY <1>1 DEF Named
<1>2. ASSUME NEW f \in Fields, NEW g \in Fields, f # g
      PROVE  /\ <<f, g>> \in Seq(Fields)
             /\ \A i, j \in DOMAIN <<f, g>> : <<f, g>>[i] = <<f, g>>[j] => i = j
             /\ f # "key_path" /\ g # "key_path" => "key_path" \notin Named(<<f, g>>)
  BY <1>2 DEF Named
<1>3. CASE kd = "set_value"
  <2>1. StringsOf(kd) = <<"value_name", "data_preview">>
    BY <1>3 DEF StringsOf
  <2>2. "value_name" \in Fields /\ "data_preview" \in Fields
    BY DEF Fields
  <2> QED
    BY <1>2, <2>1, <2>2
<1>4. CASE kd = "delete_value"
  <2>1. StringsOf(kd) = <<"value_name">> /\ "value_name" \in Fields
    BY <1>4 DEF StringsOf, Fields
  <2> QED
    BY <1>1, <2>1
<1>5. CASE kd = "create_key"
  <2>1. StringsOf(kd) = <<"key_path">> /\ "key_path" \in Fields /\ kd \notin ObjectKinds
    BY <1>5 DEF StringsOf, Fields, ObjectKinds
  <2> QED
    BY <1>1, <2>1
<1>6. CASE kd = "process_create"
  <2>1. StringsOf(kd) = <<"image_path", "command_line">> /\ kd \notin ObjectKinds
    BY <1>6 DEF StringsOf, ObjectKinds
  <2>2. "image_path" \in Fields /\ "command_line" \in Fields
    BY DEF Fields
  <2> QED
    BY <1>2, <2>1, <2>2
<1>7. CASE kd = "image_load"
  <2>1. StringsOf(kd) = <<"image_path">> /\ "image_path" \in Fields
    BY <1>7 DEF StringsOf, Fields
  <2> QED
    BY <1>1, <2>1
<1>8. CASE kd \notin {"set_value", "delete_value", "create_key", "process_create", "image_load"}
  <2>1. StringsOf(kd) = << >>
    BY <1>8 DEF StringsOf
  <2> QED
    BY <2>1 DEF Named
<1> QED
  BY <1>3, <1>4, <1>5, <1>6, <1>7, <1>8

\* A nameless key is not watched: no prefix is empty.
LEMMA NamelessIsUnwatched == ~ Watched(<< >>, CRITICAL_REGISTRY_PREFIXES)
<1> SUFFICES ASSUME NEW prefix \in CRITICAL_REGISTRY_PREFIXES, StartsWith(<< >>, prefix)
             PROVE  FALSE
  BY DEF Watched
<1>1. prefix \in Seq(Ascii) /\ prefix # << >>
  BY PrefixesAssumption
<1>2. Len(prefix) <= 0
  BY DEF StartsWith
<1> HIDE DEF Ascii
<1> QED
  BY <1>1, <1>2

\* The prefixes are ASCII strings that fit in the buffer on the stack.
LEMMA PrefixFacts ==
  /\ CRITICAL_REGISTRY_PREFIXES \subseteq Seq(Ascii)
  /\ \A prefix \in CRITICAL_REGISTRY_PREFIXES : Len(prefix) <= MAX - 1
<1>1. \A prefix \in CRITICAL_REGISTRY_PREFIXES : Len(prefix) \in Nat
  BY PrefixesAssumption
<1> QED
  BY <1>1, PrefixesAssumption, MaxAssumption

\* The gate for a full name.
LEMMA GateOfName ==
  ASSUME NEW name \in Keys
  PROVE  is_interesting_path(name, CRITICAL_REGISTRY_PREFIXES)
           <=> Watched(name, CRITICAL_REGISTRY_PREFIXES)
BY GateIsExact, PrefixFacts, KeysAssumption

\* The gate for the copy on the stack, as full as there is room: it decides as
\* the gate for the name would.
LEMMA GateOfCopy ==
  ASSUME NEW name \in Keys, NEW n \in Nat,
         n = IF Len(name) <= MAX - 1 THEN Len(name) ELSE MAX - 1
  PROVE  (/\ n # 0
          /\ is_interesting_path(SubSeq(name, 1, n), CRITICAL_REGISTRY_PREFIXES))
           <=> Watched(name, CRITICAL_REGISTRY_PREFIXES)
<1> DEFINE copy == SubSeq(name, 1, n)
<1> HIDE DEF Unit, Ascii
<1>1. name \in Seq(Unit) /\ Len(name) \in Nat
  BY KeysAssumption
<1>2. n <= Len(name)
  BY <1>1, MaxAssumption
<1>3. copy \in Seq(Unit)
  BY <1>1, <1>2
<1>4. is_interesting_path(copy, CRITICAL_REGISTRY_PREFIXES)
        <=> Watched(name, CRITICAL_REGISTRY_PREFIXES)
  <2>1. CASE n = Len(name)
    <3>1. copy = name
      BY <2>1, <1>1
    <3> QED
      BY <3>1, GateOfName
  <2>2. CASE n # Len(name)
    <3>1. \A prefix \in CRITICAL_REGISTRY_PREFIXES : Len(prefix) <= n
      BY <2>2, PrefixFacts
    <3> QED
      BY <3>1, <1>1, <1>2, PrefixFacts, CutKeepsDecision
  <2> QED
    BY <2>1, <2>2
<1>5. is_interesting_path(copy, CRITICAL_REGISTRY_PREFIXES)
        <=> Watched(copy, CRITICAL_REGISTRY_PREFIXES)
  BY <1>3, GateIsExact, PrefixFacts
<1>6. ASSUME n = 0 PROVE ~ Watched(name, CRITICAL_REGISTRY_PREFIXES)
  <2>1. copy = << >>
    BY <1>6, <1>1
  <2> QED
    BY <2>1, <1>4, <1>5, NamelessIsUnwatched
<1> QED
  BY <1>4, <1>6

----------------------------------------------------------------------------
(* The steps. *)

\* Where a callback goes from its entry.
Landings == {"resolve", "alloc", "returned"}

\* A callback is entered: a key named by its object is to be resolved, the name of
\* a new key has passed the gate or not.
Entry(c, kd, name, l) ==
  /\ EnterKey(c, kd, name, l)
  /\ kd \in ObjectKinds <=> l = "resolve"
  /\ kd = "create_key" => (l = "alloc" <=> Watched(name, CRITICAL_REGISTRY_PREFIXES))

\* Every notification is an entry.
LEMMA NotifyEnters ==
  ASSUME NEW c \in Calls,
         \/ NotifyProcessCreate(c) \/ NotifyProcessExit(c) \/ NotifyImageLoad(c)
         \/ NotifyThread(c) \/ NotifyRegistry(c) \/ NotifyHandle(c)
  PROVE  \E kd \in Kinds, name \in Keys, l \in Landings : Entry(c, kd, name, l)
<1>1. ASSUME NEW kd \in Kinds \ {"create_key"}, NEW l \in Landings,
             Enter(c, kd, l), kd \in ObjectKinds <=> l = "resolve"
      PROVE  \E k \in Kinds, name \in Keys, m \in Landings : Entry(c, k, name, m)
  <2>1. Entry(c, kd, << >>, l)
    BY <1>1 DEF Entry, Enter
  <2>2. << >> \in Keys
    BY KeysAssumption
  <2> QED
    BY <2>1, <2>2
<1>2. CASE NotifyProcessCreate(c)
  BY <1>1, <1>2 DEF NotifyProcessCreate, Kinds, ObjectKinds, Landings
<1>3. CASE NotifyProcessExit(c)
  BY <1>1, <1>3 DEF NotifyProcessExit, Kinds, ObjectKinds, Landings
<1>4. CASE NotifyImageLoad(c)
  BY <1>1, <1>4 DEF NotifyImageLoad, Kinds, ObjectKinds, Landings
<1>5. CASE NotifyThread(c)
  BY <1>1, <1>5 DEF NotifyThread, Kinds, ObjectKinds, Landings
<1>6. ASSUME NEW kd \in ObjectKinds, NEW name \in Keys, EnterKey(c, kd, name, "resolve")
      PROVE  \E k \in Kinds, n \in Keys, m \in Landings : Entry(c, k, n, m)
  <2>1. Entry(c, kd, name, "resolve")
    BY <1>6 DEF Entry, ObjectKinds
  <2>2. kd \in Kinds /\ "resolve" \in Landings
    BY <1>6 DEF Kinds, Landings
  <2> QED
    BY <2>1, <2>2
<1>7. ASSUME NEW name \in Keys, NEW l \in {"alloc", "returned"},
             EnterKey(c, "create_key", name, l),
             l = "alloc" <=> is_interesting_path(name, CRITICAL_REGISTRY_PREFIXES)
      PROVE  \E k \in Kinds, n \in Keys, m \in Landings : Entry(c, k, n, m)
  <2>1. Entry(c, "create_key", name, l)
    BY <1>7, GateOfName DEF Entry, ObjectKinds
  <2>2. "create_key" \in Kinds /\ l \in Landings
    BY <1>7 DEF Kinds, Landings
  <2> QED
    BY <2>1, <2>2
<1>8. CASE Enter(c, "ignored", "returned")
  BY <1>1, <1>8 DEF Kinds, ObjectKinds, Landings
<1>9. CASE NotifyRegistry(c)
  <2>1. ASSUME NEW name \in Keys,
               EnterKey(c, "create_key", name,
                 IF is_interesting_path(name, CRITICAL_REGISTRY_PREFIXES)
                 THEN "alloc" ELSE "returned")
        PROVE  \E k \in Kinds, n \in Keys, m \in Landings : Entry(c, k, n, m)
    BY <1>7, <2>1
  <2> QED
    BY <1>6, <1>8, <1>9, <2>1 DEF NotifyRegistry
<1>10. CASE NotifyHandle(c)
  <2>1. PICK h \in Handle :
          Enter(c, "handle_access", IF WatchedHandle(h) THEN "alloc" ELSE "returned")
    BY <1>10 DEF NotifyHandle
  <2> QED
    BY <1>1, <2>1 DEF Kinds, ObjectKinds, Landings
<1> QED
  BY <1>2, <1>3, <1>4, <1>5, <1>9, <1>10

\* The steps, each notification as its entry.
Step(c) ==
  \/ \E kd \in Kinds, name \in Keys, l \in Landings : Entry(c, kd, name, l)
  \/ GetKeyObjectID(c)
  \/ GetKeyObjectIDFails(c)
  \/ CopyKey(c)
  \/ ReleaseKeyObjectID(c)
  \/ Gate(c)
  \/ AllocFails(c)
  \/ AllocEventFor(c)
  \/ CopyString(c)
  \/ Submit(c)

\* There are no others.
LEMMA Steps ==
  ASSUME [Next]_vars
  PROVE  UNCHANGED vars \/ \E c \in Calls : Step(c)
BY NotifyEnters DEF Next, Step, Finished


\* A copy writes no more than there is room for, and counts what does not fit.
LEMMA CopyFacts ==
  ASSUME TypeOK, NEW c \in Calls, NEW f \in Fields, NEW n \in Nat, CopyInto(c, f, n)
  PROVE  /\ source' = [source EXCEPT ![c][f] = n]
         /\ written' = [written EXCEPT ![c][f] = IF n <= Room(f) THEN n ELSE Room(f)]
         /\ n <= Room(f) => TRUNC_COUNT' = TRUNC_COUNT /\ cuts' = cuts
         /\ n > Room(f) => TRUNC_COUNT' = TRUNC_COUNT + 1 /\ cuts' = cuts \cup {<<c, f>>}
<1>1. Min({n, Room(f)}) = IF n <= Room(f) THEN n ELSE Room(f)
  BY MinOfTwo, RoomFacts
<1>2. ~ (n <= Room(f) /\ n > Room(f))
  BY RoomFacts
<1> QED
  BY <1>1, <1>2 DEF CopyInto

\* The string to copy next is one of the event's, and of natural length.
LEMMA NextString ==
  ASSUME TypeOK, NEW c \in Calls, todo[c] # << >>
  PROVE  /\ todo[c] \in Seq(Fields) /\ Head(todo[c]) \in Fields
         /\ Head(todo[c]) = todo[c][1] /\ 1 \in DOMAIN todo[c]
         /\ Tail(todo[c]) \in Seq(Fields)
         /\ \A j \in DOMAIN Tail(todo[c]) :
              j + 1 \in DOMAIN todo[c] /\ Tail(todo[c])[j] = todo[c][j + 1] /\ j + 1 # 1
         /\ \A n \in SourceLengths(c) : n \in Nat
<1>1. todo[c] \in Seq(Fields)
  BY DEF TypeOK
<1>2. Len(key[c]) \in Nat
  <2> HIDE DEF Unit
  <2>1. key[c] \in Seq(Unit)
    BY KeysAssumption DEF TypeOK
  <2> QED
    BY <2>1
<1>3. \A n \in SourceLengths(c) : n \in Nat
  BY <1>2, LengthsAssumption DEF SourceLengths
<1> HIDE DEF Fields
<1> QED
  BY <1>1, <1>3

\* The length of a key's name.
LEMMA KeyLength ==
  ASSUME TypeOK, NEW c \in Calls
  PROVE  key[c] \in Keys /\ Len(key[c]) \in Nat
<1>1. key[c] \in Keys /\ key[c] \in Seq(Unit)
  BY KeysAssumption DEF TypeOK
<1> HIDE DEF Unit
<1> QED
  BY <1>1

\* A copy keeps the types.
LEMMA CopyTypes ==
  ASSUME TypeOK, NEW c \in Calls, NEW f \in Fields, NEW n \in Nat, CopyInto(c, f, n)
  PROVE  /\ TRUNC_COUNT' \in Nat /\ cuts' \in SUBSET (Calls \X Fields)
         /\ source' \in [Calls -> [Fields -> Nat]]
         /\ written' \in [Calls -> [Fields -> 0 .. MAX]]
<1> DEFINE fit == IF n <= Room(f) THEN n ELSE Room(f)
<1>1. fit \in 0 .. MAX
  BY RoomFacts
<1>2. <<c, f>> \in Calls \X Fields
  OBVIOUS
<1> HIDE DEF Fields, fit
<1>3. written' = [written EXCEPT ![c][f] = fit]
  BY CopyFacts DEF fit
<1>4. TRUNC_COUNT' \in {TRUNC_COUNT, TRUNC_COUNT + 1} /\ cuts' \in {cuts, cuts \cup {<<c, f>>}}
  BY RoomFacts, CopyFacts
<1>5. TRUNC_COUNT' \in Nat /\ cuts' \in SUBSET (Calls \X Fields)
  BY <1>2, <1>4 DEF TypeOK
<1>6. written' \in [Calls -> [Fields -> 0 .. MAX]]
  BY <1>1, <1>3 DEF TypeOK
<1>7. source' \in [Calls -> [Fields -> Nat]]
  <2>1. source' = [source EXCEPT ![c][f] = n]
    BY CopyFacts
  <2> QED
    BY <2>1 DEF TypeOK
<1> QED
  BY <1>5, <1>6, <1>7

\* The type invariant.
LEMMA TypeStep ==
  ASSUME IndInv, [Next]_vars
  PROVE  TypeOK'
<1> USE DEF IndInv
<1>1. CASE UNCHANGED vars
  BY <1>1 DEF TypeOK, vars, counters, evVars, headVars
<1>2. ASSUME NEW c \in Calls, NEW kd \in Kinds, NEW name \in Keys, NEW l \in Landings,
             Entry(c, kd, name, l)
      PROVE  TypeOK'
  <2>1. StringsOf(kd) \in Seq(Fields)
    BY StringsFacts
  <2> HIDE DEF Fields, Kinds
  <2> QED
    BY <1>2, <2>1 DEF TypeOK, Entry, EnterKey, Landings, Goto, counters, headVars
<1>3. ASSUME NEW c \in Calls, GetKeyObjectID(c)
      PROVE  TypeOK'
  BY <1>3 DEF TypeOK, GetKeyObjectID, Goto, counters, evVars,
    headVars
<1>4. ASSUME NEW c \in Calls, GetKeyObjectIDFails(c)
      PROVE  TypeOK'
  BY <1>4 DEF TypeOK, GetKeyObjectIDFails,
    Goto, counters, evVars, headVars
<1>5. ASSUME NEW c \in Calls, CopyKey(c)
      PROVE  TypeOK'
  <2>1. "key_path" \in Fields /\ Len(key[c]) \in Nat
    BY KeyLength DEF Fields
  <2>2. CopyInto(c, "key_path", Len(key[c]))
    BY <1>5 DEF CopyKey
  <2>3. /\ TRUNC_COUNT' \in Nat /\ cuts' \in SUBSET (Calls \X Fields)
        /\ source' \in [Calls -> [Fields -> Nat]] /\ written' \in [Calls -> [Fields -> 0 .. MAX]]
    BY <2>1, <2>2, CopyTypes
  <2> QED
    BY <1>5, <2>3 DEF TypeOK, CopyKey, Goto, headVars
<1>6. ASSUME NEW c \in Calls, ReleaseKeyObjectID(c)
      PROVE  TypeOK'
  BY <1>6 DEF TypeOK, ReleaseKeyObjectID, Goto, counters, evVars, headVars
<1>7. ASSUME NEW c \in Calls, Gate(c)
      PROVE  TypeOK'
  BY <1>7 DEF TypeOK, Gate, Goto, counters, evVars, headVars
<1>8. ASSUME NEW c \in Calls, AllocFails(c)
      PROVE  TypeOK'
  BY <1>8 DEF TypeOK, AllocFails, Goto, evVars, headVars
<1>9. ASSUME NEW c \in Calls, AllocEventFor(c)
      PROVE  TypeOK'
  BY <1>9 DEF TypeOK, AllocEventFor, Goto, evVars
<1>10. ASSUME NEW c \in Calls, CopyString(c)
      PROVE  TypeOK'
  <2>1. todo[c] # << >>
    BY <1>10 DEF CopyString
  <2>2. PICK n \in SourceLengths(c) : CopyInto(c, Head(todo[c]), n)
    BY <1>10 DEF CopyString
  <2>3. Head(todo[c]) \in Fields /\ n \in Nat /\ Tail(todo[c]) \in Seq(Fields)
    BY <2>1, NextString
  <2>4. /\ TRUNC_COUNT' \in Nat /\ cuts' \in SUBSET (Calls \X Fields)
        /\ source' \in [Calls -> [Fields -> Nat]] /\ written' \in [Calls -> [Fields -> 0 .. MAX]]
    BY <2>2, <2>3, CopyTypes
  <2> QED
    BY <1>10, <2>3, <2>4 DEF TypeOK, CopyString, headVars
<1>11. ASSUME NEW c \in Calls, Submit(c)
      PROVE  TypeOK'
  BY <1>11 DEF TypeOK, Submit, Goto, counters, evVars, headVars
<1> QED
  BY <1>1, <1>2, <1>3, <1>4, <1>5, <1>6, <1>7, <1>8, <1>9, <1>10, <1>11, Steps DEF Step

\* Which calls hold a name of the CM.
LEMMA LentStep ==
  ASSUME IndInv, [Next]_vars
  PROVE  LentInv'
<1> USE DEF IndInv
<1>1. CASE UNCHANGED vars
  BY <1>1 DEF TypeOK, LentInv, vars, counters, evVars, headVars
<1>2. ASSUME NEW c \in Calls, NEW kd \in Kinds, NEW name \in Keys, NEW l \in Landings,
             Entry(c, kd, name, l)
      PROVE  LentInv'
  BY <1>2 DEF TypeOK, LentInv, Entry, EnterKey, Landings, Goto, counters, headVars
<1>3. ASSUME NEW c \in Calls, GetKeyObjectID(c)
      PROVE  LentInv'
  BY <1>3 DEF TypeOK, LentInv, GetKeyObjectID, Goto, counters, evVars,
    headVars
<1>4. ASSUME NEW c \in Calls, GetKeyObjectIDFails(c)
      PROVE  LentInv'
  BY <1>4 DEF TypeOK, LentInv, GetKeyObjectIDFails,
    Goto, counters, evVars, headVars
<1>5. ASSUME NEW c \in Calls, CopyKey(c)
      PROVE  LentInv'
  BY <1>5 DEF TypeOK, LentInv, CopyKey, Goto, headVars
<1>6. ASSUME NEW c \in Calls, ReleaseKeyObjectID(c)
      PROVE  LentInv'
  BY <1>6 DEF TypeOK, LentInv, ReleaseKeyObjectID, Goto, counters, evVars, headVars
<1>7. ASSUME NEW c \in Calls, Gate(c)
      PROVE  LentInv'
  BY <1>7 DEF TypeOK, LentInv, Gate, Goto, counters, evVars, headVars
<1>8. ASSUME NEW c \in Calls, AllocFails(c)
      PROVE  LentInv'
  BY <1>8 DEF TypeOK, LentInv, AllocFails, Goto, evVars, headVars
<1>9. ASSUME NEW c \in Calls, AllocEventFor(c)
      PROVE  LentInv'
  BY <1>9 DEF TypeOK, LentInv, AllocEventFor, Goto, evVars
<1>10. ASSUME NEW c \in Calls, CopyString(c)
      PROVE  LentInv'
  BY <1>10 DEF TypeOK, LentInv, CopyString, headVars
<1>11. ASSUME NEW c \in Calls, Submit(c)
      PROVE  LentInv'
  BY <1>11 DEF TypeOK, LentInv, Submit, Goto, counters, evVars, headVars
<1> QED
  BY <1>1, <1>2, <1>3, <1>4, <1>5, <1>6, <1>7, <1>8, <1>9, <1>10, <1>11, Steps DEF Step

\* What a call is notified of.
LEMMA KindStep ==
  ASSUME IndInv, [Next]_vars
  PROVE  KindInv'
<1> USE DEF IndInv, ResolvingPcs
<1>1. CASE UNCHANGED vars
  BY <1>1 DEF TypeOK, KindInv, vars, counters, evVars, headVars
<1>2. ASSUME NEW c \in Calls, NEW kd \in Kinds, NEW name \in Keys, NEW l \in Landings,
             Entry(c, kd, name, l)
      PROVE  KindInv'
  <2>1. l = "resolve" <=> kd \in ObjectKinds
    BY <1>2 DEF Entry
  <2> QED
    BY <1>2, <2>1 DEF TypeOK, KindInv, Entry, EnterKey, Landings, Goto
<1>3. ASSUME NEW c \in Calls, GetKeyObjectID(c)
      PROVE  KindInv'
  BY <1>3 DEF TypeOK, KindInv, GetKeyObjectID, Goto, counters, evVars,
    headVars
<1>4. ASSUME NEW c \in Calls, GetKeyObjectIDFails(c)
      PROVE  KindInv'
  BY <1>4 DEF TypeOK, KindInv, GetKeyObjectIDFails,
    Goto, counters, evVars, headVars
<1>5. ASSUME NEW c \in Calls, CopyKey(c)
      PROVE  KindInv'
  BY <1>5 DEF TypeOK, KindInv, CopyKey, Goto, headVars
<1>6. ASSUME NEW c \in Calls, ReleaseKeyObjectID(c)
      PROVE  KindInv'
  BY <1>6 DEF TypeOK, KindInv, ReleaseKeyObjectID, Goto, counters, evVars, headVars
<1>7. ASSUME NEW c \in Calls, Gate(c)
      PROVE  KindInv'
  BY <1>7 DEF TypeOK, KindInv, Gate, Goto, counters, evVars, headVars
<1>8. ASSUME NEW c \in Calls, AllocFails(c)
      PROVE  KindInv'
  BY <1>8 DEF TypeOK, KindInv, AllocFails, Goto, evVars, headVars
<1>9. ASSUME NEW c \in Calls, AllocEventFor(c)
      PROVE  KindInv'
  BY <1>9 DEF TypeOK, KindInv, AllocEventFor, Goto, evVars
<1>10. ASSUME NEW c \in Calls, CopyString(c)
      PROVE  KindInv'
  BY <1>10 DEF TypeOK, KindInv, CopyString, headVars
<1>11. ASSUME NEW c \in Calls, Submit(c)
      PROVE  KindInv'
  BY <1>11 DEF TypeOK, KindInv, Submit, Goto, counters, evVars, headVars
<1> QED
  BY <1>1, <1>2, <1>3, <1>4, <1>5, <1>6, <1>7, <1>8, <1>9, <1>10, <1>11, Steps DEF Step

\* No string is copied twice.
LEMMA TodoStep ==
  ASSUME IndInv, [Next]_vars
  PROVE  TodoInv'
<1> USE DEF IndInv
<1>1. CASE UNCHANGED vars
  BY <1>1 DEF TypeOK, TodoInv, Named, EarlyPcs, ResolvingPcs, vars, counters, evVars, headVars
<1>2. ASSUME NEW c \in Calls, NEW kd \in Kinds, NEW name \in Keys, NEW l \in Landings,
             Entry(c, kd, name, l)
      PROVE  TodoInv'
  <2>1. \A f \in Fields : source[c][f] = 0
    BY <1>2 DEF Entry, EnterKey, TodoInv
  <2>2. Named(StringsOf(kd)) \subseteq Fields
    <3>1. StringsOf(kd) \in Seq(Fields)
      BY StringsFacts
    <3> HIDE DEF Fields
    <3> QED
      BY <3>1 DEF Named
  <2>3. /\ \A i, j \in DOMAIN StringsOf(kd) : StringsOf(kd)[i] = StringsOf(kd)[j] => i = j
        /\ l = "resolve" => "key_path" \notin Named(StringsOf(kd))
    BY <1>2, StringsFacts DEF Entry
  <2>4. /\ todo' = [todo EXCEPT ![c] = StringsOf(kd)] /\ pc' = [pc EXCEPT ![c] = l]
        /\ source' = source
    BY <1>2 DEF Entry, EnterKey, Goto
  <2> HIDE DEF Fields
  <2> QED
    BY <2>1, <2>2, <2>3, <2>4 DEF TypeOK, TodoInv, EarlyPcs, ResolvingPcs, Landings
<1>3. ASSUME NEW c \in Calls, GetKeyObjectID(c)
      PROVE  TodoInv'
  BY <1>3 DEF TypeOK, TodoInv, Named, EarlyPcs, ResolvingPcs, GetKeyObjectID, Goto, counters, evVars,
    headVars
<1>4. ASSUME NEW c \in Calls, GetKeyObjectIDFails(c)
      PROVE  TodoInv'
  BY <1>4 DEF TypeOK, TodoInv, Named, EarlyPcs, ResolvingPcs, GetKeyObjectIDFails,
    Goto, counters, evVars, headVars
<1>5. ASSUME NEW c \in Calls, CopyKey(c)
      PROVE  TodoInv'
  <2>1. "key_path" \in Fields /\ Len(key[c]) \in Nat
    BY KeyLength DEF Fields
  <2>2. source' = [source EXCEPT ![c]["key_path"] = Len(key[c])]
    BY <1>5, <2>1, CopyFacts DEF CopyKey
  <2>3. "key_path" \notin Named(todo[c]) /\ \A f \in Fields : source[c][f] = 0
    BY <1>5 DEF CopyKey, TodoInv, ResolvingPcs
  <2>4. Named(todo[c]) \subseteq Fields
    <3>1. todo[c] \in Seq(Fields)
      BY DEF TypeOK
    <3> HIDE DEF Fields
    <3> QED
      BY <3>1 DEF Named
  <2>5. pc' = [pc EXCEPT ![c] = "release"] /\ todo' = todo
    BY <1>5 DEF CopyKey, Goto
  <2> HIDE DEF Fields
  <2> QED
    BY <2>1, <2>2, <2>3, <2>4, <2>5 DEF TypeOK, TodoInv, EarlyPcs, ResolvingPcs
<1>6. ASSUME NEW c \in Calls, ReleaseKeyObjectID(c)
      PROVE  TodoInv'
  BY <1>6 DEF TypeOK, TodoInv, Named, EarlyPcs, ResolvingPcs, ReleaseKeyObjectID,
    Goto, counters, evVars, headVars
<1>7. ASSUME NEW c \in Calls, Gate(c)
      PROVE  TodoInv'
  BY <1>7 DEF TypeOK, TodoInv, Named, EarlyPcs, ResolvingPcs, Gate, Goto, counters, evVars, headVars
<1>8. ASSUME NEW c \in Calls, AllocFails(c)
      PROVE  TodoInv'
  BY <1>8 DEF TypeOK, TodoInv, Named, EarlyPcs, ResolvingPcs, AllocFails, Goto, evVars, headVars
<1>9. ASSUME NEW c \in Calls, AllocEventFor(c)
      PROVE  TodoInv'
  BY <1>9 DEF TypeOK, TodoInv, Named, EarlyPcs, ResolvingPcs, AllocEventFor, Goto, evVars
<1>10. ASSUME NEW c \in Calls, CopyString(c)
      PROVE  TodoInv'
  <2>1. PICK n \in SourceLengths(c) : CopyInto(c, Head(todo[c]), n)
    BY <1>10 DEF CopyString
  <2>2. todo[c] # << >> /\ pc[c] = "fill" /\ todo' = [todo EXCEPT ![c] = Tail(todo[c])]
    BY <1>10 DEF CopyString
  <2>3. /\ Head(todo[c]) \in Fields /\ n \in Nat
        /\ Head(todo[c]) = todo[c][1] /\ 1 \in DOMAIN todo[c]
    BY <2>2, NextString
  <2>4. source[c][Head(todo[c])] = 0
    BY <2>2, <2>3 DEF TodoInv, Named
  <2>5. source' = [source EXCEPT ![c][Head(todo[c])] = n] /\ pc' = pc
    BY <1>10, <2>1, <2>3, CopyFacts DEF CopyString
  <2> DEFINE rest == Tail(todo[c])
  <2>6. \A j \in DOMAIN rest :
          j + 1 \in DOMAIN todo[c] /\ rest[j] = todo[c][j + 1] /\ j + 1 # 1
    BY <2>2, NextString
  <2>7. \A i \in DOMAIN rest : i \in Nat
    BY <2>2, NextString
  <2> HIDE DEF rest
  <2>8. \A i, j \in DOMAIN rest : rest[i] = rest[j] => i = j
    BY <2>6, <2>7 DEF TodoInv
  <2>9. Named(rest) \subseteq Named(todo[c]) /\ Head(todo[c]) \notin Named(rest)
    BY <2>3, <2>6, <2>7 DEF TodoInv, Named
  <2>10. Named(todo[c]) \subseteq Fields
    <3>1. todo[c] \in Seq(Fields)
      BY DEF TypeOK
    <3> HIDE DEF Fields
    <3> QED
      BY <3>1 DEF Named
  <2>11. todo' = [todo EXCEPT ![c] = rest]
    BY <2>2 DEF rest
  <2>12. ASSUME NEW d \in Calls, d # c
         PROVE  todo'[d] = todo[d] /\ source'[d] = source[d] /\ pc'[d] = pc[d]
    BY <2>5, <2>11, <2>12 DEF TypeOK
  <2>13. todo'[c] = rest /\ pc'[c] = "fill"
    BY <2>2, <2>5, <2>11 DEF TypeOK
  <2>14. \A f \in Fields : f # Head(todo[c]) => source'[c][f] = source[c][f]
    BY <2>5 DEF TypeOK
  <2> HIDE DEF Fields
  <2>15. \A f \in Named(rest) : source'[c][f] = 0
    BY <2>2, <2>9, <2>10, <2>14 DEF TodoInv
  <2>16. \A i, j \in DOMAIN todo'[c] : todo'[c][i] = todo'[c][j] => i = j
    BY <2>8, <2>13
  <2> QED
    BY <2>12, <2>13, <2>15, <2>16 DEF TodoInv, EarlyPcs, ResolvingPcs
<1>11. ASSUME NEW c \in Calls, Submit(c)
      PROVE  TodoInv'
  BY <1>11 DEF TypeOK, TodoInv, Named, EarlyPcs, ResolvingPcs, Submit, Goto, counters, evVars, headVars
<1> QED
  BY <1>1, <1>2, <1>3, <1>4, <1>5, <1>6, <1>7, <1>8, <1>9, <1>10, <1>11, Steps DEF Step

\* What a copy adds to the cuts that are counted.
LEMMA CountedCopy ==
  ASSUME TypeOK, NEW c \in Calls, NEW f \in Fields, NEW n \in Nat, CopyInto(c, f, n),
         UNCHANGED reports
  PROVE  /\ n <= Room(f) => Counted' = Counted
         /\ n > Room(f) => Counted' = Counted \cup {<<c, f>>}
BY CopyFacts, RoomFacts DEF Counted

\* A copy into a field that was empty is faithful.
LEMMA FieldCopy ==
  ASSUME TypeOK, FieldInv, NEW c \in Calls, NEW f \in Fields, NEW n \in Nat,
         CopyInto(c, f, n), UNCHANGED reports, source[c][f] = 0
  PROVE  FieldInv'
<1>1. /\ source' = [source EXCEPT ![c][f] = n]
      /\ written' = [written EXCEPT ![c][f] = IF n <= Room(f) THEN n ELSE Room(f)]
  BY CopyFacts
<1>2. <<c, f>> \notin Counted
  BY RoomFacts DEF FieldInv
<1>3. ASSUME NEW d \in Calls, NEW g \in Fields, <<d, g>> # <<c, f>>
      PROVE  /\ source'[d][g] = source[d][g] /\ written'[d][g] = written[d][g]
             /\ <<d, g>> \in Counted' <=> <<d, g>> \in Counted
  <2>1. source'[d][g] = source[d][g] /\ written'[d][g] = written[d][g]
    BY <1>1, <1>3 DEF TypeOK
  <2>2. Counted' = Counted \/ Counted' = Counted \cup {<<c, f>>}
    BY CountedCopy, RoomFacts
  <2> QED
    BY <1>3, <2>1, <2>2
<1>4. source'[c][f] = n /\ written'[c][f] = IF n <= Room(f) THEN n ELSE Room(f)
  BY <1>1 DEF TypeOK
<1>5. n > Room(f) <=> <<c, f>> \in Counted'
  BY <1>2, CountedCopy, RoomFacts
<1> SUFFICES ASSUME NEW d \in Calls, NEW g \in Fields
             PROVE  /\ written'[d][g] = IF source'[d][g] <= Room(g) THEN source'[d][g] ELSE Room(g)
                    /\ source'[d][g] > Room(g) <=> <<d, g>> \in Counted'
  BY DEF FieldInv, Room
<1>6. CASE <<d, g>> = <<c, f>>
  <2>1. d = c /\ g = f
    BY <1>6
  <2> QED
    BY <2>1, <1>4, <1>5
<1>7. CASE <<d, g>> # <<c, f>>
  BY <1>3, <1>7 DEF FieldInv
<1> QED
  BY <1>6, <1>7

\* A cut that was not counted is counted once.
LEMMA CutCopy ==
  ASSUME TypeOK, FieldInv, CutsCountedOnce, IsFiniteSet(cuts),
         NEW c \in Calls, NEW f \in Fields, NEW n \in Nat,
         CopyInto(c, f, n), UNCHANGED headVars, source[c][f] = 0
  PROVE  CutsCountedOnce' /\ IsFiniteSet(cuts)'
<1>1. <<c, f>> \notin Counted
  BY RoomFacts DEF FieldInv
<1>2. <<c, f>> \notin cuts /\ \A d \in Calls : <<c, f>> \notin reports[d]
  BY <1>1 DEF Counted
<1>3. CASE n <= Room(f)
  BY <1>3, CopyFacts DEF CutsCountedOnce, headVars
<1>4. CASE n > Room(f)
  <2>1. TRUNC_COUNT' = TRUNC_COUNT + 1 /\ cuts' = cuts \cup {<<c, f>>}
    BY <1>4, CopyFacts
  <2>2. IsFiniteSet(cuts') /\ Cardinality(cuts') = Cardinality(cuts) + 1
    BY <1>2, <2>1, FS_AddElement
  <2> QED
    BY <1>2, <2>1, <2>2 DEF CutsCountedOnce, headVars
<1> QED
  BY <1>3, <1>4, RoomFacts

\* The length fields say what was copied.
LEMMA FieldStep ==
  ASSUME IndInv, [Next]_vars
  PROVE  FieldInv'
<1> USE DEF IndInv
<1>1. CASE UNCHANGED vars
  <2>1. Counted' = Counted
    BY <1>1 DEF Counted, vars, counters, headVars
  <2> QED
    BY <1>1, <2>1 DEF FieldInv, Room, vars, evVars
<1>2. ASSUME NEW c \in Calls, NEW kd \in Kinds, NEW name \in Keys, NEW l \in Landings,
             Entry(c, kd, name, l)
      PROVE  FieldInv'
  <2>1. Counted' = Counted
    BY <1>2 DEF Entry, EnterKey, Counted, counters, headVars
  <2> QED
    BY <1>2, <2>1 DEF FieldInv, Room, Entry, EnterKey, counters, headVars
<1>3. ASSUME NEW c \in Calls, GetKeyObjectID(c)
      PROVE  FieldInv'
  <2>1. Counted' = Counted
    BY <1>3 DEF GetKeyObjectID, Counted, counters, evVars, headVars
  <2> QED
    BY <1>3, <2>1 DEF FieldInv, Room, GetKeyObjectID, counters, evVars, headVars
<1>4. ASSUME NEW c \in Calls, GetKeyObjectIDFails(c)
      PROVE  FieldInv'
  <2>1. Counted' = Counted
    BY <1>4 DEF GetKeyObjectIDFails, Counted, counters, evVars, headVars
  <2> QED
    BY <1>4, <2>1 DEF FieldInv, Room, GetKeyObjectIDFails, counters, evVars, headVars
<1>5. ASSUME NEW c \in Calls, CopyKey(c)
      PROVE  FieldInv'
  <2>1. "key_path" \in Fields /\ Len(key[c]) \in Nat
    BY KeyLength DEF Fields
  <2>2. CopyInto(c, "key_path", Len(key[c])) /\ UNCHANGED headVars /\ pc[c] = "copy_key"
    BY <1>5 DEF CopyKey
  <2>3. source[c]["key_path"] = 0
    BY <2>1, <2>2 DEF TodoInv
  <2> QED
    BY <2>1, <2>2, <2>3, FieldCopy DEF headVars
<1>6. ASSUME NEW c \in Calls, ReleaseKeyObjectID(c)
      PROVE  FieldInv'
  <2>1. Counted' = Counted
    BY <1>6 DEF ReleaseKeyObjectID, Counted, counters, evVars, headVars
  <2> QED
    BY <1>6, <2>1 DEF FieldInv, Room, ReleaseKeyObjectID, counters, evVars, headVars
<1>7. ASSUME NEW c \in Calls, Gate(c)
      PROVE  FieldInv'
  <2>1. Counted' = Counted
    BY <1>7 DEF Gate, Counted, counters, evVars, headVars
  <2> QED
    BY <1>7, <2>1 DEF FieldInv, Room, Gate, counters, evVars, headVars
<1>8. ASSUME NEW c \in Calls, AllocFails(c)
      PROVE  FieldInv'
  <2>1. Counted' = Counted
    BY <1>8 DEF AllocFails, Counted, evVars, headVars
  <2> QED
    BY <1>8, <2>1 DEF FieldInv, Room, AllocFails, evVars, headVars
<1>9. ASSUME NEW c \in Calls, AllocEventFor(c)
      PROVE  FieldInv'
  <2>1. pc[c] = "alloc" /\ reports' = [reports EXCEPT ![c] = cuts] /\ cuts' = {}
    BY <1>9 DEF AllocEventFor
  <2>2. reports[c] = {}
    BY <2>1 DEF CutInv, EarlyPcs
  <2>3. Counted' = Counted
    <3>1. \A d \in Calls : reports'[d] = IF d = c THEN cuts ELSE reports[d]
      BY <2>1 DEF TypeOK
    <3> QED
      BY <2>1, <2>2, <3>1 DEF Counted
  <2> QED
    BY <1>9, <2>3 DEF FieldInv, Room, AllocEventFor, evVars
<1>10. ASSUME NEW c \in Calls, CopyString(c)
      PROVE  FieldInv'
  <2>1. PICK n \in SourceLengths(c) : CopyInto(c, Head(todo[c]), n)
    BY <1>10 DEF CopyString
  <2>2. todo[c] # << >> /\ pc[c] = "fill" /\ todo' = [todo EXCEPT ![c] = Tail(todo[c])]
    BY <1>10 DEF CopyString
  <2>3. /\ Head(todo[c]) \in Fields /\ n \in Nat
        /\ Head(todo[c]) = todo[c][1] /\ 1 \in DOMAIN todo[c]
    BY <2>2, NextString
  <2>4. source[c][Head(todo[c])] = 0
    BY <2>2, <2>3 DEF TodoInv, Named
  <2>5. UNCHANGED reports
    BY <1>10 DEF CopyString, headVars
  <2> QED
    BY <2>1, <2>3, <2>4, <2>5, FieldCopy
<1>11. ASSUME NEW c \in Calls, Submit(c)
      PROVE  FieldInv'
  <2>1. Counted' = Counted
    BY <1>11 DEF Submit, Counted, counters, evVars, headVars
  <2> QED
    BY <1>11, <2>1 DEF FieldInv, Room, Submit, counters, evVars, headVars
<1> QED
  BY <1>1, <1>2, <1>3, <1>4, <1>5, <1>6, <1>7, <1>8, <1>9, <1>10, <1>11, Steps DEF Step

\* The cuts are counted once.
LEMMA CutStep ==
  ASSUME IndInv, [Next]_vars
  PROVE  CutInv'
<1> USE DEF IndInv
<1>1. CASE UNCHANGED vars
  BY <1>1 DEF TypeOK, CutInv, CutsCountedOnce, EarlyPcs, vars, counters, evVars, headVars
<1>2. ASSUME NEW c \in Calls, NEW kd \in Kinds, NEW name \in Keys, NEW l \in Landings,
             Entry(c, kd, name, l)
      PROVE  CutInv'
  BY <1>2 DEF TypeOK, CutInv, CutsCountedOnce, EarlyPcs, Entry, EnterKey, Landings, Goto, counters, headVars
<1>3. ASSUME NEW c \in Calls, GetKeyObjectID(c)
      PROVE  CutInv'
  BY <1>3 DEF TypeOK, CutInv, CutsCountedOnce, EarlyPcs, GetKeyObjectID, Goto, counters, evVars,
    headVars
<1>4. ASSUME NEW c \in Calls, GetKeyObjectIDFails(c)
      PROVE  CutInv'
  BY <1>4 DEF TypeOK, CutInv, CutsCountedOnce, EarlyPcs, GetKeyObjectIDFails,
    Goto, counters, evVars, headVars
<1>5. ASSUME NEW c \in Calls, CopyKey(c)
      PROVE  CutInv'
  <2>1. "key_path" \in Fields /\ Len(key[c]) \in Nat
    BY KeyLength DEF Fields
  <2>2. CopyInto(c, "key_path", Len(key[c])) /\ UNCHANGED headVars /\ pc[c] = "copy_key"
    BY <1>5 DEF CopyKey
  <2>3. source[c]["key_path"] = 0
    BY <2>1, <2>2 DEF TodoInv
  <2>4. CutsCountedOnce' /\ IsFiniteSet(cuts)'
    BY <2>1, <2>2, <2>3, CutCopy DEF CutInv
  <2> QED
    BY <1>5, <2>2, <2>4 DEF TypeOK, CutInv, EarlyPcs, CopyKey, Goto, headVars
<1>6. ASSUME NEW c \in Calls, ReleaseKeyObjectID(c)
      PROVE  CutInv'
  BY <1>6 DEF TypeOK, CutInv, CutsCountedOnce, EarlyPcs, ReleaseKeyObjectID, Goto, counters, evVars, headVars
<1>7. ASSUME NEW c \in Calls, Gate(c)
      PROVE  CutInv'
  BY <1>7 DEF TypeOK, CutInv, CutsCountedOnce, EarlyPcs, Gate, Goto, counters, evVars, headVars
<1>8. ASSUME NEW c \in Calls, AllocFails(c)
      PROVE  CutInv'
  BY <1>8 DEF TypeOK, CutInv, CutsCountedOnce, EarlyPcs, AllocFails, Goto, headVars
<1>9. ASSUME NEW c \in Calls, AllocEventFor(c)
      PROVE  CutInv'
  <2>1. /\ pc[c] = "alloc" /\ reports' = [reports EXCEPT ![c] = cuts] /\ cuts' = {}
        /\ TRUNC_COUNT' = 0 /\ trunc_count' = [trunc_count EXCEPT ![c] = TRUNC_COUNT]
        /\ pc' = [pc EXCEPT ![c] = "fill"]
    BY <1>9 DEF AllocEventFor, Goto
  <2>2. IsFiniteSet(cuts') /\ Cardinality(cuts') = 0
    BY <2>1, FS_EmptySet
  <2>3. \A d \in Calls : /\ reports'[d] = IF d = c THEN cuts ELSE reports[d]
                         /\ trunc_count'[d] = IF d = c THEN TRUNC_COUNT ELSE trunc_count[d]
                         /\ pc'[d] = IF d = c THEN "fill" ELSE pc[d]
    BY <2>1 DEF TypeOK
  <2>4. CutsCountedOnce'
    <3>1. TRUNC_COUNT' = Cardinality(cuts')
      BY <2>1, <2>2
    <3>2. \A d \in Calls : trunc_count'[d] = Cardinality(reports'[d])
      BY <2>3 DEF CutInv, CutsCountedOnce
    <3>3. \A d, e \in Calls : d # e => reports'[d] \cap reports'[e] = {}
      BY <2>3 DEF CutInv, CutsCountedOnce
    <3> QED
      BY <2>1, <3>1, <3>2, <3>3 DEF CutsCountedOnce
  <2> QED
    BY <2>2, <2>3, <2>4 DEF CutInv, EarlyPcs
<1>10. ASSUME NEW c \in Calls, CopyString(c)
      PROVE  CutInv'
  <2>1. PICK n \in SourceLengths(c) : CopyInto(c, Head(todo[c]), n)
    BY <1>10 DEF CopyString
  <2>2. todo[c] # << >> /\ pc[c] = "fill" /\ todo' = [todo EXCEPT ![c] = Tail(todo[c])]
    BY <1>10 DEF CopyString
  <2>3. /\ Head(todo[c]) \in Fields /\ n \in Nat
        /\ Head(todo[c]) = todo[c][1] /\ 1 \in DOMAIN todo[c]
    BY <2>2, NextString
  <2>4. source[c][Head(todo[c])] = 0
    BY <2>2, <2>3 DEF TodoInv, Named
  <2>5. UNCHANGED headVars /\ pc' = pc
    BY <1>10 DEF CopyString
  <2>6. CutsCountedOnce' /\ IsFiniteSet(cuts)'
    BY <2>1, <2>3, <2>4, <2>5, CutCopy DEF CutInv
  <2> QED
    BY <2>5, <2>6 DEF CutInv, headVars
<1>11. ASSUME NEW c \in Calls, Submit(c)
      PROVE  CutInv'
  BY <1>11 DEF TypeOK, CutInv, CutsCountedOnce, EarlyPcs, Submit, Goto, counters, evVars, headVars
<1> QED
  BY <1>1, <1>2, <1>3, <1>4, <1>5, <1>6, <1>7, <1>8, <1>9, <1>10, <1>11, Steps DEF Step

\* The gate decides by the full name.
LEMMA GateStep ==
  ASSUME IndInv, [Next]_vars
  PROVE  GateInv'
<1> USE DEF IndInv
<1>1. CASE UNCHANGED vars
  BY <1>1 DEF TypeOK, GateInv, GateExact, vars, counters, evVars, headVars
<1>2. ASSUME NEW c \in Calls, NEW kd \in Kinds, NEW name \in Keys, NEW l \in Landings,
             Entry(c, kd, name, l)
      PROVE  GateInv'
  <2>1. /\ kind' = [kind EXCEPT ![c] = kd] /\ key' = [key EXCEPT ![c] = name]
        /\ pc' = [pc EXCEPT ![c] = l] /\ source' = source
        /\ l \notin {"release", "gate", "fill", "submitted", "oom"}
    BY <1>2 DEF Entry, EnterKey, Goto, Landings
  <2>2. kd \in ObjectKinds => l = "resolve"
    BY <1>2 DEF Entry
  <2>3. kd = "create_key" =>
          /\ l = "alloc" => Watched(name, CRITICAL_REGISTRY_PREFIXES)
          /\ l = "returned" => ~ Watched(name, CRITICAL_REGISTRY_PREFIXES)
    BY <1>2 DEF Entry
  <2> QED
    BY <2>1, <2>2, <2>3 DEF TypeOK, GateInv, GateExact
<1>3. ASSUME NEW c \in Calls, GetKeyObjectID(c)
      PROVE  GateInv'
  BY <1>3 DEF TypeOK, GateInv, GateExact, GetKeyObjectID, Goto, counters, evVars,
    headVars
<1>4. ASSUME NEW c \in Calls, GetKeyObjectIDFails(c)
      PROVE  GateInv'
  <2>1. UNCHANGED <<kind, key, source>> /\ pc' = [pc EXCEPT ![c] = "unresolved"]
    BY <1>4 DEF GetKeyObjectIDFails, Goto, evVars
  <2> QED
    BY <2>1 DEF TypeOK, GateInv, GateExact
<1>5. ASSUME NEW c \in Calls, CopyKey(c)
      PROVE  GateInv'
  <2>1. "key_path" \in Fields /\ Len(key[c]) \in Nat
    BY KeyLength DEF Fields
  <2>2. source' = [source EXCEPT ![c]["key_path"] = Len(key[c])]
    BY <1>5, <2>1, CopyFacts DEF CopyKey
  <2>3. UNCHANGED <<kind, key>> /\ pc' = [pc EXCEPT ![c] = "release"]
    BY <1>5 DEF CopyKey, Goto
  <2>4. \A d \in Calls : d # c => source'[d] = source[d] /\ pc'[d] = pc[d]
    BY <2>2, <2>3 DEF TypeOK
  <2>5. source'[c]["key_path"] = Len(key[c]) /\ pc'[c] = "release"
    BY <2>1, <2>2, <2>3 DEF TypeOK
  <2> QED
    BY <2>3, <2>4, <2>5 DEF GateInv, GateExact
<1>6. ASSUME NEW c \in Calls, ReleaseKeyObjectID(c)
      PROVE  GateInv'
  BY <1>6 DEF TypeOK, GateInv, GateExact, ReleaseKeyObjectID, Goto, counters, evVars, headVars
<1>7. ASSUME NEW c \in Calls, Gate(c)
      PROVE  GateInv'
  <2>1. pc[c] = "gate" /\ UNCHANGED <<kind, key, source>>
    BY <1>7 DEF Gate, evVars
  <2> DEFINE n == written[c]["key_path"]
  <2>2. "key_path" \in Fields /\ n \in Nat /\ key[c] \in Keys /\ Len(key[c]) \in Nat
    <3>1. "key_path" \in Fields
      BY DEF Fields
    <3>2. n \in 0 .. MAX
      BY <3>1 DEF TypeOK
    <3> QED
      BY <3>1, <3>2, KeyLength, RoomFacts
  <2>3. n = IF Len(key[c]) <= MAX - 1 THEN Len(key[c]) ELSE MAX - 1
    BY <2>1, <2>2, RoomFacts DEF FieldInv, GateInv
  <2> DEFINE l == IF Watched(key[c], CRITICAL_REGISTRY_PREFIXES) THEN "alloc" ELSE "returned"
  <2>4. (n # 0 /\ is_interesting_path(SubSeq(key[c], 1, n), CRITICAL_REGISTRY_PREFIXES))
          <=> Watched(key[c], CRITICAL_REGISTRY_PREFIXES)
    <3> HIDE DEF n
    <3> QED
      BY <2>2, <2>3, GateOfCopy
  <2>5. pc' = [pc EXCEPT ![c] = l]
    BY <1>7, <2>4 DEF Gate, Goto, StackCopy
  <2> QED
    BY <2>1, <2>5 DEF TypeOK, GateInv, GateExact
<1>8. ASSUME NEW c \in Calls, AllocFails(c)
      PROVE  GateInv'
  BY <1>8 DEF TypeOK, GateInv, GateExact, AllocFails, Goto, evVars, headVars
<1>9. ASSUME NEW c \in Calls, AllocEventFor(c)
      PROVE  GateInv'
  BY <1>9 DEF TypeOK, GateInv, GateExact, AllocEventFor, Goto, evVars
<1>10. ASSUME NEW c \in Calls, CopyString(c)
      PROVE  GateInv'
  <2>1. PICK n \in SourceLengths(c) : CopyInto(c, Head(todo[c]), n)
    BY <1>10 DEF CopyString
  <2>2. todo[c] # << >> /\ pc[c] = "fill" /\ todo' = [todo EXCEPT ![c] = Tail(todo[c])]
    BY <1>10 DEF CopyString
  <2>3. /\ Head(todo[c]) \in Fields /\ n \in Nat
        /\ Head(todo[c]) = todo[c][1] /\ 1 \in DOMAIN todo[c]
    BY <2>2, NextString
  <2>4. source[c][Head(todo[c])] = 0
    BY <2>2, <2>3 DEF TodoInv, Named
  <2>5. source' = [source EXCEPT ![c][Head(todo[c])] = n]
    BY <2>1, <2>3, CopyFacts
  <2>6. UNCHANGED <<pc, kind, key>>
    BY <1>10 DEF CopyString
  <2>7. \A d \in Calls : d # c => source'[d] = source[d]
    BY <2>5 DEF TypeOK
  <2> QED
    BY <2>2, <2>6, <2>7 DEF GateInv, GateExact
<1>11. ASSUME NEW c \in Calls, Submit(c)
      PROVE  GateInv'
  BY <1>11 DEF TypeOK, GateInv, GateExact, Submit, Goto, counters, evVars, headVars
<1> QED
  BY <1>1, <1>2, <1>3, <1>4, <1>5, <1>6, <1>7, <1>8, <1>9, <1>10, <1>11, Steps DEF Step

----------------------------------------------------------------------------
(* The theorems. *)

\* It holds initially ...
LEMMA InitInv == Init => IndInv
<1> SUFFICES ASSUME Init PROVE IndInv
  OBVIOUS
<1>1. Counted = {}
  BY DEF Init, Counted
<1>2. IsFiniteSet({}) /\ Cardinality({}) = 0
  BY FS_EmptySet
<1>3. TypeOK
  BY KeysAssumption, MaxAssumption DEF Init, TypeOK, Kinds
<1>4. LentInv /\ KindInv /\ GateInv
  BY DEF Init, LentInv, KindInv, GateInv, GateExact, ResolvingPcs, ObjectKinds
<1>5. TodoInv
  BY DEF Init, TodoInv, Named, EarlyPcs, ResolvingPcs
<1>6. FieldInv
  BY <1>1, RoomFacts DEF Init, FieldInv
<1>7. CutInv
  BY <1>2 DEF Init, CutInv, CutsCountedOnce
<1> QED
  BY <1>3, <1>4, <1>5, <1>6, <1>7 DEF IndInv

\* ... and is preserved by every step.
LEMMA Inductive == IndInv /\ [Next]_vars => IndInv'
BY TypeStep, LentStep, KindStep, TodoStep, FieldStep, CutStep, GateStep DEF IndInv

\* It is an invariant.
LEMMA Invariant == Spec => []IndInv
BY InitInv, Inductive, PTL DEF Spec

\* The type invariant of the callbacks.
THEOREM CallbacksTypeCorrect == Spec => []TypeOK
<1>1. IndInv => TypeOK
  BY DEF IndInv
<1> QED
  BY <1>1, Invariant, PTL

\* However the calls interleave, no name of the CM is lent out past the release of
\* write_key_path_from_object.
THEOREM NoNameIsLeaked == Spec => []NamesGivenBack
<1>1. IndInv => NamesGivenBack
  BY DEF IndInv, TypeOK, LentInv, NamesGivenBack
<1> QED
  BY <1>1, Invariant, PTL

\* The length fields of an event that reaches submit_event are those of its
\* strings, or of all the room copy_unicode_into or the data preview has, and
\* then a cut is counted.
THEOREM EventsAreFaithful == Spec => []FieldsFaithful
<1>1. IndInv => FieldsFaithful
  <2> SUFFICES ASSUME IndInv, NEW c \in Calls, NEW f \in Fields
               PROVE  /\ written[c][f] <= source[c][f]
                      /\ written[c][f] < source[c][f] <=> <<c, f>> \in Counted
                      /\ written[c][f] < source[c][f] => written[c][f] = Room(f)
                      /\ f # "data_preview" => written[c][f] < MAX
    BY DEF FieldsFaithful
  <2>1. source[c][f] \in Nat
    BY DEF IndInv, TypeOK
  <2>2. /\ written[c][f] = IF source[c][f] <= Room(f) THEN source[c][f] ELSE Room(f)
        /\ source[c][f] > Room(f) <=> <<c, f>> \in Counted
    BY DEF IndInv, FieldInv
  <2>3. Room(f) \in Nat /\ (f # "data_preview" => Room(f) < MAX) /\ MAX \in Nat
    BY RoomFacts
  <2> HIDE DEF Room
  <2> QED
    BY <2>1, <2>2, <2>3
<1> QED
  BY <1>1, Invariant, PTL

\* Whenever the driver is told the name of the key, the gate of registry_notify
\* decides by the full name, though it reads a copy cut to the stack buffer: for
\* every set of ASCII prefixes that fit in the buffer.  A call whose lookup fails
\* gets no decision and is outside the statement.
THEOREM GateDecidesByName == Spec => []GateExact
<1>1. IndInv => GateExact
  BY DEF IndInv, GateInv
<1> QED
  BY <1>1, Invariant, PTL

\* No cut is lost from or counted twice by the headers make_header writes, whatever
\* the interleaving of copies and headers.
THEOREM CutsAreCountedOnce == Spec => []CutsCountedOnce
<1>1. IndInv => CutsCountedOnce
  BY DEF IndInv, CutInv
<1> QED
  BY <1>1, Invariant, PTL
=============================================================================
