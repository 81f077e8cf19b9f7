----------------------------- MODULE Callbacks ------------------------------
(***************************************************************************)
(* The kernel callbacks of src/callbacks/, up to the call of submit_event: *)
(* which notifications become events, how strings are cut to the fixed     *)
(* buffers of an event, and how the cuts are counted in TRUNC_COUNT and    *)
(* reported by the header of a later event.                                *)
(*                                                                         *)
(* A call is one invocation of a callback.  Key names are sequences of     *)
(* units, because the prefix gate (module PathGate) reads them; all other  *)
(* strings are their lengths, and an event is the length fields it         *)
(* carries.  A step is one access to what the calls share: TRUNC_COUNT,    *)
(* DROP_COUNT, and the key names the configuration manager (CM) has lent   *)
(* out.                                                                    *)
(***************************************************************************)
EXTENDS PathGate, FiniteSets, FiniteSetsExt

CONSTANTS
  Calls,   \* callback invocations
  MAX,     \* the capacity of every string buffer of an event
  Lengths, \* the lengths a source string may have; 0 stands for null or empty
  Keys,    \* the names a registry key may have; << >> stands for null or empty
  CRITICAL_REGISTRY_PREFIXES,  \* the watched prefixes
  Rights,  \* the access rights a handle may be opened with
  DANGEROUS_PROCESS_MASK  \* those that are watched

ASSUME MaxAssumption == MAX \in Nat \ {0}
ASSUME LengthsAssumption == Lengths \subseteq Nat
ASSUME KeysAssumption == Keys \subseteq Seq(Unit) /\ << >> \in Keys
ASSUME PrefixesAssumption ==
  \A prefix \in CRITICAL_REGISTRY_PREFIXES :
    prefix \in Seq(Ascii) /\ prefix # << >> /\ Len(prefix) < MAX
ASSUME MaskAssumption == DANGEROUS_PROCESS_MASK \subseteq Rights
ASSUME CallsAssumption == IsFiniteSet(Calls)

VARIABLES
  TRUNC_COUNT,  \* cuts no header has reported yet
  DROP_COUNT,   \* losses no header has reported yet
  lent,         \* the calls that hold a key name of the CM
  pc,           \* call c: where it is
  kind,         \* call c: what it is notified of
  key,          \* call c: the name of the registry key, whether the driver learns it or not
  source,       \* call c: the length of each source string it has copied
  written,      \* call c: the length fields of its event
  todo,         \* call c: the strings it still has to copy
  trunc_count,  \* call c: the trunc_count field of its header
  cuts,         \* history: the cuts TRUNC_COUNT counts
  reports       \* history: the cuts the header of c reports

counters == <<TRUNC_COUNT, DROP_COUNT, cuts>>
evVars == <<key, source, written, todo>>
headVars == <<trunc_count, reports>>
vars == <<counters, lent, pc, kind, evVars, headVars>>

\* The notifications that name a key by its object.
ObjectKinds == {"set_value", "delete_value", "delete_key", "rename_key"}

Kinds == ObjectKinds \cup
  {"create_key", "process_create", "process_exit", "image_load", "thread_create",
   "thread_exit", "handle_access", "ignored"}

Fields == {"key_path", "value_name", "data_preview", "image_path", "command_line"}

\* The strings copied into the event, in order, after its header is in place.
StringsOf(kd) ==
  CASE kd = "set_value" -> <<"value_name", "data_preview">>
    [] kd = "delete_value" -> <<"value_name">>
    [] kd = "create_key" -> <<"key_path">>
    [] kd = "process_create" -> <<"image_path", "command_line">>
    [] kd = "image_load" -> <<"image_path">>
    [] OTHER -> << >>

Init ==
  /\ TRUNC_COUNT = 0
  /\ DROP_COUNT = 0
  /\ lent = {}
  /\ pc = [c \in Calls |-> "idle"]
  /\ kind = [c \in Calls |-> "ignored"]
  /\ key = [c \in Calls |-> << >>]
  /\ source = [c \in Calls |-> [f \in Fields |-> 0]]
  /\ written = [c \in Calls |-> [f \in Fields |-> 0]]
  /\ todo = [c \in Calls |-> << >>]
  /\ trunc_count = [c \in Calls |-> 0]
  /\ cuts = {}
  /\ reports = [c \in Calls |-> {}]

----------------------------------------------------------------------------
(* Copying a string. *)

\* Strings leave one unit of the buffer free, the data preview does not.
Room(f) == IF f = "data_preview" THEN MAX ELSE MAX - 1

\* Mutant: a string one unit too long is not counted.
CopyIntoOffByOne(c, f, n) ==
  /\ source' = [source EXCEPT ![c][f] = n]
  /\ written' = [written EXCEPT ![c][f] = Min({n, Room(f)})]
  /\ \/ /\ n > Room(f) + 1
        /\ TRUNC_COUNT' = TRUNC_COUNT + 1
        /\ cuts' = cuts \cup {<<c, f>>}
     \/ /\ n <= Room(f) + 1
        /\ UNCHANGED <<TRUNC_COUNT, cuts>>

\* Mutant: the string is not cut.
CopyIntoUnbounded(c, f, n) ==
  /\ source' = [source EXCEPT ![c][f] = n]
  /\ written' = [written EXCEPT ![c][f] = n]
  /\ \/ /\ n > Room(f)
        /\ TRUNC_COUNT' = TRUNC_COUNT + 1
        /\ cuts' = cuts \cup {<<c, f>>}
     \/ /\ n <= Room(f)
        /\ UNCHANGED <<TRUNC_COUNT, cuts>>

\* Copy n units into field f and count the cut if they do not fit.
CopyInto(c, f, n) ==
  /\ source' = [source EXCEPT ![c][f] = n]
  /\ written' = [written EXCEPT ![c][f] = Min({n, Room(f)})]
  /\ \/ /\ n > Room(f)
        /\ TRUNC_COUNT' = TRUNC_COUNT + 1
        /\ cuts' = cuts \cup {<<c, f>>}
     \/ /\ n <= Room(f)
        /\ UNCHANGED <<TRUNC_COUNT, cuts>>

Goto(c, l) == pc' = [pc EXCEPT ![c] = l]

----------------------------------------------------------------------------
(* The callbacks. *)

\* The call is notified of something that happens, for a registry call to some key.
EnterKey(c, kd, name, l) ==
  /\ pc[c] = "idle"
  /\ kind' = [kind EXCEPT ![c] = kd]
  /\ key' = [key EXCEPT ![c] = name]
  /\ todo' = [todo EXCEPT ![c] = StringsOf(kd)]
  /\ Goto(c, l)
  /\ UNCHANGED <<counters, lent, source, written, headVars>>

Enter(c, kd, l) == EnterKey(c, kd, << >>, l)

\* process_notify, image_load_notify and thread_notify report everything.
NotifyProcessCreate(c) == Enter(c, "process_create", "alloc")

NotifyProcessExit(c) == Enter(c, "process_exit", "alloc")

NotifyImageLoad(c) == Enter(c, "image_load", "alloc")

NotifyThread(c) == \E kd \in {"thread_create", "thread_exit"} : Enter(c, kd, "alloc")

\* registry_notify: a key named by its object is resolved first, the name of a new
\* key is tested at once; other classes and a null info are dropped.
NotifyRegistry(c) ==
  \/ \E kd \in ObjectKinds, name \in Keys : EnterKey(c, kd, name, "resolve")
  \/ \E name \in Keys : EnterKey(c, "create_key", name,
       IF is_interesting_path(name, CRITICAL_REGISTRY_PREFIXES) THEN "alloc" ELSE "returned")
  \/ Enter(c, "ignored", "returned")

Handle == [kernel : BOOLEAN, own : BOOLEAN, params : BOOLEAN, original : SUBSET Rights]

\* Is a handle operation worth an event?  The rights are those the caller asked
\* for, before other filters took some away.
WatchedHandle(h) ==
  /\ ~h.kernel
  /\ ~h.own
  /\ h.params
  /\ h.original \cap DANGEROUS_PROCESS_MASK # {}

\* process_object_notify
NotifyHandle(c) ==
  \E h \in Handle :
    Enter(c, "handle_access", IF WatchedHandle(h) THEN "alloc" ELSE "returned")

\* CmCallbackGetKeyObjectIDEx lends the name of the key ...
GetKeyObjectID(c) ==
  /\ pc[c] = "resolve"
  /\ lent' = lent \cup {c}
  /\ Goto(c, "copy_key")
  /\ UNCHANGED <<counters, kind, evVars, headVars>>

\* ... or fails, whatever the key: no object, a cookie the CM does not know, no
\* name.  The notification is dropped, and nothing counts it.
GetKeyObjectIDFails(c) ==
  /\ pc[c] = "resolve"
  /\ Goto(c, "unresolved")
  /\ UNCHANGED <<counters, lent, kind, evVars, headVars>>

\* The name is copied to the stack, cut to the size of the event's buffer ...
CopyKey(c) ==
  /\ pc[c] = "copy_key"
  /\ CopyInto(c, "key_path", Len(key[c]))
  /\ Goto(c, "release")
  /\ UNCHANGED <<DROP_COUNT, lent, kind, key, todo, headVars>>

\* Mutant: the name is not given back.
ReleaseSkipped(c) ==
  /\ pc[c] = "release"
  /\ Goto(c, "gate")
  /\ UNCHANGED <<counters, lent, kind, evVars, headVars>>

\* ... given back ...
ReleaseKeyObjectID(c) ==
  /\ pc[c] = "release"
  /\ lent' = lent \ {c}
  /\ Goto(c, "gate")
  /\ UNCHANGED <<counters, kind, evVars, headVars>>

\* What is left of the name.
StackCopy(c) == SubSeq(key[c], 1, written[c]["key_path"])

\* ... and what was copied is tested against the watched prefixes.
Gate(c) ==
  /\ pc[c] = "gate"
  /\ Goto(c, IF /\ written[c]["key_path"] # 0
                /\ is_interesting_path(StackCopy(c), CRITICAL_REGISTRY_PREFIXES)
             THEN "alloc" ELSE "returned")
  /\ UNCHANGED <<counters, lent, kind, evVars, headVars>>

\* alloc_event fails: the loss is counted.
AllocFails(c) ==
  /\ pc[c] = "alloc"
  /\ DROP_COUNT' = DROP_COUNT + 1
  /\ Goto(c, "oom")
  /\ UNCHANGED <<TRUNC_COUNT, cuts, lent, kind, evVars, headVars>>

\* Mutant: TRUNC_COUNT is read and not reset.
HeaderWithoutReset(c) ==
  /\ pc[c] = "alloc"
  /\ trunc_count' = [trunc_count EXCEPT ![c] = TRUNC_COUNT]
  /\ reports' = [reports EXCEPT ![c] = cuts]
  /\ DROP_COUNT' = 0
  /\ Goto(c, "fill")
  /\ UNCHANGED <<TRUNC_COUNT, cuts, lent, kind, evVars>>

\* alloc_event_for: the buffer is zeroed and the header written, before any other
\* field; both counters start again from zero.
AllocEventFor(c) ==
  /\ pc[c] = "alloc"
  /\ trunc_count' = [trunc_count EXCEPT ![c] = TRUNC_COUNT]
  /\ reports' = [reports EXCEPT ![c] = cuts]
  /\ TRUNC_COUNT' = 0
  /\ cuts' = {}
  /\ DROP_COUNT' = 0
  /\ Goto(c, "fill")
  /\ UNCHANGED <<lent, kind, evVars>>

\* The name of a new key is at hand; other strings may have any length.
SourceLengths(c) == IF Head(todo[c]) = "key_path" THEN {Len(key[c])} ELSE Lengths

\* One string after the other is copied into the event.
CopyString(c) ==
  /\ pc[c] = "fill"
  /\ todo[c] # << >>
  /\ \E n \in SourceLengths(c) : CopyInto(c, Head(todo[c]), n)
  /\ todo' = [todo EXCEPT ![c] = Tail(@)]
  /\ UNCHANGED <<DROP_COUNT, lent, pc, kind, key, headVars>>

\* The event is complete and handed to submit_event.
Submit(c) ==
  /\ pc[c] = "fill"
  /\ todo[c] = << >>
  /\ Goto(c, "submitted")
  /\ UNCHANGED <<counters, lent, kind, evVars, headVars>>

\* Every call has returned.
Finished ==
  /\ \A c \in Calls : pc[c] \in {"returned", "unresolved", "oom", "submitted"}
  /\ UNCHANGED vars

Next ==
  \/ \E c \in Calls :
       \/ NotifyProcessCreate(c) \/ NotifyProcessExit(c) \/ NotifyImageLoad(c) \/ NotifyThread(c)
       \/ NotifyRegistry(c) \/ NotifyHandle(c)
       \/ GetKeyObjectID(c) \/ GetKeyObjectIDFails(c)
       \/ CopyKey(c) \/ CopyString(c)
       \/ ReleaseKeyObjectID(c)
       \/ Gate(c)
       \/ AllocEventFor(c) \/ AllocFails(c)
       \/ Submit(c)
  \/ Finished

Spec == Init /\ [][Next]_vars

----------------------------------------------------------------------------
(* Properties. *)

\* The type invariant.
TypeOK ==
  /\ TRUNC_COUNT \in Nat
  /\ DROP_COUNT \in Nat
  /\ lent \in SUBSET Calls
  /\ pc \in [Calls -> {"idle", "resolve", "copy_key", "release", "gate", "alloc", "fill",
                       "submitted", "oom", "returned", "unresolved"}]
  /\ kind \in [Calls -> Kinds]
  /\ key \in [Calls -> Keys]
  /\ source \in [Calls -> [Fields -> Nat]]
  /\ written \in [Calls -> [Fields -> 0 .. MAX]]
  /\ todo \in [Calls -> Seq(Fields)]
  /\ trunc_count \in [Calls -> Nat]
  /\ cuts \in SUBSET (Calls \X Fields)
  /\ reports \in [Calls -> SUBSET (Calls \X Fields)]

\* Every key name the CM lends is given back before the key is judged, on every
\* path: "otherwise we leak pool inside the registry hive"
\* (write_key_path_from_object).
NamesGivenBack == \A c \in lent : pc[c] \in {"copy_key", "release"}

\* All cuts counted so far, reported or not.
Counted == cuts \cup UNION {reports[c] : c \in Calls}

\* In an event that reaches submit_event, a length field is that of the source, or
\* the string was cut to all the room there is, and the cut is counted exactly then
\* (copy_unicode_into keeps "min(longueur, MAX - 1)", ARCHITECTURE.md: a string of
\* exactly MAX units loses its last one and is counted, where a data preview of MAX
\* bytes is whole).
FieldsFaithful ==
  \A c \in Calls : pc[c] = "submitted" =>
    \A f \in Fields :
      /\ written[c][f] <= source[c][f]
      /\ written[c][f] < source[c][f] <=> <<c, f>> \in Counted
      /\ written[c][f] < source[c][f] => written[c][f] = Room(f)
      /\ f # "data_preview" => written[c][f] < MAX

\* A registry notification whose key's name the driver is told becomes an event, or
\* is lost and counted, exactly when the full name starts with a watched prefix:
\* neither the cut of the name to the stack buffer, nor units beyond ASCII, nor the
\* case of letters makes the gate of resolve_and_gate_object or emit_create_key
\* decide otherwise.  (It says nothing of a call left "unresolved": when
\* write_key_path_from_object fails the notification goes uncounted, watched or not.)
GateExact ==
  \A c \in Calls : kind[c] \in ObjectKinds \cup {"create_key"} =>
    /\ pc[c] \in {"alloc", "fill", "submitted", "oom"} =>
         Watched(key[c], CRITICAL_REGISTRY_PREFIXES)
    /\ pc[c] = "returned" => ~Watched(key[c], CRITICAL_REGISTRY_PREFIXES)

\* Every cut is counted once, by TRUNC_COUNT or by one header, however the copies
\* and headers of several callbacks interleave ("each gap / truncation count is
\* reported exactly once", make_header).
CutsCountedOnce ==
  /\ TRUNC_COUNT = Cardinality(cuts)
  /\ \A c \in Calls : trunc_count[c] = Cardinality(reports[c])
  /\ \A c \in Calls : reports[c] \cap cuts = {}
  /\ \A c, d \in Calls : c # d => reports[c] \cap reports[d] = {}

\* A reported cut was made in a string of an event: "A non-zero value tells the
\* agent that some long strings on the wire were cut short" (events.rs).
CutsAreOnTheWire == \A x \in Counted : pc[x[1]] \notin {"returned", "unresolved", "oom"}
=============================================================================
