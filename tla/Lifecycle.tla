----------------------------- MODULE Lifecycle ------------------------------
(***************************************************************************)
(* Loading and unloading: driver_entry and driver_unload of src/lib.rs,    *)
(* step by step, while the kernel already runs the callbacks that are      *)
(* registered and the agent already uses the device that exists.           *)
(*                                                                         *)
(* The driver keeps its own record of what it set up (the flags, the       *)
(* registry cookie, CONTROL_DEVICE); the kernel keeps the truth            *)
(* (registered, device, symlink).  Unloading trusts the record.            *)
(*                                                                         *)
(* What a request or a callback does in detail is module InvertedCall;     *)
(* here a callback that runs may leave an event in the queue, and the      *)
(* agent may leave a request parked.  Module Driver puts the two together. *)
(***************************************************************************)
EXTENDS Naturals, Sequences

CONSTANTS
  Registrations, \* the callbacks, in the order of driver_entry's blocks
  Removals,      \* the callbacks, in the order of driver_unload's
  REGISTRY,      \* the one that has a cookie
  COOKIE,        \* the cookie CmRegisterCallback hands out
  Calls,         \* the invocations of callbacks that can run at one time
  QUEUE_CAP,     \* the most events the queue keeps
  NULL           \* a null pointer, or a cookie nobody has stored

Callbacks == {Registrations[j] : j \in DOMAIN Registrations}

\* Both functions have one block for each callback; the two orders need not be
\* related.
ASSUME OrderAssumption ==
  /\ Registrations \in Seq(Callbacks)
  /\ Removals \in Seq(Callbacks)
  /\ \A i, j \in DOMAIN Registrations : Registrations[i] = Registrations[j] => i = j
  /\ \A i, j \in DOMAIN Removals : Removals[i] = Removals[j] => i = j
  /\ \A c \in Callbacks : \E j \in DOMAIN Removals : Removals[j] = c
  /\ REGISTRY \in Callbacks
ASSUME NullAssumption == NULL # COOKIE /\ NULL # "device"
ASSUME CapAssumption == QUEUE_CAP \in Nat \ {0}

VARIABLES
  pc,              \* where the thread that loads or unloads the driver is
  k,               \* in which of the blocks of that straight-line code, one to a callback
  MajorFunction,   \* the dispatch table is wired
  QUEUE_LOCK,      \* the spin lock is initialised
  device,          \* the device object exists
  CONTROL_DEVICE,  \* the driver's record of it
  symlink,         \* the name userland opens: absent, present, or left behind
  registered,      \* the callbacks the kernel calls
  flag,            \* callback c: *_CALLBACK_REGISTERED, or OBJECT_CALLBACK_HANDLE
  REGISTRY_CALLBACK_COOKIE,
  cb,              \* invocation i: where it is
  of,              \* invocation i: the callback it is an invocation of
  seen,            \* invocation i: the cookie it has read
  queued,          \* how many events are in the queue
  parked,          \* a request is parked in PENDING_IRP
  bugcheck         \* the kernel was asked to remove what it does not have

setup == <<MajorFunction, QUEUE_LOCK>>
devVars == <<device, CONTROL_DEVICE, symlink>>
regVars == <<registered, flag, REGISTRY_CALLBACK_COOKIE>>
runVars == <<cb, of, seen, queued>>
vars == <<pc, k, setup, devVars, regVars, runVars, parked, bugcheck>>

Init ==
  /\ pc = "entry"
  /\ k = 1
  /\ MajorFunction = FALSE
  /\ QUEUE_LOCK = FALSE
  /\ device = FALSE
  /\ CONTROL_DEVICE = NULL
  /\ symlink = "absent"
  /\ registered = {}
  /\ flag = [c \in Callbacks |-> FALSE]
  /\ REGISTRY_CALLBACK_COOKIE = NULL
  /\ cb = [i \in Calls |-> "out"]
  /\ of = [i \in Calls |-> NULL]
  /\ seen = [i \in Calls |-> NULL]
  /\ queued = 0
  /\ parked = FALSE
  /\ bugcheck = FALSE

----------------------------------------------------------------------------
(* driver_entry. *)

\* Mutant: the lock is not initialised.
WireDispatchOnly ==
  /\ pc = "entry"
  /\ MajorFunction' = TRUE
  /\ pc' = "device"
  /\ UNCHANGED <<k, QUEUE_LOCK, devVars, regVars, runVars, parked, bugcheck>>

\* Fill the dispatch table, then initialise the lock.
WireDispatch ==
  /\ pc = "entry"
  /\ MajorFunction' = TRUE
  /\ QUEUE_LOCK' = TRUE
  /\ pc' = "device"
  /\ UNCHANGED <<k, devVars, regVars, runVars, parked, bugcheck>>

\* IoCreateDevice succeeds and CONTROL_DEVICE remembers the device ...
CreateDevice ==
  /\ pc = "device"
  /\ device' = TRUE
  /\ CONTROL_DEVICE' = "device"
  /\ pc' = "symlink"
  /\ UNCHANGED <<k, setup, symlink, regVars, runVars, parked, bugcheck>>

\* ... or it fails, and so does the load.
CreateDeviceFails ==
  /\ pc = "device"
  /\ pc' = "failed"
  /\ UNCHANGED <<k, setup, devVars, regVars, runVars, parked, bugcheck>>

CreateSymbolicLink ==
  /\ pc = "symlink"
  /\ symlink' = "present"
  /\ pc' = "register"
  /\ UNCHANGED <<k, setup, device, CONTROL_DEVICE, regVars, runVars, parked, bugcheck>>

\* Mutant: the device is not deleted.
SymlinkFailsKeepDevice ==
  /\ pc = "symlink"
  /\ pc' = "failed"
  /\ UNCHANGED <<k, setup, devVars, regVars, runVars, parked, bugcheck>>

\* IoCreateSymbolicLink fails: the device goes too.
CreateSymbolicLinkFails ==
  /\ pc = "symlink"
  /\ device' = FALSE
  /\ CONTROL_DEVICE' = NULL
  /\ pc' = "failed"
  /\ UNCHANGED <<k, setup, symlink, regVars, runVars, parked, bugcheck>>

\* On to the block of the next callback, or the driver is ready.
AdvanceEntry ==
  IF k = Len(Registrations) THEN pc' = "running" /\ UNCHANGED k
                            ELSE pc' = "register" /\ k' = k + 1

\* The kernel registers the callback: it can run from here on, before the driver
\* has stored anything about it.
Register ==
  /\ pc = "register"
  /\ registered' = registered \cup {Registrations[k]}
  /\ pc' = IF Registrations[k] = REGISTRY THEN "cookie" ELSE "flag"
  /\ UNCHANGED <<k, setup, devVars, flag, REGISTRY_CALLBACK_COOKIE, runVars, parked, bugcheck>>

\* Mutant: the status is not tested.
RegisterFailsFlagged ==
  /\ pc = "register"
  /\ flag' = [flag EXCEPT ![Registrations[k]] = TRUE]
  /\ AdvanceEntry
  /\ UNCHANGED <<setup, devVars, registered, REGISTRY_CALLBACK_COOKIE, runVars, parked, bugcheck>>

\* The kernel refuses: the driver does without this callback.
RegisterFails ==
  /\ pc = "register"
  /\ AdvanceEntry
  /\ UNCHANGED <<setup, devVars, regVars, runVars, parked, bugcheck>>

StoreCookie ==
  /\ pc = "cookie"
  /\ REGISTRY_CALLBACK_COOKIE' = COOKIE
  /\ pc' = "flag"
  /\ UNCHANGED <<k, setup, devVars, registered, flag, runVars, parked, bugcheck>>

StoreFlag ==
  /\ pc = "flag"
  /\ flag' = [flag EXCEPT ![Registrations[k]] = TRUE]
  /\ AdvanceEntry
  /\ UNCHANGED <<setup, devVars, registered, REGISTRY_CALLBACK_COOKIE, runVars, parked, bugcheck>>

----------------------------------------------------------------------------
(* driver_unload. *)

\* The I/O manager calls it on a driver whose load succeeded.
UnloadStart ==
  /\ pc = "running"
  /\ pc' = "swap"
  /\ k' = 1
  /\ UNCHANGED <<setup, devVars, regVars, runVars, parked, bugcheck>>

\* On to the block of the next callback, or all of them are removed.
AdvanceUnload ==
  IF k = Len(Removals) THEN pc' = "cancel" /\ UNCHANGED k
                       ELSE pc' = "swap" /\ k' = k + 1

\* Mutant: the flag is not tested.
SwapFlagAlways ==
  /\ pc = "swap"
  /\ flag' = [flag EXCEPT ![Removals[k]] = FALSE]
  /\ pc' = "remove"
  /\ UNCHANGED <<k, setup, devVars, registered, REGISTRY_CALLBACK_COOKIE, runVars, parked, bugcheck>>

\* Mutant: the cookie is cleared with the flag.
SwapFlagClearsCookie ==
  LET c == Removals[k]
  IN /\ pc = "swap"
     /\ flag' = [flag EXCEPT ![c] = FALSE]
     /\ REGISTRY_CALLBACK_COOKIE' = IF c = REGISTRY THEN NULL ELSE REGISTRY_CALLBACK_COOKIE
     /\ \/ flag[c] /\ pc' = "remove" /\ UNCHANGED k
        \/ ~flag[c] /\ AdvanceUnload
     /\ UNCHANGED <<setup, devVars, registered, runVars, parked, bugcheck>>

\* The flag says whether there is anything to remove.
SwapFlag ==
  /\ pc = "swap"
  /\ flag' = [flag EXCEPT ![Removals[k]] = FALSE]
  /\ \/ flag[Removals[k]] /\ pc' = "remove" /\ UNCHANGED k
     \/ ~flag[Removals[k]] /\ AdvanceUnload
  /\ UNCHANGED <<setup, devVars, registered, REGISTRY_CALLBACK_COOKIE, runVars, parked, bugcheck>>


\* The kernel stops calling the callback.  It must have it, and the cookie must be
\* the one it gave out.
Remove ==
  LET c == Removals[k]
      known == c \in registered /\ (c = REGISTRY => REGISTRY_CALLBACK_COOKIE = COOKIE)
  IN /\ pc = "remove"
     /\ registered' = IF known THEN registered \ {c} ELSE registered
     /\ bugcheck' = (bugcheck \/ ~known)
     /\ pc' = "wait"
     /\ UNCHANGED <<k, setup, devVars, flag, REGISTRY_CALLBACK_COOKIE, runVars, parked>>

\* Mutant: the removal does not wait.
DoNotWait ==
  /\ pc = "wait"
  /\ AdvanceUnload
  /\ UNCHANGED <<setup, devVars, regVars, runVars, parked, bugcheck>>

\* The removal returns once no invocation is running.
WaitForCallback ==
  /\ pc = "wait"
  /\ \A i \in Calls : of[i] = Removals[k] => cb[i] = "out"
  /\ AdvanceUnload
  /\ UNCHANGED <<setup, devVars, regVars, runVars, parked, bugcheck>>

\* Cancel the parked request.
CancelPending ==
  /\ pc = "cancel"
  /\ parked' = FALSE
  /\ pc' = "drain"
  /\ UNCHANGED <<k, setup, devVars, regVars, runVars, bugcheck>>

\* Free what is queued, one event after the other ...
DrainPop ==
  /\ pc = "drain"
  /\ queued # 0
  /\ queued' = queued - 1
  /\ UNCHANGED <<pc, k, setup, devVars, regVars, cb, of, seen, parked, bugcheck>>

\* Mutant: the drain ends early.
DrainEndEarly ==
  /\ pc = "drain"
  /\ pc' = "unlink"
  /\ UNCHANGED <<k, setup, devVars, regVars, runVars, parked, bugcheck>>

\* ... until the queue is empty.
DrainEnd ==
  /\ pc = "drain"
  /\ queued = 0
  /\ pc' = "unlink"
  /\ UNCHANGED <<k, setup, devVars, regVars, runVars, parked, bugcheck>>

\* IoDeleteSymbolicLink succeeds ...
DeleteSymbolicLink ==
  /\ pc = "unlink"
  /\ symlink' = "absent"
  /\ pc' = "delete"
  /\ UNCHANGED <<k, setup, device, CONTROL_DEVICE, regVars, runVars, parked, bugcheck>>

\* ... or it fails; the status is discarded and the name is left behind.
DeleteSymbolicLinkFails ==
  /\ pc = "unlink"
  /\ symlink' = "stale"
  /\ pc' = "delete"
  /\ UNCHANGED <<k, setup, device, CONTROL_DEVICE, regVars, runVars, parked, bugcheck>>

\* Delete the device CONTROL_DEVICE remembers, if any.
DeleteDevice ==
  /\ pc = "delete"
  /\ device' = (device /\ CONTROL_DEVICE = NULL)
  /\ CONTROL_DEVICE' = NULL
  /\ pc' = "unloaded"
  /\ UNCHANGED <<k, setup, symlink, regVars, runVars, parked, bugcheck>>

\* The image is gone.
Gone ==
  /\ pc \in {"failed", "unloaded"}
  /\ UNCHANGED vars

----------------------------------------------------------------------------
(* Meanwhile: the kernel's callbacks and the agent's requests. *)

\* The kernel calls a registered callback, from any number of threads.
CallbackEnter(i, c) ==
  /\ c \in registered
  /\ cb[i] = "out"
  /\ cb' = [cb EXCEPT ![i] = "in"]
  /\ of' = [of EXCEPT ![i] = c]
  /\ UNCHANGED <<pc, k, setup, devVars, regVars, seen, queued, parked, bugcheck>>

\* The registry callback reads the cookie, when it has a key to resolve.
ReadCookie(i) ==
  /\ cb[i] = "in"
  /\ of[i] = REGISTRY
  /\ seen' = [seen EXCEPT ![i] = REGISTRY_CALLBACK_COOKIE]
  /\ cb' = [cb EXCEPT ![i] = "resolved"]
  /\ UNCHANGED <<pc, k, setup, devVars, regVars, of, queued, parked, bugcheck>>

\* With a wrong cookie the key has no name and there is no event.
HasEvent(i) == cb[i] = "in" \/ (cb[i] = "resolved" /\ seen[i] = COOKIE)

\* Mutant: a full queue evicts nothing.
CallbackSubmitNoEviction(i) ==
  /\ HasEvent(i)
  /\ \/ /\ parked
        /\ parked' = FALSE
        /\ UNCHANGED queued
     \/ /\ ~parked
        /\ queued' = queued + 1
        /\ UNCHANGED parked
  /\ cb' = [cb EXCEPT ![i] = "submitted"]
  /\ UNCHANGED <<pc, k, setup, devVars, regVars, of, seen, bugcheck>>

\* The callback submits its event, to a parked request or to the queue ...
CallbackSubmit(i) ==
  /\ HasEvent(i)
  /\ \/ /\ parked
        /\ parked' = FALSE
        /\ UNCHANGED queued
     \/ /\ ~parked
        /\ queued' = IF queued = QUEUE_CAP THEN queued ELSE queued + 1
        /\ UNCHANGED parked
  /\ cb' = [cb EXCEPT ![i] = "submitted"]
  /\ UNCHANGED <<pc, k, setup, devVars, regVars, of, seen, bugcheck>>

\* ... and returns; it may have had none.
CallbackReturn(i) ==
  /\ cb[i] # "out"
  /\ cb' = [cb EXCEPT ![i] = "out"]
  /\ of' = [of EXCEPT ![i] = NULL]
  /\ seen' = [seen EXCEPT ![i] = NULL]
  /\ UNCHANGED <<pc, k, setup, devVars, regVars, queued, parked, bugcheck>>

\* The agent reaches the device while it exists and is not being unloaded.
Reachable ==
  /\ device
  /\ symlink = "present"
  /\ pc \in {"register", "cookie", "flag", "running"}

\* Its request takes a queued event, or is parked unless one is parked already ...
Request ==
  /\ Reachable
  /\ \/ queued # 0 /\ queued' = queued - 1 /\ UNCHANGED parked
     \/ queued = 0 /\ ~parked /\ parked' = TRUE /\ UNCHANGED queued
  /\ UNCHANGED <<pc, k, setup, devVars, regVars, cb, of, seen, bugcheck>>

\* ... and its exit cancels the parked one.
Cleanup ==
  /\ Reachable
  /\ parked
  /\ parked' = FALSE
  /\ UNCHANGED <<pc, k, setup, devVars, regVars, runVars, bugcheck>>

----------------------------------------------------------------------------
(* The specification. *)

EntryStep ==
  \/ WireDispatch
  \/ CreateDevice \/ CreateDeviceFails
  \/ CreateSymbolicLink \/ CreateSymbolicLinkFails
  \/ Register \/ RegisterFails
  \/ StoreCookie
  \/ StoreFlag

UnloadStep ==
  \/ SwapFlag
  \/ Remove
  \/ WaitForCallback
  \/ CancelPending
  \/ DrainPop \/ DrainEnd
  \/ DeleteSymbolicLink \/ DeleteSymbolicLinkFails
  \/ DeleteDevice

CallbackStep(i) == ReadCookie(i) \/ CallbackSubmit(i) \/ CallbackReturn(i)

Next ==
  \/ EntryStep
  \/ UnloadStart
  \/ UnloadStep
  \/ \E i \in Calls : CallbackStep(i) \/ \E c \in Callbacks : CallbackEnter(i, c)
  \/ Request
  \/ Cleanup
  \/ Gone

Spec == Init /\ [][Next]_vars

\* The loading thread and the running callbacks are scheduled again; nothing makes
\* the kernel unload the driver or call a callback.
FairSpec ==
  /\ Spec
  /\ WF_vars(EntryStep)
  /\ WF_vars(UnloadStep)
  /\ \A i \in Calls : WF_vars(CallbackStep(i))

----------------------------------------------------------------------------
(* Properties. *)

EntryPcs == {"entry", "device", "symlink", "register", "cookie", "flag"}
RemovalPcs == {"swap", "remove", "wait"}
TeardownPcs == {"cancel", "drain", "unlink", "delete"}

\* The type invariant.
TypeOK ==
  /\ pc \in EntryPcs \cup {"running"} \cup RemovalPcs \cup TeardownPcs \cup {"failed", "unloaded"}
  /\ k \in DOMAIN Registrations \cup DOMAIN Removals
  /\ MajorFunction \in BOOLEAN
  /\ QUEUE_LOCK \in BOOLEAN
  /\ device \in BOOLEAN
  /\ CONTROL_DEVICE \in {NULL, "device"}
  /\ symlink \in {"absent", "present", "stale"}
  /\ registered \in SUBSET Callbacks
  /\ flag \in [Callbacks -> BOOLEAN]
  /\ REGISTRY_CALLBACK_COOKIE \in {NULL, COOKIE}
  /\ cb \in [Calls -> {"out", "in", "resolved", "submitted"}]
  /\ of \in [Calls -> Callbacks \cup {NULL}]
  /\ seen \in [Calls -> {NULL, COOKIE}]
  /\ queued \in 0 .. QUEUE_CAP
  /\ parked \in BOOLEAN
  /\ bugcheck \in BOOLEAN

\* The driver never asks the kernel to remove a callback it does not have, or the
\* registry callback with a wrong cookie, whichever registrations failed: "Each
\* one has its own flag so we never double-remove (which would bug-check)"
\* (driver_unload).
NoDoubleRemove == ~bugcheck

\* Nothing can reach the driver before the dispatch table is wired and the lock
\* is initialised: neither a request, since the device exists, nor a callback.
ReadyBeforeReachable ==
  device \/ (\E i \in Calls : cb[i] # "out") => MajorFunction /\ QUEUE_LOCK

\* A load that fails leaves nothing behind: the kernel discards the image without
\* calling driver_unload.  Only the device and its name can fail it; a callback
\* the kernel refuses is done without (driver_entry, "soft-fail").
FailureLeavesNothing ==
  pc = "failed" =>
    /\ ~device /\ CONTROL_DEVICE = NULL /\ symlink = "absent"
    /\ registered = {}
    /\ \A i \in Calls : cb[i] = "out"
    /\ queued = 0 /\ ~parked

\* An unload leaves nothing behind, though callbacks run and registrations fail at
\* any point before it; the name userland opens stays only if the kernel refused
\* to delete it, whose status driver_unload discards.
UnloadLeavesNothing ==
  pc = "unloaded" =>
    /\ ~device /\ CONTROL_DEVICE = NULL /\ symlink # "present"
    /\ registered = {}
    /\ \A i \in Calls : cb[i] = "out"
    /\ queued = 0 /\ ~parked

\* From the moment the parked request is cancelled, no callback runs and none can
\* start: nothing refills the queue behind driver_unload's back ("otherwise a
\* callback running on another CPU could allocate a buffer we're about to free").
QuietTeardown ==
  pc \in TeardownPcs => registered = {} /\ \A i \in Calls : cb[i] = "out"

\* Once loading is over, the driver's record and the kernel's agree.
RecordMatchesKernel ==
  pc = "running" =>
    /\ \A c \in Callbacks : flag[c] <=> c \in registered
    /\ REGISTRY \in registered => REGISTRY_CALLBACK_COOKIE = COOKIE
    /\ device <=> CONTROL_DEVICE # NULL

\* The registry callback reads the cookie only once it has been stored: "Only
\* meaningful when REGISTRY_CALLBACK_REGISTERED is true" (state.rs).
CookieReadAfterStore == \A i \in Calls : cb[i] = "resolved" => seen[i] = COOKIE

\* In this step, whoever reads a wrong cookie reads it while driver_entry stands
\* between CmRegisterCallback and the store.
MissOnlyBeforeStore ==
  \A i \in Calls :
    cb[i] = "in" /\ cb'[i] = "resolved" /\ seen'[i] # COOKIE => pc = "cookie"

\* A wrong cookie is read only before driver_entry has stored the right one: no
\* invocation still running while driver_unload removes the callbacks, the registry
\* callback itself included, resolves its key with one (write_key_path_from_object
\* reads the cookie without asking whether it is set).
CookieWindow == [][MissOnlyBeforeStore]_vars

\* An unload ends once begun, though each removal waits for the invocations of its
\* callback that are running, and the kernel goes on calling the others.
UnloadEnds == pc = "swap" ~> pc = "unloaded"
=============================================================================
