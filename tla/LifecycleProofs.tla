-------------------------- MODULE LifecycleProofs ---------------------------
(***************************************************************************)
(* Proofs about module Lifecycle: any callbacks, registered in any order   *)
(* and removed in any other, any number of invocations running, any queue  *)
(* capacity.                                                               *)
(***************************************************************************)
EXTENDS Lifecycle, TLAPS

\* Before the device exists, and after the load has failed.
UnsetPcs == {"entry", "device", "symlink", "failed"}
RegisterPcs == {"register", "cookie", "flag"}
GonePcs == {"unlink", "delete", "unloaded"}

\* The driver's record of a callback agrees with the kernel's, or both say that
\* there is none.
Agreed(c) == flag[c] <=> c \in registered
Absent(c) == ~flag[c] /\ c \notin registered

\* The thread is in one of the blocks of the function it is in.
BlockInv ==
  /\ pc \in UnsetPcs \cup RegisterPcs => k \in DOMAIN Registrations
  /\ pc \in RemovalPcs => k \in DOMAIN Removals

\* What the records say while driver_entry is in block k of its registrations, and
\* driver_unload in block k of its removals: behind it and ahead of it.
RegisterInv ==
  pc \in RegisterPcs => \A j \in DOMAIN Registrations :
    /\ j < k => Agreed(Registrations[j])
    /\ j > k => Absent(Registrations[j])
RemovalInv ==
  pc \in RemovalPcs => \A j \in DOMAIN Removals :
    /\ j < k => Absent(Removals[j])
    /\ j > k => Agreed(Removals[j])

\* How far the two records agree, step by step: they differ in at most the
\* callback the loading or unloading thread is at.
RecordInv ==
  /\ pc \in UnsetPcs \cup TeardownPcs \cup {"unloaded"} => \A c \in Callbacks : Absent(c)
  /\ pc = "running" => \A c \in Callbacks : Agreed(c)
  /\ RegisterInv
  /\ RemovalInv
  /\ pc = "register" => Absent(Registrations[k])
  /\ pc \in {"cookie", "flag"} => ~flag[Registrations[k]] /\ Registrations[k] \in registered
  /\ pc = "swap" => Agreed(Removals[k])
  /\ pc = "remove" => ~flag[Removals[k]] /\ Removals[k] \in registered
  /\ pc = "wait" => Absent(Removals[k])

\* The cookie is stored once the registry callback is registered, but for the
\* moment in between, and stays while its removal waits.
CookieInv ==
  /\ pc = "cookie" => Registrations[k] = REGISTRY
  /\ pc # "cookie" /\ REGISTRY \in registered => REGISTRY_CALLBACK_COOKIE = COOKIE
  /\ pc = "wait" /\ Removals[k] = REGISTRY => REGISTRY_CALLBACK_COOKIE = COOKIE

\* The lock and the table come first, the device next, the link after it.
DeviceInv ==
  /\ pc # "entry" => MajorFunction /\ QUEUE_LOCK
  /\ device <=> pc \notin {"entry", "device", "failed", "unloaded"}
  /\ device <=> CONTROL_DEVICE # NULL
  /\ symlink = "present" <=> pc \notin UnsetPcs \cup {"delete", "unloaded"}
  /\ symlink = "stale" => pc \in {"delete", "unloaded"}

\* An invocation that runs is of a callback that is registered, or of the one
\* whose removal is waiting for it.
RunInv ==
  \A i \in Calls : cb[i] # "out" =>
    /\ of[i] \in Callbacks
    /\ of[i] \in registered \/ (pc = "wait" /\ of[i] = Removals[k])

\* When there can be neither events nor a request.
TrafficInv ==
  /\ pc \in UnsetPcs \cup GonePcs => queued = 0
  /\ pc \in UnsetPcs \cup GonePcs \cup {"drain"} => ~parked

\* The inductive invariant.
IndInv ==
  /\ TypeOK /\ BlockInv /\ RecordInv /\ CookieInv /\ DeviceInv /\ RunInv /\ TrafficInv
  /\ NoDoubleRemove

----------------------------------------------------------------------------
(* The two orders. *)

\* The blocks of driver_entry and of driver_unload are numbered from 1, and each
\* callback has one block in each.
LEMMA OrderFacts ==
  /\ Len(Registrations) \in Nat \ {0}
  /\ DOMAIN Registrations = 1 .. Len(Registrations)
  /\ \A j \in 1 .. Len(Registrations) : Registrations[j] \in Callbacks
  /\ \A c \in Callbacks : \E j \in 1 .. Len(Registrations) : Registrations[j] = c
  /\ \A i, j \in 1 .. Len(Registrations) : Registrations[i] = Registrations[j] => i = j
  /\ Len(Removals) \in Nat \ {0}
  /\ DOMAIN Removals = 1 .. Len(Removals)
  /\ \A j \in 1 .. Len(Removals) : Removals[j] \in Callbacks
  /\ \A c \in Callbacks : \E j \in 1 .. Len(Removals) : Removals[j] = c
  /\ \A i, j \in 1 .. Len(Removals) : Removals[i] = Removals[j] => i = j
  /\ REGISTRY \in Callbacks
<1>1. Len(Registrations) \in Nat /\ DOMAIN Registrations = 1 .. Len(Registrations)
    BY OrderAssumption
<1>2. Len(Removals) \in Nat /\ DOMAIN Removals = 1 .. Len(Removals)
    BY OrderAssumption
<1>3. /\ \A c \in Callbacks : \E j \in DOMAIN Registrations : Registrations[j] = c
      /\ \A j \in DOMAIN Registrations : Registrations[j] \in Callbacks
    BY DEF Callbacks
<1>4. \A j \in DOMAIN Removals : Removals[j] \in Callbacks
    BY <1>2, OrderAssumption
<1>5. Len(Registrations) # 0
    BY <1>1, <1>3, OrderAssumption
<1>6. Len(Removals) # 0
    BY <1>2, OrderAssumption
<1> HIDE DEF Callbacks
<1> QED
    BY <1>1, <1>2, <1>3, <1>4, <1>5, <1>6, OrderAssumption, Zenon

----------------------------------------------------------------------------
(* One lemma for each part of the invariant, one case for each action. *)

\* The thread that loads and unloads keeps to the callbacks there are, and the drain
\* to the events there are.
LEMMA TypeStep == IndInv /\ [Next]_vars => TypeOK'
<1> SUFFICES ASSUME IndInv, [Next]_vars PROVE TypeOK'
    OBVIOUS
<1> USE OrderFacts, CapAssumption
    DEF IndInv, TypeOK, BlockInv, UnsetPcs, RegisterPcs, EntryPcs, RemovalPcs, TeardownPcs,
        setup, devVars, regVars, runVars
<1>1. ASSUME WireDispatch PROVE TypeOK'
    BY <1>1 DEF WireDispatch
<1>2. ASSUME CreateDevice PROVE TypeOK'
    BY <1>2 DEF CreateDevice
<1>3. ASSUME CreateDeviceFails PROVE TypeOK'
    BY <1>3 DEF CreateDeviceFails
<1>4. ASSUME CreateSymbolicLink PROVE TypeOK'
    BY <1>4 DEF CreateSymbolicLink
<1>5. ASSUME CreateSymbolicLinkFails PROVE TypeOK'
    BY <1>5 DEF CreateSymbolicLinkFails
<1>6. ASSUME Register PROVE TypeOK'
    BY <1>6 DEF Register
<1>7. ASSUME RegisterFails PROVE TypeOK'
    BY <1>7 DEF RegisterFails, AdvanceEntry
<1>8. ASSUME StoreCookie PROVE TypeOK'
    BY <1>8 DEF StoreCookie
<1>9. ASSUME StoreFlag PROVE TypeOK'
    BY <1>9 DEF StoreFlag, AdvanceEntry
<1>10. ASSUME UnloadStart PROVE TypeOK'
    BY <1>10 DEF UnloadStart
<1>11. ASSUME SwapFlag PROVE TypeOK'
    BY <1>11 DEF SwapFlag, AdvanceUnload
<1>12. ASSUME Remove PROVE TypeOK'
    BY <1>12 DEF Remove
<1>13. ASSUME WaitForCallback PROVE TypeOK'
    BY <1>13 DEF WaitForCallback, AdvanceUnload
<1>14. ASSUME CancelPending PROVE TypeOK'
    BY <1>14 DEF CancelPending
<1>15. ASSUME DrainPop PROVE TypeOK'
    BY <1>15 DEF DrainPop
<1>16. ASSUME DrainEnd PROVE TypeOK'
    BY <1>16 DEF DrainEnd
<1>17. ASSUME DeleteSymbolicLink PROVE TypeOK'
    BY <1>17 DEF DeleteSymbolicLink
<1>18. ASSUME DeleteSymbolicLinkFails PROVE TypeOK'
    BY <1>18 DEF DeleteSymbolicLinkFails
<1>19. ASSUME DeleteDevice PROVE TypeOK'
    BY <1>19 DEF DeleteDevice
<1>20. ASSUME NEW i \in Calls, NEW c \in Callbacks, CallbackEnter(i, c) PROVE TypeOK'
    BY <1>20 DEF CallbackEnter
<1>21. ASSUME NEW i \in Calls, ReadCookie(i) PROVE TypeOK'
    BY <1>21 DEF ReadCookie
<1>22. ASSUME NEW i \in Calls, CallbackSubmit(i) PROVE TypeOK'
  <2>1. queued' \in 0 .. QUEUE_CAP
      BY <1>22 DEF CallbackSubmit
  <2>2. parked' \in BOOLEAN
      BY <1>22, Zenon DEF CallbackSubmit
  <2>3. cb' \in [Calls -> {"out", "in", "resolved", "submitted"}]
      BY <1>22 DEF CallbackSubmit
  <2> QED
      BY <1>22, <2>1, <2>2, <2>3 DEF CallbackSubmit
<1>23. ASSUME NEW i \in Calls, CallbackReturn(i) PROVE TypeOK'
    BY <1>23 DEF CallbackReturn
<1>24. ASSUME Request PROVE TypeOK'
  <2>1. queued' \in 0 .. QUEUE_CAP
      BY <1>24 DEF Request
  <2>2. parked' \in BOOLEAN
      BY <1>24, Zenon DEF Request
  <2> QED
      BY <1>24, <2>1, <2>2 DEF Request
<1>25. ASSUME Cleanup PROVE TypeOK'
    BY <1>25 DEF Cleanup, Reachable
<1>26. CASE UNCHANGED vars
    BY <1>26 DEF vars
<1> QED
    BY <1>1, <1>2, <1>3, <1>4, <1>5, <1>6, <1>7, <1>8, <1>9, <1>10, <1>11, <1>12, <1>13,
        <1>14, <1>15, <1>16, <1>17, <1>18, <1>19, <1>20, <1>21, <1>22, <1>23, <1>24, <1>25,
        <1>26
       DEF Next, EntryStep, UnloadStep, CallbackStep, Gone

\* driver_entry and driver_unload go from block to block, and the last of each is
\* the last.
LEMMA BlockStep == IndInv /\ [Next]_vars => BlockInv'
<1> SUFFICES ASSUME IndInv, [Next]_vars PROVE BlockInv'
    OBVIOUS
<1> USE OrderFacts
    DEF IndInv, BlockInv, UnsetPcs, RegisterPcs, RemovalPcs
<1>1. ASSUME WireDispatch \/ CreateDevice \/ CreateDeviceFails \/ CreateSymbolicLink
             \/ CreateSymbolicLinkFails \/ Register \/ StoreCookie
      PROVE  BlockInv'
    BY <1>1 DEF WireDispatch, CreateDevice, CreateDeviceFails, CreateSymbolicLink,
                CreateSymbolicLinkFails, Register, StoreCookie
<1>2. ASSUME RegisterFails PROVE BlockInv'
    BY <1>2 DEF RegisterFails, AdvanceEntry
<1>3. ASSUME StoreFlag PROVE BlockInv'
    BY <1>3 DEF StoreFlag, AdvanceEntry
<1>4. ASSUME UnloadStart PROVE BlockInv'
    BY <1>4 DEF UnloadStart
<1>5. ASSUME SwapFlag PROVE BlockInv'
    BY <1>5 DEF SwapFlag, AdvanceUnload
<1>6. ASSUME Remove PROVE BlockInv'
    BY <1>6 DEF Remove
<1>7. ASSUME WaitForCallback PROVE BlockInv'
    BY <1>7 DEF WaitForCallback, AdvanceUnload
<1>8. ASSUME CancelPending \/ DrainPop \/ DrainEnd \/ DeleteSymbolicLink
             \/ DeleteSymbolicLinkFails \/ DeleteDevice
      PROVE  BlockInv'
    BY <1>8 DEF CancelPending, DrainPop, DrainEnd, DeleteSymbolicLink,
                DeleteSymbolicLinkFails, DeleteDevice
<1>9. ASSUME NEW i \in Calls,
             CallbackStep(i) \/ \E c \in Callbacks : CallbackEnter(i, c)
      PROVE  BlockInv'
    BY <1>9 DEF CallbackStep, ReadCookie, CallbackSubmit, CallbackReturn, CallbackEnter
<1>10. ASSUME Request \/ Cleanup \/ UNCHANGED vars PROVE BlockInv'
    BY <1>10 DEF Request, Cleanup, vars
<1> QED
    BY <1>1, <1>2, <1>3, <1>4, <1>5, <1>6, <1>7, <1>8, <1>9, <1>10
       DEF Next, EntryStep, UnloadStep, Gone

\* driver_entry and driver_unload change the two records of a callback together, but
\* for the callback they are at.
LEMMA RecordStep == IndInv /\ [Next]_vars => RecordInv'
<1> SUFFICES ASSUME IndInv, [Next]_vars PROVE RecordInv'
    OBVIOUS
<1> USE OrderFacts
    DEF IndInv, TypeOK, RecordInv, RegisterInv, RemovalInv, BlockInv, Agreed, Absent, UnsetPcs, RegisterPcs, EntryPcs,
        RemovalPcs, TeardownPcs, setup, devVars, regVars, runVars
<1>1. ASSUME WireDispatch PROVE RecordInv'
    BY <1>1 DEF WireDispatch
<1>2. ASSUME CreateDevice PROVE RecordInv'
    BY <1>2 DEF CreateDevice
<1>3. ASSUME CreateDeviceFails PROVE RecordInv'
    BY <1>3 DEF CreateDeviceFails
<1>4. ASSUME CreateSymbolicLink PROVE RecordInv'
    BY <1>4 DEF CreateSymbolicLink
<1>5. ASSUME CreateSymbolicLinkFails PROVE RecordInv'
    BY <1>5 DEF CreateSymbolicLinkFails
<1>6. ASSUME Register PROVE RecordInv'
    BY <1>6 DEF Register
<1>7. ASSUME RegisterFails PROVE RecordInv'
  <2>1. CASE k = Len(Registrations)
    <3>1. \A c \in Callbacks : \E j \in 1 .. k : Registrations[j] = c
        BY <2>1
    <3>2. \A c \in Callbacks : Agreed(c)'
        BY <1>7, <3>1 DEF RegisterFails
    <3> QED
        BY <1>7, <2>1, <3>2 DEF RegisterFails, AdvanceEntry
  <2>2. CASE k # Len(Registrations)
      BY <1>7, <2>2 DEF RegisterFails, AdvanceEntry
  <2> QED
      BY <2>1, <2>2
<1>8. ASSUME StoreCookie PROVE RecordInv'
    BY <1>8 DEF StoreCookie
<1>9. ASSUME StoreFlag PROVE RecordInv'
  <2>1. CASE k = Len(Registrations)
    <3>1. \A c \in Callbacks : \E j \in 1 .. k : Registrations[j] = c
        BY <2>1
    <3>2. ASSUME NEW c \in Callbacks PROVE Agreed(c)'
      <4>1. PICK j \in 1 .. k : Registrations[j] = c
          BY <3>1
      <4>2. CASE j = k
          BY <1>9, <4>1, <4>2 DEF StoreFlag
      <4>3. CASE j < k
          BY <1>9, <4>1, <4>3 DEF StoreFlag
      <4> QED
          BY <4>2, <4>3
    <3> QED
        BY <1>9, <2>1, <3>2 DEF StoreFlag, AdvanceEntry
  <2>2. CASE k # Len(Registrations)
      BY <1>9, <2>2 DEF StoreFlag, AdvanceEntry
  <2> QED
      BY <2>1, <2>2
<1>10. ASSUME UnloadStart PROVE RecordInv'
    BY <1>10 DEF UnloadStart
<1>11. ASSUME SwapFlag PROVE RecordInv'
  <2>1. CASE flag[Removals[k]]
      BY <1>11, <2>1 DEF SwapFlag
  <2>2. CASE ~flag[Removals[k]] /\ k = Len(Removals)
    <3>1. \A c \in Callbacks : \E j \in 1 .. k : Removals[j] = c
        BY <2>2
    <3>2. \A c \in Callbacks : Absent(c)'
        BY <1>11, <2>2, <3>1 DEF SwapFlag
    <3> QED
        BY <1>11, <2>2, <3>2 DEF SwapFlag, AdvanceUnload
  <2>3. CASE ~flag[Removals[k]] /\ k # Len(Removals)
      BY <1>11, <2>3 DEF SwapFlag, AdvanceUnload
  <2> QED
      BY <2>1, <2>2, <2>3
<1>12. ASSUME Remove PROVE RecordInv'
  <2>1. registered' = registered \ {Removals[k]}
      BY <1>12 DEF Remove, CookieInv
  <2> QED
      BY <1>12, <2>1 DEF Remove
<1>13. ASSUME WaitForCallback PROVE RecordInv'
  <2>1. CASE k = Len(Removals)
    <3>1. \A c \in Callbacks : \E j \in 1 .. k : Removals[j] = c
        BY <2>1
    <3>2. ASSUME NEW c \in Callbacks PROVE Absent(c)'
      <4>1. PICK j \in 1 .. k : Removals[j] = c
          BY <3>1
      <4>2. pc = "wait" /\ flag' = flag /\ registered' = registered
          BY <1>13 DEF WaitForCallback
      <4>3. Absent(Removals[j])
          BY <2>1, <4>2
      <4> QED
          BY <4>1, <4>2, <4>3
    <3> QED
        BY <1>13, <2>1, <3>2 DEF WaitForCallback, AdvanceUnload
  <2>2. CASE k # Len(Removals)
      BY <1>13, <2>2 DEF WaitForCallback, AdvanceUnload
  <2> QED
      BY <2>1, <2>2
<1>14. ASSUME CancelPending PROVE RecordInv'
    BY <1>14 DEF CancelPending
<1>15. ASSUME DrainPop PROVE RecordInv'
    BY <1>15 DEF DrainPop
<1>16. ASSUME DrainEnd PROVE RecordInv'
    BY <1>16 DEF DrainEnd
<1>17. ASSUME DeleteSymbolicLink PROVE RecordInv'
    BY <1>17 DEF DeleteSymbolicLink
<1>18. ASSUME DeleteSymbolicLinkFails PROVE RecordInv'
    BY <1>18 DEF DeleteSymbolicLinkFails
<1>19. ASSUME DeleteDevice PROVE RecordInv'
    BY <1>19 DEF DeleteDevice
<1>20. ASSUME NEW i \in Calls, NEW c \in Callbacks, CallbackEnter(i, c) PROVE RecordInv'
    BY <1>20 DEF CallbackEnter
<1>21. ASSUME NEW i \in Calls, ReadCookie(i) PROVE RecordInv'
    BY <1>21 DEF ReadCookie
<1>22. ASSUME NEW i \in Calls, CallbackSubmit(i) PROVE RecordInv'
    BY <1>22 DEF CallbackSubmit, HasEvent
<1>23. ASSUME NEW i \in Calls, CallbackReturn(i) PROVE RecordInv'
    BY <1>23 DEF CallbackReturn
<1>24. ASSUME Request PROVE RecordInv'
    BY <1>24 DEF Request, Reachable
<1>25. ASSUME Cleanup PROVE RecordInv'
    BY <1>25 DEF Cleanup, Reachable
<1>26. CASE UNCHANGED vars
    BY <1>26 DEF vars
<1> QED
    BY <1>1, <1>2, <1>3, <1>4, <1>5, <1>6, <1>7, <1>8, <1>9, <1>10, <1>11, <1>12, <1>13,
        <1>14, <1>15, <1>16, <1>17, <1>18, <1>19, <1>20, <1>21, <1>22, <1>23, <1>24, <1>25,
        <1>26
       DEF Next, EntryStep, UnloadStep, CallbackStep, Gone

\* The cookie stays once it is stored.
LEMMA CookieStep == IndInv /\ [Next]_vars => CookieInv'
<1> SUFFICES ASSUME IndInv, [Next]_vars PROVE CookieInv'
    OBVIOUS
<1> USE OrderFacts
    DEF IndInv, TypeOK, RecordInv, Absent, Agreed, CookieInv, UnsetPcs, RegisterPcs,
        EntryPcs, RemovalPcs, TeardownPcs, setup, devVars, regVars, runVars
<1>1. ASSUME WireDispatch PROVE CookieInv'
    BY <1>1 DEF WireDispatch
<1>2. ASSUME CreateDevice PROVE CookieInv'
    BY <1>2 DEF CreateDevice
<1>3. ASSUME CreateDeviceFails PROVE CookieInv'
    BY <1>3 DEF CreateDeviceFails
<1>4. ASSUME CreateSymbolicLink PROVE CookieInv'
    BY <1>4 DEF CreateSymbolicLink
<1>5. ASSUME CreateSymbolicLinkFails PROVE CookieInv'
    BY <1>5 DEF CreateSymbolicLinkFails
<1>6. ASSUME Register PROVE CookieInv'
    BY <1>6 DEF Register
<1>7. ASSUME RegisterFails PROVE CookieInv'
    BY <1>7 DEF RegisterFails, AdvanceEntry
<1>8. ASSUME StoreCookie PROVE CookieInv'
    BY <1>8 DEF StoreCookie
<1>9. ASSUME StoreFlag PROVE CookieInv'
    BY <1>9 DEF StoreFlag, AdvanceEntry
<1>10. ASSUME UnloadStart PROVE CookieInv'
    BY <1>10 DEF UnloadStart
<1>11. ASSUME SwapFlag PROVE CookieInv'
    BY <1>11 DEF SwapFlag, AdvanceUnload
<1>12. ASSUME Remove PROVE CookieInv'
    BY <1>12 DEF Remove
<1>13. ASSUME WaitForCallback PROVE CookieInv'
    BY <1>13 DEF WaitForCallback, AdvanceUnload
<1>14. ASSUME CancelPending PROVE CookieInv'
    BY <1>14 DEF CancelPending
<1>15. ASSUME DrainPop PROVE CookieInv'
    BY <1>15 DEF DrainPop
<1>16. ASSUME DrainEnd PROVE CookieInv'
    BY <1>16 DEF DrainEnd
<1>17. ASSUME DeleteSymbolicLink PROVE CookieInv'
    BY <1>17 DEF DeleteSymbolicLink
<1>18. ASSUME DeleteSymbolicLinkFails PROVE CookieInv'
    BY <1>18 DEF DeleteSymbolicLinkFails
<1>19. ASSUME DeleteDevice PROVE CookieInv'
    BY <1>19 DEF DeleteDevice
<1>20. ASSUME NEW i \in Calls, NEW c \in Callbacks, CallbackEnter(i, c) PROVE CookieInv'
    BY <1>20 DEF CallbackEnter
<1>21. ASSUME NEW i \in Calls, ReadCookie(i) PROVE CookieInv'
    BY <1>21 DEF ReadCookie
<1>22. ASSUME NEW i \in Calls, CallbackSubmit(i) PROVE CookieInv'
    BY <1>22 DEF CallbackSubmit, HasEvent
<1>23. ASSUME NEW i \in Calls, CallbackReturn(i) PROVE CookieInv'
    BY <1>23 DEF CallbackReturn
<1>24. ASSUME Request PROVE CookieInv'
    BY <1>24 DEF Request, Reachable
<1>25. ASSUME Cleanup PROVE CookieInv'
    BY <1>25 DEF Cleanup, Reachable
<1>26. CASE UNCHANGED vars
    BY <1>26 DEF vars
<1> QED
    BY <1>1, <1>2, <1>3, <1>4, <1>5, <1>6, <1>7, <1>8, <1>9, <1>10, <1>11, <1>12, <1>13,
        <1>14, <1>15, <1>16, <1>17, <1>18, <1>19, <1>20, <1>21, <1>22, <1>23, <1>24, <1>25,
        <1>26
       DEF Next, EntryStep, UnloadStep, CallbackStep, Gone

\* Each kernel object exists at the steps between its creation and its deletion.
LEMMA DeviceStep == IndInv /\ [Next]_vars => DeviceInv'
<1> SUFFICES ASSUME IndInv, [Next]_vars PROVE DeviceInv'
    OBVIOUS
<1> USE OrderFacts, NullAssumption
    DEF IndInv, TypeOK, DeviceInv, UnsetPcs, EntryPcs, RemovalPcs, TeardownPcs, setup,
        devVars, regVars, runVars
<1>1. ASSUME WireDispatch PROVE DeviceInv'
    BY <1>1 DEF WireDispatch
<1>2. ASSUME CreateDevice PROVE DeviceInv'
    BY <1>2 DEF CreateDevice
<1>3. ASSUME CreateDeviceFails PROVE DeviceInv'
    BY <1>3 DEF CreateDeviceFails
<1>4. ASSUME CreateSymbolicLink PROVE DeviceInv'
    BY <1>4 DEF CreateSymbolicLink
<1>5. ASSUME CreateSymbolicLinkFails PROVE DeviceInv'
    BY <1>5 DEF CreateSymbolicLinkFails
<1>6. ASSUME Register PROVE DeviceInv'
    BY <1>6 DEF Register
<1>7. ASSUME RegisterFails PROVE DeviceInv'
    BY <1>7 DEF RegisterFails, AdvanceEntry
<1>8. ASSUME StoreCookie PROVE DeviceInv'
    BY <1>8 DEF StoreCookie
<1>9. ASSUME StoreFlag PROVE DeviceInv'
    BY <1>9 DEF StoreFlag, AdvanceEntry
<1>10. ASSUME UnloadStart PROVE DeviceInv'
    BY <1>10 DEF UnloadStart
<1>11. ASSUME SwapFlag PROVE DeviceInv'
    BY <1>11 DEF SwapFlag, AdvanceUnload
<1>12. ASSUME Remove PROVE DeviceInv'
    BY <1>12 DEF Remove
<1>13. ASSUME WaitForCallback PROVE DeviceInv'
    BY <1>13 DEF WaitForCallback, AdvanceUnload
<1>14. ASSUME CancelPending PROVE DeviceInv'
    BY <1>14 DEF CancelPending
<1>15. ASSUME DrainPop PROVE DeviceInv'
    BY <1>15 DEF DrainPop
<1>16. ASSUME DrainEnd PROVE DeviceInv'
    BY <1>16 DEF DrainEnd
<1>17. ASSUME DeleteSymbolicLink PROVE DeviceInv'
    BY <1>17 DEF DeleteSymbolicLink
<1>18. ASSUME DeleteSymbolicLinkFails PROVE DeviceInv'
    BY <1>18 DEF DeleteSymbolicLinkFails
<1>19. ASSUME DeleteDevice PROVE DeviceInv'
    BY <1>19 DEF DeleteDevice
<1>20. ASSUME NEW i \in Calls, NEW c \in Callbacks, CallbackEnter(i, c) PROVE DeviceInv'
    BY <1>20 DEF CallbackEnter
<1>21. ASSUME NEW i \in Calls, ReadCookie(i) PROVE DeviceInv'
    BY <1>21 DEF ReadCookie
<1>22. ASSUME NEW i \in Calls, CallbackSubmit(i) PROVE DeviceInv'
    BY <1>22 DEF CallbackSubmit, HasEvent
<1>23. ASSUME NEW i \in Calls, CallbackReturn(i) PROVE DeviceInv'
    BY <1>23 DEF CallbackReturn
<1>24. ASSUME Request PROVE DeviceInv'
    BY <1>24 DEF Request, Reachable
<1>25. ASSUME Cleanup PROVE DeviceInv'
    BY <1>25 DEF Cleanup, Reachable
<1>26. CASE UNCHANGED vars
    BY <1>26 DEF vars
<1> QED
    BY <1>1, <1>2, <1>3, <1>4, <1>5, <1>6, <1>7, <1>8, <1>9, <1>10, <1>11, <1>12, <1>13,
        <1>14, <1>15, <1>16, <1>17, <1>18, <1>19, <1>20, <1>21, <1>22, <1>23, <1>24, <1>25,
        <1>26
       DEF Next, EntryStep, UnloadStep, CallbackStep, Gone

\* A removal that returns has waited for every invocation of its callback.
LEMMA RunStep == IndInv /\ [Next]_vars => RunInv'
<1> SUFFICES ASSUME IndInv, [Next]_vars PROVE RunInv'
    OBVIOUS
<1> USE OrderFacts
    DEF IndInv, TypeOK, RunInv, RecordInv, Absent, UnsetPcs, RegisterPcs, EntryPcs,
        RemovalPcs, TeardownPcs, setup, devVars, regVars, runVars
<1>1. ASSUME WireDispatch PROVE RunInv'
    BY <1>1 DEF WireDispatch
<1>2. ASSUME CreateDevice PROVE RunInv'
    BY <1>2 DEF CreateDevice
<1>3. ASSUME CreateDeviceFails PROVE RunInv'
    BY <1>3 DEF CreateDeviceFails
<1>4. ASSUME CreateSymbolicLink PROVE RunInv'
    BY <1>4 DEF CreateSymbolicLink
<1>5. ASSUME CreateSymbolicLinkFails PROVE RunInv'
    BY <1>5 DEF CreateSymbolicLinkFails
<1>6. ASSUME Register PROVE RunInv'
    BY <1>6 DEF Register
<1>7. ASSUME RegisterFails PROVE RunInv'
    BY <1>7 DEF RegisterFails, AdvanceEntry
<1>8. ASSUME StoreCookie PROVE RunInv'
    BY <1>8 DEF StoreCookie
<1>9. ASSUME StoreFlag PROVE RunInv'
    BY <1>9 DEF StoreFlag, AdvanceEntry
<1>10. ASSUME UnloadStart PROVE RunInv'
    BY <1>10 DEF UnloadStart
<1>11. ASSUME SwapFlag PROVE RunInv'
    BY <1>11 DEF SwapFlag, AdvanceUnload
<1>12. ASSUME Remove PROVE RunInv'
    BY <1>12 DEF Remove
<1>13. ASSUME WaitForCallback PROVE RunInv'
    BY <1>13 DEF WaitForCallback, AdvanceUnload
<1>14. ASSUME CancelPending PROVE RunInv'
    BY <1>14 DEF CancelPending
<1>15. ASSUME DrainPop PROVE RunInv'
    BY <1>15 DEF DrainPop
<1>16. ASSUME DrainEnd PROVE RunInv'
    BY <1>16 DEF DrainEnd
<1>17. ASSUME DeleteSymbolicLink PROVE RunInv'
    BY <1>17 DEF DeleteSymbolicLink
<1>18. ASSUME DeleteSymbolicLinkFails PROVE RunInv'
    BY <1>18 DEF DeleteSymbolicLinkFails
<1>19. ASSUME DeleteDevice PROVE RunInv'
    BY <1>19 DEF DeleteDevice
<1>20. ASSUME NEW i \in Calls, NEW c \in Callbacks, CallbackEnter(i, c) PROVE RunInv'
    BY <1>20 DEF CallbackEnter
<1>21. ASSUME NEW i \in Calls, ReadCookie(i) PROVE RunInv'
    BY <1>21 DEF ReadCookie
<1>22. ASSUME NEW i \in Calls, CallbackSubmit(i) PROVE RunInv'
    BY <1>22 DEF CallbackSubmit, HasEvent
<1>23. ASSUME NEW i \in Calls, CallbackReturn(i) PROVE RunInv'
    BY <1>23 DEF CallbackReturn
<1>24. ASSUME Request PROVE RunInv'
    BY <1>24 DEF Request, Reachable
<1>25. ASSUME Cleanup PROVE RunInv'
    BY <1>25 DEF Cleanup, Reachable
<1>26. CASE UNCHANGED vars
    BY <1>26 DEF vars
<1> QED
    BY <1>1, <1>2, <1>3, <1>4, <1>5, <1>6, <1>7, <1>8, <1>9, <1>10, <1>11, <1>12, <1>13,
        <1>14, <1>15, <1>16, <1>17, <1>18, <1>19, <1>20, <1>21, <1>22, <1>23, <1>24, <1>25,
        <1>26
       DEF Next, EntryStep, UnloadStep, CallbackStep, Gone

\* Events come from invocations and requests come over the device: neither is left
\* when driver_unload cancels and drains.
LEMMA TrafficStep == IndInv /\ [Next]_vars => TrafficInv'
<1> SUFFICES ASSUME IndInv, [Next]_vars PROVE TrafficInv'
    OBVIOUS
<1> USE OrderFacts, CapAssumption
    DEF IndInv, TypeOK, TrafficInv, RunInv, RecordInv, Absent, DeviceInv, UnsetPcs,
        GonePcs, EntryPcs, RemovalPcs, TeardownPcs, setup, devVars, regVars, runVars
<1>1. ASSUME WireDispatch PROVE TrafficInv'
    BY <1>1 DEF WireDispatch
<1>2. ASSUME CreateDevice PROVE TrafficInv'
    BY <1>2 DEF CreateDevice
<1>3. ASSUME CreateDeviceFails PROVE TrafficInv'
    BY <1>3 DEF CreateDeviceFails
<1>4. ASSUME CreateSymbolicLink PROVE TrafficInv'
    BY <1>4 DEF CreateSymbolicLink
<1>5. ASSUME CreateSymbolicLinkFails PROVE TrafficInv'
    BY <1>5 DEF CreateSymbolicLinkFails
<1>6. ASSUME Register PROVE TrafficInv'
    BY <1>6 DEF Register
<1>7. ASSUME RegisterFails PROVE TrafficInv'
    BY <1>7 DEF RegisterFails, AdvanceEntry
<1>8. ASSUME StoreCookie PROVE TrafficInv'
    BY <1>8 DEF StoreCookie
<1>9. ASSUME StoreFlag PROVE TrafficInv'
    BY <1>9 DEF StoreFlag, AdvanceEntry
<1>10. ASSUME UnloadStart PROVE TrafficInv'
    BY <1>10 DEF UnloadStart
<1>11. ASSUME SwapFlag PROVE TrafficInv'
    BY <1>11 DEF SwapFlag, AdvanceUnload
<1>12. ASSUME Remove PROVE TrafficInv'
    BY <1>12 DEF Remove
<1>13. ASSUME WaitForCallback PROVE TrafficInv'
    BY <1>13 DEF WaitForCallback, AdvanceUnload
<1>14. ASSUME CancelPending PROVE TrafficInv'
    BY <1>14 DEF CancelPending
<1>15. ASSUME DrainPop PROVE TrafficInv'
    BY <1>15 DEF DrainPop
<1>16. ASSUME DrainEnd PROVE TrafficInv'
    BY <1>16 DEF DrainEnd
<1>17. ASSUME DeleteSymbolicLink PROVE TrafficInv'
    BY <1>17 DEF DeleteSymbolicLink
<1>18. ASSUME DeleteSymbolicLinkFails PROVE TrafficInv'
    BY <1>18 DEF DeleteSymbolicLinkFails
<1>19. ASSUME DeleteDevice PROVE TrafficInv'
    BY <1>19 DEF DeleteDevice
<1>20. ASSUME NEW i \in Calls, NEW c \in Callbacks, CallbackEnter(i, c) PROVE TrafficInv'
    BY <1>20 DEF CallbackEnter
<1>21. ASSUME NEW i \in Calls, ReadCookie(i) PROVE TrafficInv'
    BY <1>21 DEF ReadCookie
<1>22. ASSUME NEW i \in Calls, CallbackSubmit(i) PROVE TrafficInv'
    BY <1>22 DEF CallbackSubmit, HasEvent
<1>23. ASSUME NEW i \in Calls, CallbackReturn(i) PROVE TrafficInv'
    BY <1>23 DEF CallbackReturn
<1>24. ASSUME Request PROVE TrafficInv'
    BY <1>24 DEF Request, Reachable
<1>25. ASSUME Cleanup PROVE TrafficInv'
    BY <1>25 DEF Cleanup, Reachable
<1>26. CASE UNCHANGED vars
    BY <1>26 DEF vars
<1> QED
    BY <1>1, <1>2, <1>3, <1>4, <1>5, <1>6, <1>7, <1>8, <1>9, <1>10, <1>11, <1>12, <1>13,
        <1>14, <1>15, <1>16, <1>17, <1>18, <1>19, <1>20, <1>21, <1>22, <1>23, <1>24, <1>25,
        <1>26
       DEF Next, EntryStep, UnloadStep, CallbackStep, Gone

\* A removal asks for a callback the kernel has, with the cookie it gave out.
LEMMA RemoveStep == IndInv /\ [Next]_vars => NoDoubleRemove'
<1> SUFFICES ASSUME IndInv, [Next]_vars PROVE NoDoubleRemove'
    OBVIOUS
<1> USE OrderFacts
    DEF IndInv, TypeOK, NoDoubleRemove, RecordInv, CookieInv, RegisterPcs, EntryPcs,
        RemovalPcs, TeardownPcs, setup, devVars, regVars, runVars
<1>1. ASSUME WireDispatch PROVE NoDoubleRemove'
    BY <1>1 DEF WireDispatch
<1>2. ASSUME CreateDevice PROVE NoDoubleRemove'
    BY <1>2 DEF CreateDevice
<1>3. ASSUME CreateDeviceFails PROVE NoDoubleRemove'
    BY <1>3 DEF CreateDeviceFails
<1>4. ASSUME CreateSymbolicLink PROVE NoDoubleRemove'
    BY <1>4 DEF CreateSymbolicLink
<1>5. ASSUME CreateSymbolicLinkFails PROVE NoDoubleRemove'
    BY <1>5 DEF CreateSymbolicLinkFails
<1>6. ASSUME Register PROVE NoDoubleRemove'
    BY <1>6 DEF Register
<1>7. ASSUME RegisterFails PROVE NoDoubleRemove'
    BY <1>7 DEF RegisterFails, AdvanceEntry
<1>8. ASSUME StoreCookie PROVE NoDoubleRemove'
    BY <1>8 DEF StoreCookie
<1>9. ASSUME StoreFlag PROVE NoDoubleRemove'
    BY <1>9 DEF StoreFlag, AdvanceEntry
<1>10. ASSUME UnloadStart PROVE NoDoubleRemove'
    BY <1>10 DEF UnloadStart
<1>11. ASSUME SwapFlag PROVE NoDoubleRemove'
    BY <1>11 DEF SwapFlag, AdvanceUnload
<1>12. ASSUME Remove PROVE NoDoubleRemove'
    BY <1>12 DEF Remove
<1>13. ASSUME WaitForCallback PROVE NoDoubleRemove'
    BY <1>13 DEF WaitForCallback, AdvanceUnload
<1>14. ASSUME CancelPending PROVE NoDoubleRemove'
    BY <1>14 DEF CancelPending
<1>15. ASSUME DrainPop PROVE NoDoubleRemove'
    BY <1>15 DEF DrainPop
<1>16. ASSUME DrainEnd PROVE NoDoubleRemove'
    BY <1>16 DEF DrainEnd
<1>17. ASSUME DeleteSymbolicLink PROVE NoDoubleRemove'
    BY <1>17 DEF DeleteSymbolicLink
<1>18. ASSUME DeleteSymbolicLinkFails PROVE NoDoubleRemove'
    BY <1>18 DEF DeleteSymbolicLinkFails
<1>19. ASSUME DeleteDevice PROVE NoDoubleRemove'
    BY <1>19 DEF DeleteDevice
<1>20. ASSUME NEW i \in Calls, NEW c \in Callbacks, CallbackEnter(i,
       c) PROVE NoDoubleRemove'
    BY <1>20 DEF CallbackEnter
<1>21. ASSUME NEW i \in Calls, ReadCookie(i) PROVE NoDoubleRemove'
    BY <1>21 DEF ReadCookie
<1>22. ASSUME NEW i \in Calls, CallbackSubmit(i) PROVE NoDoubleRemove'
    BY <1>22 DEF CallbackSubmit, HasEvent
<1>23. ASSUME NEW i \in Calls, CallbackReturn(i) PROVE NoDoubleRemove'
    BY <1>23 DEF CallbackReturn
<1>24. ASSUME Request PROVE NoDoubleRemove'
    BY <1>24 DEF Request, Reachable
<1>25. ASSUME Cleanup PROVE NoDoubleRemove'
    BY <1>25 DEF Cleanup, Reachable
<1>26. CASE UNCHANGED vars
    BY <1>26 DEF vars
<1> QED
    BY <1>1, <1>2, <1>3, <1>4, <1>5, <1>6, <1>7, <1>8, <1>9, <1>10, <1>11, <1>12, <1>13,
        <1>14, <1>15, <1>16, <1>17, <1>18, <1>19, <1>20, <1>21, <1>22, <1>23, <1>24, <1>25,
        <1>26
       DEF Next, EntryStep, UnloadStep, CallbackStep, Gone

\* The invariant holds of the state in which the driver is loaded.
LEMMA InitInv == Init => IndInv
<1> SUFFICES ASSUME Init PROVE IndInv
    OBVIOUS
<1> USE OrderFacts, NullAssumption, CapAssumption DEF Init
<1>1. /\ flag \in [Callbacks -> BOOLEAN]
      /\ cb \in [Calls -> {"out", "in", "resolved", "submitted"}]
      /\ of \in [Calls -> Callbacks \cup {NULL}]
      /\ seen \in [Calls -> {NULL, COOKIE}]
    OBVIOUS
<1>2. TypeOK
  <2>1. k \in DOMAIN Registrations /\ queued \in 0 .. QUEUE_CAP
      OBVIOUS
  <2>2. pc \in EntryPcs
      BY DEF EntryPcs
  <2> QED
      BY <1>1, <2>1, <2>2, Zenon DEF TypeOK
<1>3. RecordInv
    BY DEF RecordInv, RegisterInv, RemovalInv, BlockInv, Agreed, Absent, UnsetPcs, RegisterPcs, RemovalPcs, TeardownPcs
<1>4. BlockInv /\ CookieInv /\ DeviceInv /\ RunInv /\ TrafficInv /\ NoDoubleRemove
    BY DEF BlockInv, CookieInv, DeviceInv, RunInv, TrafficInv, NoDoubleRemove, UnsetPcs,
           RemovalPcs, GonePcs
<1> QED
    BY <1>2, <1>3, <1>4 DEF IndInv

\* The invariant holds throughout.
LEMMA Inductive == Spec => []IndInv
<1>1. IndInv /\ [Next]_vars => IndInv'
    BY TypeStep, BlockStep, RecordStep, CookieStep, DeviceStep, RunStep, TrafficStep, RemoveStep
       DEF IndInv
<1> QED
    BY InitInv, <1>1, PTL DEF Spec

----------------------------------------------------------------------------
(* The properties. *)

\* driver_entry and driver_unload stay within their callbacks, and the queue within
\* its capacity.
THEOREM TypeCorrect == Spec => []TypeOK
<1>1. IndInv => TypeOK
    BY DEF IndInv
<1> QED
    BY Inductive, <1>1, PTL

\* driver_unload never asks the kernel to remove what it does not have, whichever
\* of any number of registrations failed.
THEOREM RemovalIsSafe == Spec => []NoDoubleRemove
<1>1. IndInv => NoDoubleRemove
    BY DEF IndInv
<1> QED
    BY Inductive, <1>1, PTL

\* No request and no callback reaches the driver before driver_entry has wired the
\* dispatch table and initialised the lock.
THEOREM NothingReachedTooEarly == Spec => []ReadyBeforeReachable
<1>1. IndInv => ReadyBeforeReachable
  <2> SUFFICES ASSUME IndInv, pc = "entry" PROVE ReadyBeforeReachable
      BY DEF IndInv, DeviceInv, ReadyBeforeReachable
  <2>1. ~device
      BY DEF IndInv, DeviceInv
  <2>2. registered = {}
      BY OrderFacts DEF IndInv, TypeOK, RecordInv, Absent, UnsetPcs
  <2>3. \A i \in Calls : cb[i] = "out"
      BY <2>2 DEF IndInv, RunInv
  <2> QED
      BY <2>1, <2>3 DEF ReadyBeforeReachable
<1> QED
    BY Inductive, <1>1, PTL

\* When no callback is set up, none is registered and none runs.
LEMMA NoneRuns ==
  IndInv /\ pc \in UnsetPcs \cup TeardownPcs \cup {"unloaded"}
    => registered = {} /\ \A i \in Calls : cb[i] = "out"
<1> SUFFICES ASSUME IndInv, pc \in UnsetPcs \cup TeardownPcs \cup {"unloaded"}
             PROVE  registered = {} /\ \A i \in Calls : cb[i] = "out"
    OBVIOUS
<1>1. registered = {}
    BY OrderFacts DEF IndInv, TypeOK, RecordInv, Absent
<1>2. pc # "wait"
    BY DEF UnsetPcs, TeardownPcs
<1> QED
    BY <1>1, <1>2 DEF IndInv, RunInv

\* A load that fails leaves nothing behind: driver_entry has torn down what it had
\* set up.
THEOREM FailedLoadLeavesNothing == Spec => []FailureLeavesNothing
<1>1. IndInv => FailureLeavesNothing
    BY NoneRuns DEF IndInv, TypeOK, DeviceInv, TrafficInv, FailureLeavesNothing, UnsetPcs
<1> QED
    BY Inductive, <1>1, PTL

\* driver_unload leaves nothing behind, whatever ran while it did.
THEOREM UnloadIsComplete == Spec => []UnloadLeavesNothing
<1>1. IndInv => UnloadLeavesNothing
    BY NoneRuns DEF IndInv, DeviceInv, TrafficInv, UnloadLeavesNothing, UnsetPcs, GonePcs
<1> QED
    BY Inductive, <1>1, PTL

\* From the cancellation of the parked request on, no callback runs or can start.
THEOREM TeardownIsQuiet == Spec => []QuietTeardown
<1>1. IndInv => QuietTeardown
    BY NoneRuns DEF QuietTeardown
<1> QED
    BY Inductive, <1>1, PTL

\* When driver_entry has returned, the flags, the cookie and CONTROL_DEVICE record
\* what the kernel has.
THEOREM RecordIsRight == Spec => []RecordMatchesKernel
<1>1. IndInv => RecordMatchesKernel
  <2> SUFFICES ASSUME IndInv, pc = "running" PROVE RecordMatchesKernel
      BY DEF RecordMatchesKernel
  <2>1. \A c \in Callbacks : flag[c] <=> c \in registered
      BY OrderFacts DEF IndInv, RecordInv, Agreed
  <2> QED
      BY <2>1 DEF IndInv, CookieInv, DeviceInv, RecordMatchesKernel
<1> QED
    BY Inductive, <1>1, PTL

\* An invocation of the registry callback reads a wrong cookie only before
\* driver_entry has stored it; driver_unload's removals add no such read.
THEOREM OnlyEarlyReadsMiss == Spec => CookieWindow
<1>1. ASSUME IndInv, [Next]_vars, NEW i \in Calls,
             cb[i] = "in", cb'[i] = "resolved", seen'[i] # COOKIE
      PROVE  pc = "cookie"
  <2>1. ReadCookie(i)
    <3>1. cb' # cb /\ cb'[i] \notin {"out", "in", "submitted"}
        BY <1>1
    <3>2. CASE \E j \in Calls : CallbackStep(j)
        BY <1>1, <3>1, <3>2
           DEF CallbackStep, ReadCookie, CallbackSubmit, CallbackReturn, IndInv, TypeOK
    <3>3. CASE \E j \in Calls, c \in Callbacks : CallbackEnter(j, c)
        BY <1>1, <3>1, <3>3 DEF CallbackEnter, IndInv, TypeOK
    <3>4. CASE EntryStep
        BY <3>1, <3>4
           DEF EntryStep, WireDispatch, CreateDevice, CreateDeviceFails,
               CreateSymbolicLink, CreateSymbolicLinkFails, Register, RegisterFails,
               StoreCookie, StoreFlag, runVars
    <3>5. CASE UnloadStart \/ UnloadStep
        BY <3>1, <3>5
           DEF UnloadStart, UnloadStep, SwapFlag, Remove, WaitForCallback, CancelPending,
               DrainPop, DrainEnd, DeleteSymbolicLink, DeleteSymbolicLinkFails,
               DeleteDevice, runVars
    <3>6. CASE Request \/ Cleanup \/ Gone \/ UNCHANGED vars
        BY <3>1, <3>6 DEF Request, Cleanup, Gone, vars, runVars
    <3> QED
        BY <1>1, <3>2, <3>3, <3>4, <3>5, <3>6 DEF Next
  <2>2. of[i] = REGISTRY /\ REGISTRY_CALLBACK_COOKIE # COOKIE
      BY <1>1, <2>1 DEF ReadCookie, IndInv, TypeOK
  <2>3. REGISTRY \in registered \/ (pc = "wait" /\ Removals[k] = REGISTRY)
      BY <1>1, <2>2 DEF IndInv, RunInv
  <2> QED
      BY <1>1, <2>2, <2>3 DEF IndInv, CookieInv
<1>2. IndInv /\ [Next]_vars => [MissOnlyBeforeStore]_vars
    BY <1>1 DEF MissOnlyBeforeStore
<1> QED
    BY Inductive, <1>2, PTL DEF Spec, CookieWindow
=============================================================================
