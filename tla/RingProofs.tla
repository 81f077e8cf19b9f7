----------------------------- MODULE RingProofs -----------------------------
(***************************************************************************)
(* Proofs about module Ring, for every capacity, every pool of buffers and *)
(* every counter width.  The inductive invariant is the conjunction of the *)
(* three invariants TLC checks: the window needs the types, and ownership  *)
(* needs the window to know that a push writes outside the events that     *)
(* stay.                                                                   *)
(***************************************************************************)
EXTENDS Ring, SequenceTheorems, TLAPS

IndInv == TypeOK /\ Window /\ Ownership

----------------------------------------------------------------------------
(* Arithmetic of the indices. *)

\* One turn past the end of the array.
LEMMA ModOnce ==
  ASSUME NEW x \in QUEUE_CAP .. (2 * QUEUE_CAP - 1)
  PROVE  x % QUEUE_CAP = x - QUEUE_CAP
BY CapAssumption

\* An index computed from a head and an offset wraps at most once.
LEMMA PosWraps ==
  ASSUME NEW h \in Index, NEW k \in 0 .. QUEUE_CAP
  PROVE  Pos(h, k) = IF h + k < QUEUE_CAP THEN h + k ELSE h + k - QUEUE_CAP
<1>1. CASE h + k < QUEUE_CAP
  BY <1>1, CapAssumption DEF Pos, Index
<1>2. CASE ~(h + k < QUEUE_CAP) /\ h + k < 2 * QUEUE_CAP
  <2>1. h + k \in QUEUE_CAP .. (2 * QUEUE_CAP - 1)
    BY <1>2, CapAssumption DEF Index
  <2>2. (h + k) % QUEUE_CAP = h + k - QUEUE_CAP
    BY <2>1, ModOnce, CapAssumption DEF Index
  <2> QED BY <1>2, <2>2 DEF Pos
<1>3. h + k < 2 * QUEUE_CAP
  BY CapAssumption DEF Index
<1> QED BY <1>1, <1>2, <1>3

\* It is an index of the array.
LEMMA PosType ==
  ASSUME NEW h \in Index, NEW k \in 0 .. QUEUE_CAP
  PROVE  Pos(h, k) \in Index
BY PosWraps, CapAssumption DEF Index

\* Succ is one slot ahead.
LEMMA SuccType ==
  ASSUME NEW h \in Index
  PROVE  /\ Succ(h) = Pos(h, 1)
         /\ Succ(h) \in Index
<1>1. Succ(h) = Pos(h, 1)
  BY DEF Succ, Pos
<1>2. 1 \in 0 .. QUEUE_CAP
  BY CapAssumption
<1> QED BY <1>1, <1>2, PosType

\* Advancing the head by one moves every offset by one.
LEMMA PosShift ==
  ASSUME NEW h \in Index, NEW k \in 0 .. QUEUE_CAP - 1
  PROVE  /\ Pos(Succ(h), k) = Pos(h, k + 1)
         /\ Succ(Pos(h, k)) = Pos(h, k + 1)
<1>1. k \in 0 .. QUEUE_CAP /\ k + 1 \in 0 .. QUEUE_CAP /\ 1 \in 0 .. QUEUE_CAP
  BY CapAssumption
<1>2. Succ(h) = IF h + 1 < QUEUE_CAP THEN h + 1 ELSE h + 1 - QUEUE_CAP
  BY <1>1, SuccType, PosWraps
<1>3. Pos(Succ(h), k) = IF Succ(h) + k < QUEUE_CAP THEN Succ(h) + k
                                                   ELSE Succ(h) + k - QUEUE_CAP
  BY <1>1, SuccType, PosWraps
<1>4. Pos(h, k + 1) = IF h + (k + 1) < QUEUE_CAP THEN h + (k + 1)
                                                 ELSE h + (k + 1) - QUEUE_CAP
  BY <1>1, PosWraps
<1>5. Pos(h, k) = IF h + k < QUEUE_CAP THEN h + k ELSE h + k - QUEUE_CAP
  BY <1>1, PosWraps
<1>6. Pos(h, k) \in Index
  BY <1>1, PosType
<1>7. Succ(Pos(h, k)) = IF Pos(h, k) + 1 < QUEUE_CAP THEN Pos(h, k) + 1
                                                     ELSE Pos(h, k) + 1 - QUEUE_CAP
  BY <1>1, <1>6, SuccType, PosWraps
<1> QED BY <1>2, <1>3, <1>4, <1>5, <1>7, CapAssumption DEF Index

\* Offsets less than the capacity select different slots.
LEMMA PosInjective ==
  ASSUME NEW h \in Index, NEW j \in 0 .. QUEUE_CAP - 1, NEW k \in 0 .. QUEUE_CAP - 1,
         Pos(h, j) = Pos(h, k)
  PROVE  j = k
<1>1. j \in 0 .. QUEUE_CAP /\ k \in 0 .. QUEUE_CAP
  BY CapAssumption
<1> QED BY <1>1, PosWraps, CapAssumption DEF Index

\* The capacity itself comes back to the head, and no offset is the head.
LEMMA PosEnds ==
  ASSUME NEW h \in Index
  PROVE  /\ Pos(h, 0) = h
         /\ Pos(h, QUEUE_CAP) = h
<1>1. 0 \in 0 .. QUEUE_CAP /\ QUEUE_CAP \in 0 .. QUEUE_CAP
  BY CapAssumption
<1> QED BY <1>1, PosWraps, CapAssumption DEF Index

\* The counter stays below its modulus.
LEMMA CountedType ==
  ASSUME DROP_COUNT \in 0 .. DROP_MOD - 1
  PROVE  Counted \in 0 .. DROP_MOD - 1
BY ModAssumption DEF Counted

----------------------------------------------------------------------------
(* The invariant. *)

\* The empty array satisfies the invariant.
LEMMA InitInv == Init => IndInv
<1> SUFFICES ASSUME Init PROVE IndInv
  OBVIOUS
<1>1. TypeOK
  BY CapAssumption, ModAssumption DEF Init, TypeOK, Index
<1>2. Window
  BY PosEnds, CapAssumption DEF Init, Window, At, Index
<1>3. Ownership
  BY DEF Init, Ownership
<1> QED BY <1>1, <1>2, <1>3 DEF IndInv

\* What a step that leaves the ring alone and moves no buffer in or out of it keeps.
LEMMA RingUntouched ==
  ASSUME IndInv,
         UNCHANGED <<QUEUE_BUF, QUEUE_HEAD, QUEUE_TAIL, QUEUE_LEN>>,
         pool' \in [Buffers -> {"free", "held", "queued", "popped"}],
         \A b \in Buffers : pool[b] = "queued" <=> pool'[b] = "queued"
  PROVE  Window' /\ Ownership'
<1>1. Window'
  BY DEF IndInv, Window, At
<1>2. \A j \in 0 .. QUEUE_LEN - 1 : At(j)' = At(j)
  BY DEF At
<1>3. \A j \in 0 .. QUEUE_LEN - 1 : QUEUE_BUF[At(j)].data \in Buffers
  BY DEF IndInv, Ownership, Slot
<1>4. Ownership'
  BY <1>2, <1>3 DEF IndInv, Ownership
<1> QED BY <1>1, <1>4

\* A push into a ring that has room.
LEMMA PushRoom ==
  ASSUME IndInv, NEW s \in Slot, pool[s.data] = "held",
         QUEUE_LEN # QUEUE_CAP,
         QUEUE_LEN' = QUEUE_LEN + 1,
         pool' = [pool EXCEPT ![s.data] = "queued"],
         UNCHANGED <<QUEUE_HEAD, DROP_COUNT, result>>,
         QUEUE_BUF' = [QUEUE_BUF EXCEPT ![QUEUE_TAIL] = s],
         QUEUE_TAIL' = Succ(QUEUE_TAIL)
  PROVE  /\ IndInv'
         /\ QUEUE_BUF'[At(QUEUE_LEN)] = s
         /\ \A j \in 0 .. QUEUE_LEN - 1 : QUEUE_BUF'[At(j)] = QUEUE_BUF[At(j)]
<1> USE CapAssumption DEF IndInv
<1>t. /\ QUEUE_HEAD \in Index /\ QUEUE_TAIL \in Index /\ QUEUE_LEN \in 0 .. QUEUE_CAP - 1
      /\ QUEUE_BUF \in [Index -> Slot \cup {UNINIT}]
      /\ s.data \in Buffers
      /\ pool \in [Buffers -> {"free", "held", "queued", "popped"}]
  BY DEF TypeOK, Slot
<1>1. QUEUE_TAIL = At(QUEUE_LEN)
  BY DEF Window
<1>2. \A j \in 0 .. QUEUE_LEN - 1 : At(j) # QUEUE_TAIL /\ At(j) \in Index
  <2> TAKE j \in 0 .. QUEUE_LEN - 1
  <2>1. j \in 0 .. QUEUE_CAP - 1 /\ j \in 0 .. QUEUE_CAP /\ j # QUEUE_LEN
    BY <1>t
  <2> QED BY <1>t, <1>1, <2>1, PosInjective, PosType DEF At
<1>3. QUEUE_BUF'[At(QUEUE_LEN)] = s
  BY <1>t, <1>1
<1>4. \A j \in 0 .. QUEUE_LEN - 1 : QUEUE_BUF'[At(j)] = QUEUE_BUF[At(j)]
  BY <1>t, <1>2
<1>5. TypeOK'
  BY <1>t, SuccType DEF TypeOK
<1>6. Window'
  BY <1>t, <1>1, PosShift DEF Window, At
<1>7. \A j \in 0 .. QUEUE_LEN' - 1 : At(j)' = At(j)
  BY DEF At
<1>8. \A j \in 0 .. QUEUE_LEN' - 1 : j = QUEUE_LEN \/ j \in 0 .. QUEUE_LEN - 1
  BY <1>t
<1>9. \A j \in 0 .. QUEUE_LEN - 1 : /\ QUEUE_BUF[At(j)] \in Slot
                                    /\ QUEUE_BUF[At(j)].data \in Buffers
                                    /\ pool[QUEUE_BUF[At(j)].data] = "queued"
                                    /\ QUEUE_BUF[At(j)].data # s.data
  BY DEF Ownership, Slot
<1>10. \A j \in 0 .. QUEUE_LEN' - 1 : /\ QUEUE_BUF'[At(j)'] \in Slot
                                      /\ pool'[QUEUE_BUF'[At(j)'].data] = "queued"
  BY <1>t, <1>3, <1>4, <1>7, <1>8, <1>9
<1>11. \A i, j \in 0 .. QUEUE_LEN' - 1 :
         QUEUE_BUF'[At(i)'].data = QUEUE_BUF'[At(j)'].data => i = j
  BY <1>3, <1>4, <1>7, <1>8, <1>9 DEF Ownership
<1>12. \A b \in Buffers : pool'[b] = "queued" =>
         \E j \in 0 .. QUEUE_LEN' - 1 : QUEUE_BUF'[At(j)'].data = b
  <2> SUFFICES ASSUME NEW b \in Buffers, pool'[b] = "queued"
               PROVE  \E j \in 0 .. QUEUE_LEN' - 1 : QUEUE_BUF'[At(j)'].data = b
    OBVIOUS
  <2>1. CASE b = s.data
    <3>1. QUEUE_LEN \in 0 .. QUEUE_LEN' - 1
      BY <1>t
    <3> QED BY <2>1, <3>1, <1>3, <1>7
  <2>2. CASE b # s.data
    <3>1. PICK j \in 0 .. QUEUE_LEN - 1 : QUEUE_BUF[At(j)].data = b
      BY <2>2, <1>t DEF Ownership
    <3>2. j \in 0 .. QUEUE_LEN' - 1
      BY <1>t
    <3> QED BY <3>1, <3>2, <1>4, <1>7
  <2> QED BY <2>1, <2>2
<1>13. Ownership'
  BY <1>10, <1>11, <1>12 DEF Ownership
<1> QED BY <1>3, <1>4, <1>5, <1>6, <1>13

\* A step that takes the oldest event out of the ring: what is left is the same
\* events, one offset earlier.
LEMMA Shift ==
  ASSUME IndInv, QUEUE_LEN # 0, QUEUE_HEAD' = Succ(QUEUE_HEAD)
  PROVE  /\ QUEUE_HEAD' \in Index
         /\ \A j \in 0 .. QUEUE_LEN - 1 : /\ At(j)' = At(j + 1)
                                          /\ At(j)' \in Index
         /\ At(0) = QUEUE_HEAD
         /\ QUEUE_BUF[QUEUE_HEAD] \in Slot
         /\ QUEUE_BUF[QUEUE_HEAD].data \in Buffers
         /\ pool[QUEUE_BUF[QUEUE_HEAD].data] = "queued"
         /\ \A j \in 1 .. QUEUE_LEN - 1 :
              QUEUE_BUF[At(j)].data # QUEUE_BUF[QUEUE_HEAD].data
<1> USE CapAssumption DEF IndInv
<1>1. QUEUE_HEAD \in Index /\ QUEUE_LEN \in 1 .. QUEUE_CAP
  BY DEF TypeOK
<1>2. QUEUE_HEAD' \in Index
  BY <1>1, SuccType
<1>3. \A j \in 0 .. QUEUE_LEN - 1 : At(j)' = At(j + 1) /\ At(j)' \in Index
  <2> TAKE j \in 0 .. QUEUE_LEN - 1
  <2>1. j \in 0 .. QUEUE_CAP - 1 /\ j \in 0 .. QUEUE_CAP
    BY <1>1
  <2> QED BY <1>1, <1>2, <2>1, PosShift, PosType DEF At
<1>4. At(0) = QUEUE_HEAD /\ 0 \in 0 .. QUEUE_LEN - 1
  BY <1>1, PosEnds DEF At
<1>5. /\ QUEUE_BUF[QUEUE_HEAD] \in Slot
      /\ QUEUE_BUF[QUEUE_HEAD].data \in Buffers
      /\ pool[QUEUE_BUF[QUEUE_HEAD].data] = "queued"
  BY <1>4 DEF Ownership, Slot
<1>6. ASSUME NEW j \in 1 .. QUEUE_LEN - 1
      PROVE  QUEUE_BUF[At(j)].data # QUEUE_BUF[QUEUE_HEAD].data
  <2>1. j \in 0 .. QUEUE_LEN - 1 /\ j # 0
    BY <1>1
  <2> QED BY <1>4, <2>1 DEF Ownership
<1> QED BY <1>2, <1>3, <1>4, <1>5, <1>6

\* A push into a full ring: the new event takes the slot of the evicted one.
LEMMA PushFull ==
  ASSUME IndInv, NEW s \in Slot, pool[s.data] = "held",
         QUEUE_LEN = QUEUE_CAP, EvictOldest(s),
         QUEUE_BUF' = [QUEUE_BUF EXCEPT ![QUEUE_TAIL] = s],
         QUEUE_TAIL' = Succ(QUEUE_TAIL), UNCHANGED result
  PROVE  /\ IndInv'
         /\ QUEUE_LEN' = QUEUE_LEN
         /\ QUEUE_BUF'[At(QUEUE_CAP - 1)'] = s
         /\ \A j \in 0 .. QUEUE_CAP - 2 : QUEUE_BUF'[At(j)'] = QUEUE_BUF[At(j + 1)]
<1> DEFINE old == QUEUE_BUF[QUEUE_HEAD].data
<1> USE CapAssumption DEF IndInv
<1>t. /\ QUEUE_HEAD \in Index /\ QUEUE_TAIL \in Index /\ QUEUE_LEN = QUEUE_CAP
      /\ QUEUE_BUF \in [Index -> Slot \cup {UNINIT}]
      /\ s.data \in Buffers
      /\ pool \in [Buffers -> {"free", "held", "queued", "popped"}]
  BY DEF TypeOK, Slot
<1>e. /\ QUEUE_HEAD' = Succ(QUEUE_HEAD)
      /\ QUEUE_LEN' = QUEUE_LEN
      /\ DROP_COUNT' = Counted
      /\ pool' = [FreeFrom(pool, old) EXCEPT ![s.data] = "queued"]
  BY <1>t DEF EvictOldest
<1>h. /\ QUEUE_HEAD' \in Index
      /\ \A j \in 0 .. QUEUE_CAP - 1 : At(j)' = At(j + 1) /\ At(j)' \in Index
      /\ At(0) = QUEUE_HEAD
      /\ old \in Buffers /\ pool[old] = "queued"
      /\ \A j \in 1 .. QUEUE_CAP - 1 : QUEUE_BUF[At(j)].data # old
  BY <1>t, <1>e, Shift
<1>p. /\ pool' \in [Buffers -> {"free", "held", "queued", "popped"}]
      /\ pool'[s.data] = "queued"
      /\ pool'[old] = "free"
      /\ \A b \in Buffers : b # s.data /\ b # old => pool'[b] = pool[b]
  BY <1>t, <1>e, <1>h DEF FreeFrom
<1>1. QUEUE_TAIL = QUEUE_HEAD /\ At(QUEUE_CAP - 1)' = QUEUE_TAIL
  <2>1. QUEUE_CAP - 1 \in 0 .. QUEUE_CAP - 1 /\ (QUEUE_CAP - 1) + 1 = QUEUE_CAP
    BY <1>t
  <2> QED BY <1>t, <1>h, <2>1, PosEnds DEF Window, At
<1>2. \A j \in 0 .. QUEUE_CAP - 2 : At(j + 1) # QUEUE_TAIL /\ At(j + 1) \in Index
  <2> TAKE j \in 0 .. QUEUE_CAP - 2
  <2>1. /\ j + 1 \in 0 .. QUEUE_CAP - 1 /\ j + 1 # 0 /\ 0 \in 0 .. QUEUE_CAP - 1
        /\ j + 1 \in 0 .. QUEUE_CAP
    BY <1>t
  <2>2. At(j + 1) # At(0)
    BY <1>t, <2>1, PosInjective DEF At
  <2>3. At(j + 1) \in Index
    BY <1>t, <2>1, PosType DEF At
  <2> QED BY <1>h, <1>1, <2>2, <2>3
<1>3. QUEUE_BUF'[At(QUEUE_CAP - 1)'] = s
  BY <1>t, <1>1
<1>4. \A j \in 0 .. QUEUE_CAP - 2 : QUEUE_BUF'[At(j)'] = QUEUE_BUF[At(j + 1)]
  <2> TAKE j \in 0 .. QUEUE_CAP - 2
  <2>1. j \in 0 .. QUEUE_CAP - 1
    BY <1>t
  <2> QED BY <1>t, <1>h, <1>2, <2>1
<1>5. TypeOK'
  BY <1>t, <1>e, <1>h, <1>p, SuccType, CountedType DEF TypeOK
<1>6. Window'
  <2>1. QUEUE_TAIL' = QUEUE_HEAD'
    BY <1>e, <1>1
  <2> QED BY <1>h, <1>e, <2>1, PosEnds DEF Window, At
<1>7. \A j \in 0 .. QUEUE_CAP - 1 : j = QUEUE_CAP - 1 \/ j \in 0 .. QUEUE_CAP - 2
  BY <1>t
<1>8. \A j \in 0 .. QUEUE_CAP - 2 : /\ QUEUE_BUF[At(j + 1)] \in Slot
                                    /\ QUEUE_BUF[At(j + 1)].data \in Buffers
                                    /\ pool[QUEUE_BUF[At(j + 1)].data] = "queued"
                                    /\ QUEUE_BUF[At(j + 1)].data # s.data
                                    /\ QUEUE_BUF[At(j + 1)].data # old
  <2> TAKE j \in 0 .. QUEUE_CAP - 2
  <2>1. j + 1 \in 0 .. QUEUE_CAP - 1 /\ j + 1 \in 1 .. QUEUE_CAP - 1
    BY <1>t
  <2> QED BY <1>h, <2>1 DEF Ownership, Slot
<1>9. \A j \in 0 .. QUEUE_CAP - 1 : /\ QUEUE_BUF'[At(j)'] \in Slot
                                     /\ pool'[QUEUE_BUF'[At(j)'].data] = "queued"
  <2> TAKE j \in 0 .. QUEUE_CAP - 1
  <2>1. CASE j = QUEUE_CAP - 1
    BY <2>1, <1>3, <1>p
  <2>2. CASE j \in 0 .. QUEUE_CAP - 2
    BY <2>2, <1>4, <1>8, <1>p
  <2> QED BY <2>1, <2>2, <1>7, <1>e
<1>10. ASSUME NEW i \in 0 .. QUEUE_CAP - 1, NEW j \in 0 .. QUEUE_CAP - 1,
              QUEUE_BUF'[At(i)'].data = QUEUE_BUF'[At(j)'].data
       PROVE  i = j
  <2>1. CASE i \in 0 .. QUEUE_CAP - 2 /\ j \in 0 .. QUEUE_CAP - 2
    <3>1. i + 1 \in 0 .. QUEUE_CAP - 1 /\ j + 1 \in 0 .. QUEUE_CAP - 1
      BY <1>t, <2>1
    <3>2. QUEUE_BUF[At(i + 1)].data = QUEUE_BUF[At(j + 1)].data
      BY <1>4, <1>10, <2>1
    <3>3. i + 1 = j + 1
      BY <3>1, <3>2 DEF Ownership
    <3> QED BY <3>3, <2>1, <1>t
  <2>2. CASE i = QUEUE_CAP - 1 /\ j \in 0 .. QUEUE_CAP - 2
    BY <2>2, <1>3, <1>4, <1>8, <1>10
  <2>3. CASE j = QUEUE_CAP - 1 /\ i \in 0 .. QUEUE_CAP - 2
    BY <2>3, <1>3, <1>4, <1>8, <1>10
  <2> QED BY <2>1, <2>2, <2>3, <1>7, <1>e
<1>11. ASSUME NEW b \in Buffers, pool'[b] = "queued"
       PROVE  \E j \in 0 .. QUEUE_CAP - 1 : QUEUE_BUF'[At(j)'].data = b
  <2>1. CASE b = s.data
    <3>1. QUEUE_CAP - 1 \in 0 .. QUEUE_CAP - 1
      BY <1>t, <1>e
    <3> QED BY <2>1, <3>1, <1>3
  <2>2. CASE b # s.data
    <3>1. b # old /\ pool[b] = "queued"
      BY <2>2, <1>11, <1>p
    <3>2. PICK m \in 0 .. QUEUE_CAP - 1 : QUEUE_BUF[At(m)].data = b
      BY <3>1 DEF Ownership
    <3>3. m # 0
      BY <3>1, <3>2, <1>h
    <3>4. m - 1 \in 0 .. QUEUE_CAP - 2 /\ m - 1 \in 0 .. QUEUE_CAP - 1 /\ (m - 1) + 1 = m
      BY <3>3, <1>t, <1>e
    <3>5. QUEUE_BUF'[At(m - 1)'].data = b
      BY <3>2, <3>4, <1>4
    <3> QED BY <3>4, <3>5
  <2> QED BY <2>1, <2>2
<1>12. Ownership'
  BY <1>e, <1>9, <1>10, <1>11 DEF Ownership
<1> QED BY <1>e, <1>3, <1>4, <1>5, <1>6, <1>12

\* A pop of a ring that is not empty.
LEMMA PopStep ==
  ASSUME IndInv, PopTake
  PROVE  /\ IndInv'
         /\ QUEUE_LEN' = QUEUE_LEN - 1
         /\ result' = QUEUE_BUF[At(0)]
         /\ \A j \in 0 .. QUEUE_LEN - 2 : QUEUE_BUF'[At(j)'] = QUEUE_BUF[At(j + 1)]
<1> DEFINE old == QUEUE_BUF[QUEUE_HEAD].data
<1> USE CapAssumption DEF IndInv
<1>t. /\ QUEUE_HEAD \in Index /\ QUEUE_TAIL \in Index /\ QUEUE_LEN \in 1 .. QUEUE_CAP
      /\ QUEUE_BUF \in [Index -> Slot \cup {UNINIT}]
      /\ pool \in [Buffers -> {"free", "held", "queued", "popped"}]
      /\ DROP_COUNT \in 0 .. DROP_MOD - 1
  BY DEF TypeOK, PopTake
<1>e. /\ QUEUE_LEN # 0
      /\ QUEUE_HEAD' = Succ(QUEUE_HEAD)
      /\ QUEUE_LEN' = QUEUE_LEN - 1
      /\ pool' = [pool EXCEPT ![old] = "popped"]
      /\ result' = QUEUE_BUF[QUEUE_HEAD]
      /\ UNCHANGED <<QUEUE_BUF, QUEUE_TAIL, DROP_COUNT>>
  BY DEF PopTake
<1>h. /\ QUEUE_HEAD' \in Index
      /\ \A j \in 0 .. QUEUE_LEN - 1 : At(j)' = At(j + 1) /\ At(j)' \in Index
      /\ At(0) = QUEUE_HEAD
      /\ QUEUE_BUF[QUEUE_HEAD] \in Slot
      /\ old \in Buffers /\ pool[old] = "queued"
      /\ \A j \in 1 .. QUEUE_LEN - 1 : QUEUE_BUF[At(j)].data # old
  BY <1>e, Shift
<1>1. TypeOK'
  <2>1. pool' \in [Buffers -> {"free", "held", "queued", "popped"}]
    BY <1>t, <1>e, <1>h
  <2> QED BY <1>t, <1>e, <1>h, <2>1 DEF TypeOK
<1>2. Window'
  <2>1. QUEUE_LEN - 1 \in 0 .. QUEUE_CAP - 1 /\ (QUEUE_LEN - 1) + 1 = QUEUE_LEN
    BY <1>t
  <2>2. Pos(Succ(QUEUE_HEAD), QUEUE_LEN - 1) = Pos(QUEUE_HEAD, QUEUE_LEN)
    BY <1>t, <2>1, PosShift
  <2> QED BY <1>e, <2>2 DEF Window, At
<1>3. \A j \in 0 .. QUEUE_LEN - 2 : /\ j \in 0 .. QUEUE_LEN - 1
                                    /\ j + 1 \in 0 .. QUEUE_LEN - 1
                                    /\ j + 1 \in 1 .. QUEUE_LEN - 1
  BY <1>t
<1>4. \A j \in 0 .. QUEUE_LEN - 2 : QUEUE_BUF'[At(j)'] = QUEUE_BUF[At(j + 1)]
  BY <1>e, <1>h, <1>3
<1>5. \A j \in 0 .. QUEUE_LEN - 2 : /\ QUEUE_BUF'[At(j)'] \in Slot
                                    /\ pool'[QUEUE_BUF'[At(j)'].data] = "queued"
  <2> TAKE j \in 0 .. QUEUE_LEN - 2
  <2>1. /\ QUEUE_BUF[At(j + 1)] \in Slot
        /\ pool[QUEUE_BUF[At(j + 1)].data] = "queued"
        /\ QUEUE_BUF[At(j + 1)].data # old
        /\ QUEUE_BUF[At(j + 1)].data \in Buffers
    BY <1>3, <1>h DEF Ownership, Slot
  <2> QED BY <2>1, <1>4, <1>e, <1>t, <1>h
<1>6. ASSUME NEW i \in 0 .. QUEUE_LEN - 2, NEW j \in 0 .. QUEUE_LEN - 2,
             QUEUE_BUF'[At(i)'].data = QUEUE_BUF'[At(j)'].data
      PROVE  i = j
  <2>1. QUEUE_BUF[At(i + 1)].data = QUEUE_BUF[At(j + 1)].data
    BY <1>4, <1>6
  <2>2. i + 1 = j + 1
    BY <1>3, <2>1 DEF Ownership
  <2> QED BY <2>2, <1>t
<1>7. ASSUME NEW b \in Buffers, pool'[b] = "queued"
      PROVE  \E j \in 0 .. QUEUE_LEN - 2 : QUEUE_BUF'[At(j)'].data = b
  <2>1. b # old /\ pool[b] = "queued"
    BY <1>7, <1>e, <1>t, <1>h
  <2>2. PICK m \in 0 .. QUEUE_LEN - 1 : QUEUE_BUF[At(m)].data = b
    BY <2>1 DEF Ownership
  <2>3. m # 0
    BY <2>1, <2>2, <1>h
  <2>4. m - 1 \in 0 .. QUEUE_LEN - 2 /\ (m - 1) + 1 = m
    BY <2>3, <1>t
  <2>5. QUEUE_BUF'[At(m - 1)'].data = b
    BY <2>2, <2>4, <1>4
  <2> QED BY <2>4, <2>5
<1>8. 0 .. QUEUE_LEN' - 1 = 0 .. QUEUE_LEN - 2
  BY <1>t, <1>e
<1>9. Ownership'
  BY <1>5, <1>6, <1>7, <1>8 DEF Ownership
<1> QED BY <1>e, <1>h, <1>1, <1>2, <1>4, <1>9

\* The invariant is inductive: one step per action.
LEMMA NextInv == IndInv /\ [Next]_vars => IndInv'
<1> SUFFICES ASSUME IndInv, [Next]_vars PROVE IndInv'
  OBVIOUS
<1> USE DEF IndInv
<1>t. pool \in [Buffers -> {"free", "held", "queued", "popped"}]
  BY DEF TypeOK
<1>1. ASSUME NEW b \in Buffers, AllocEvent(b) PROVE IndInv'
  <2>1. TypeOK'
    BY <1>1 DEF AllocEvent, TypeOK
  <2>2. Window' /\ Ownership'
    BY <1>1, <1>t, RingUntouched DEF AllocEvent
  <2> QED BY <2>1, <2>2
<1>2. ASSUME NEW b \in Buffers, MakeHeader(b) PROVE IndInv'
  <2>1. TypeOK'
    BY <1>2, ModAssumption DEF MakeHeader, TypeOK
  <2>2. Window' /\ Ownership'
    BY <1>2, <1>t, RingUntouched DEF MakeHeader
  <2> QED BY <2>1, <2>2
<1>3. ASSUME NEW b \in Buffers, FreePopped(b) PROVE IndInv'
  <2>1. TypeOK'
    BY <1>3 DEF FreePopped, FreeFrom, TypeOK
  <2>2. Window' /\ Ownership'
    BY <1>3, <1>t, RingUntouched DEF FreePopped, FreeFrom
  <2> QED BY <2>1, <2>2
<1>4. CASE AllocFail
  <2>1. TypeOK'
    BY <1>4, CountedType DEF AllocFail, TypeOK
  <2>2. Window' /\ Ownership'
    BY <1>4, <1>t, RingUntouched DEF AllocFail
  <2> QED BY <2>1, <2>2
<1>5. ASSUME NEW s \in Slot, queue_push_locked(s) PROVE IndInv'
  <2>1. CASE QUEUE_LEN = QUEUE_CAP
    BY <1>5, <2>1, PushFull DEF queue_push_locked, WriteIndex
  <2>2. CASE QUEUE_LEN # QUEUE_CAP
    BY <1>5, <2>2, PushRoom DEF queue_push_locked, WriteIndex
  <2> QED BY <2>1, <2>2
<1>6. CASE queue_pop_locked
  <2>1. CASE PopEmpty
    <3>1. TypeOK'
      BY <2>1 DEF PopEmpty, TypeOK
    <3>2. Window' /\ Ownership'
      BY <2>1, <1>t, RingUntouched DEF PopEmpty
    <3> QED BY <3>1, <3>2
  <2>2. CASE PopTake
    BY <2>2, PopStep
  <2> QED BY <1>6, <2>1, <2>2 DEF queue_pop_locked
<1>7. CASE UNCHANGED vars
  <2>1. TypeOK'
    BY <1>7 DEF vars, TypeOK
  <2>2. Window' /\ Ownership'
    BY <1>7, <1>t, RingUntouched DEF vars
  <2> QED BY <2>1, <2>2
<1> QED BY <1>1, <1>2, <1>3, <1>4, <1>5, <1>6, <1>7 DEF Next

\* The invariant holds throughout.
LEMMA RingInvariant == Spec => []IndInv
<1>1. Init => IndInv
  BY InitInv
<1>2. IndInv /\ [Next]_vars => IndInv'
  BY NextInv
<1> QED BY <1>1, <1>2, PTL DEF Spec

\* The index words stay in range for every capacity, and no buffer is freed twice.
THEOREM RingTypeCorrect == Spec => []TypeOK
<1>1. IndInv => TypeOK
  BY DEF IndInv
<1> QED BY <1>1, RingInvariant, PTL

\* Head, tail and length, which wrap separately from each other, agree.
THEOREM RingIndicesAgree == Spec => []Window
<1>1. IndInv => Window
  BY DEF IndInv
<1> QED BY <1>1, RingInvariant, PTL

\* The ring never reads a slot nobody wrote and never holds a freed buffer or the
\* same buffer twice.
THEOREM RingSafe == Spec => []Ownership
<1>1. IndInv => Ownership
  BY DEF IndInv
<1> QED BY <1>1, RingInvariant, PTL

----------------------------------------------------------------------------
(* Refinement. *)

\* The ring's contents are a sequence of slots.
LEMMA ContentsType ==
  ASSUME IndInv
  PROVE  /\ Contents \in Seq(Slot)
         /\ Len(Contents) = QUEUE_LEN
         /\ \A i \in 1 .. QUEUE_LEN : Contents[i] = QUEUE_BUF[At(i - 1)]
<1>1. QUEUE_LEN \in Nat
  BY DEF IndInv, TypeOK
<1>2. \A i \in 1 .. QUEUE_LEN : QUEUE_BUF[At(i - 1)] \in Slot
  <2> TAKE i \in 1 .. QUEUE_LEN
  <2>1. i - 1 \in 0 .. QUEUE_LEN - 1
    BY <1>1
  <2> QED BY <2>1 DEF IndInv, Ownership
<1>3. Contents \in [1 .. QUEUE_LEN -> Slot]
  BY <1>2 DEF Contents
<1>4. Contents \in Seq(Slot) /\ Len(Contents) = QUEUE_LEN
  BY <1>1, <1>3
<1> QED BY <1>4 DEF Contents

\* The same in the next state, with its index spelled out.
LEMMA ContentsTypePrimed ==
  ASSUME IndInv'
  PROVE  /\ Contents' \in Seq(Slot)
         /\ Len(Contents') = QUEUE_LEN'
         /\ \A i \in 1 .. QUEUE_LEN' : Contents'[i] = QUEUE_BUF'[Pos(QUEUE_HEAD', i - 1)]
<1>1. (IndInv => /\ Contents \in Seq(Slot) /\ Len(Contents) = QUEUE_LEN
                 /\ \A i \in 1 .. QUEUE_LEN : Contents[i] = QUEUE_BUF[At(i - 1)])'
  BY ContentsType, PTL
<1> QED BY <1>1 DEF At

\* A step that changes neither the array nor the indices keeps the contents.
LEMMA ContentsUnchanged ==
  ASSUME UNCHANGED <<QUEUE_BUF, QUEUE_HEAD, QUEUE_LEN>>
  PROVE  Contents' = Contents
BY DEF Contents, At

\* A push into a ring with room appends.
LEMMA PushRoomAppends ==
  ASSUME IndInv, NEW s \in Slot, queue_push_locked(s), QUEUE_LEN # QUEUE_CAP
  PROVE  Contents' = Append(Contents, s)
<1>1. /\ IndInv'
      /\ QUEUE_BUF'[At(QUEUE_LEN)] = s
      /\ \A j \in 0 .. QUEUE_LEN - 1 : QUEUE_BUF'[At(j)] = QUEUE_BUF[At(j)]
  BY PushRoom DEF queue_push_locked, WriteIndex
<1>2. QUEUE_LEN' = QUEUE_LEN + 1 /\ QUEUE_HEAD' = QUEUE_HEAD /\ QUEUE_LEN \in Nat
  BY DEF queue_push_locked, IndInv, TypeOK
<1>3. /\ Contents \in Seq(Slot) /\ Len(Contents) = QUEUE_LEN
      /\ \A i \in 1 .. QUEUE_LEN : Contents[i] = QUEUE_BUF[At(i - 1)]
  BY ContentsType
<1>4. /\ Contents' \in Seq(Slot) /\ Len(Contents') = QUEUE_LEN'
      /\ \A i \in 1 .. QUEUE_LEN' : Contents'[i] = QUEUE_BUF'[Pos(QUEUE_HEAD', i - 1)]
  BY <1>1, ContentsTypePrimed
<1>5. /\ Append(Contents, s) \in Seq(Slot)
      /\ Len(Append(Contents, s)) = QUEUE_LEN + 1
      /\ \A i \in 1 .. QUEUE_LEN : Append(Contents, s)[i] = Contents[i]
      /\ Append(Contents, s)[QUEUE_LEN + 1] = s
  BY <1>2, <1>3
<1>6. ASSUME NEW i \in 1 .. QUEUE_LEN + 1
      PROVE  Contents'[i] = Append(Contents, s)[i]
  <2>1. CASE i = QUEUE_LEN + 1
    BY <2>1, <1>1, <1>2, <1>4, <1>5 DEF At
  <2>2. CASE i \in 1 .. QUEUE_LEN
    <3>1. i - 1 \in 0 .. QUEUE_LEN - 1
      BY <2>2, <1>2
    <3> QED BY <2>2, <3>1, <1>1, <1>2, <1>3, <1>4, <1>5 DEF At
  <2>3. i = QUEUE_LEN + 1 \/ i \in 1 .. QUEUE_LEN
    BY <1>2
  <2> QED BY <2>1, <2>2, <2>3
<1> QED BY <1>2, <1>4, <1>5, <1>6, SeqEqual

\* A push into a full ring drops the oldest event and appends.
LEMMA PushFullDropsOldest ==
  ASSUME IndInv, NEW s \in Slot, queue_push_locked(s), QUEUE_LEN = QUEUE_CAP
  PROVE  Contents' = Append(Tail(Contents), s)
<1>1. /\ IndInv'
      /\ QUEUE_LEN' = QUEUE_LEN
      /\ QUEUE_BUF'[At(QUEUE_CAP - 1)'] = s
      /\ \A j \in 0 .. QUEUE_CAP - 2 : QUEUE_BUF'[At(j)'] = QUEUE_BUF[At(j + 1)]
  BY PushFull DEF queue_push_locked, WriteIndex
<1>2. /\ Contents \in Seq(Slot) /\ Len(Contents) = QUEUE_CAP /\ Contents # << >>
      /\ \A i \in 1 .. QUEUE_CAP : Contents[i] = QUEUE_BUF[At(i - 1)]
  BY ContentsType, CapAssumption
<1>3. /\ Contents' \in Seq(Slot) /\ Len(Contents') = QUEUE_CAP
      /\ \A i \in 1 .. QUEUE_CAP : Contents'[i] = QUEUE_BUF'[Pos(QUEUE_HEAD', i - 1)]
  BY <1>1, ContentsTypePrimed
<1>4. /\ Tail(Contents) \in Seq(Slot)
      /\ Len(Tail(Contents)) = QUEUE_CAP - 1
      /\ \A i \in 1 .. QUEUE_CAP - 1 : Tail(Contents)[i] = Contents[i + 1]
  BY <1>2, HeadTailProperties, CapAssumption
<1>5. /\ Append(Tail(Contents), s) \in Seq(Slot)
      /\ Len(Append(Tail(Contents), s)) = QUEUE_CAP
      /\ \A i \in 1 .. QUEUE_CAP - 1 : Append(Tail(Contents), s)[i] = Tail(Contents)[i]
      /\ Append(Tail(Contents), s)[QUEUE_CAP] = s
  BY <1>4, CapAssumption
<1>6. ASSUME NEW i \in 1 .. QUEUE_CAP
      PROVE  Contents'[i] = Append(Tail(Contents), s)[i]
  <2>1. CASE i = QUEUE_CAP
    BY <2>1, <1>1, <1>3, <1>5 DEF At
  <2>2. CASE i \in 1 .. QUEUE_CAP - 1
    <3>1. /\ i - 1 \in 0 .. QUEUE_CAP - 2
          /\ (i - 1) + 1 = i /\ (i + 1) - 1 = i
          /\ i + 1 \in 1 .. QUEUE_CAP
      BY <2>2, CapAssumption
    <3>2. Contents'[i] = QUEUE_BUF[At(i)]
      BY <3>1, <1>1, <1>3 DEF At
    <3>3. Contents[i + 1] = QUEUE_BUF[At(i)]
      BY <3>1, <1>2
    <3> QED BY <2>2, <3>2, <3>3, <1>4, <1>5
  <2>3. i = QUEUE_CAP \/ i \in 1 .. QUEUE_CAP - 1
    BY CapAssumption
  <2> QED BY <2>1, <2>2, <2>3
<1> QED BY <1>3, <1>5, <1>6, SeqEqual

\* A pop of a ring that is not empty returns the oldest event and drops it.
LEMMA PopTakesOldest ==
  ASSUME IndInv, PopTake
  PROVE  /\ Contents # << >>
         /\ Contents' = Tail(Contents)
         /\ result' = Head(Contents)
<1>1. /\ IndInv'
      /\ QUEUE_LEN' = QUEUE_LEN - 1
      /\ result' = QUEUE_BUF[At(0)]
      /\ \A j \in 0 .. QUEUE_LEN - 2 : QUEUE_BUF'[At(j)'] = QUEUE_BUF[At(j + 1)]
  BY PopStep
<1>2. QUEUE_LEN \in Nat \ {0}
  BY DEF PopTake, IndInv, TypeOK
<1>3. /\ Contents \in Seq(Slot) /\ Len(Contents) = QUEUE_LEN /\ Contents # << >>
      /\ \A i \in 1 .. QUEUE_LEN : Contents[i] = QUEUE_BUF[At(i - 1)]
  BY <1>2, ContentsType
<1>4. /\ Contents' \in Seq(Slot) /\ Len(Contents') = QUEUE_LEN - 1
      /\ \A i \in 1 .. QUEUE_LEN - 1 : Contents'[i] = QUEUE_BUF'[Pos(QUEUE_HEAD', i - 1)]
  BY <1>1, ContentsTypePrimed
<1>5. /\ Tail(Contents) \in Seq(Slot)
      /\ Len(Tail(Contents)) = QUEUE_LEN - 1
      /\ \A i \in 1 .. QUEUE_LEN - 1 : Tail(Contents)[i] = Contents[i + 1]
  BY <1>2, <1>3, HeadTailProperties
<1>6. ASSUME NEW i \in 1 .. QUEUE_LEN - 1
      PROVE  Contents'[i] = Tail(Contents)[i]
  <2>1. /\ i - 1 \in 0 .. QUEUE_LEN - 2
        /\ (i - 1) + 1 = i /\ (i + 1) - 1 = i
        /\ i + 1 \in 1 .. QUEUE_LEN
    BY <1>2
  <2>2. Contents'[i] = QUEUE_BUF[At(i)]
    BY <2>1, <1>1, <1>4 DEF At
  <2>3. Contents[i + 1] = QUEUE_BUF[At(i)]
    BY <2>1, <1>3
  <2> QED BY <2>2, <2>3, <1>5
<1>7. Contents' = Tail(Contents)
  BY <1>4, <1>5, <1>6, SeqEqual
<1>8. result' = Head(Contents)
  <2>1. Contents[1] = QUEUE_BUF[At(0)]
    BY <1>2, <1>3
  <2> QED BY <2>1, <1>1, <1>3
<1> QED BY <1>3, <1>7, <1>8

\* Every step of the ring is a step of the abstract queue, or changes nothing of it.
LEMMA StepRefines == IndInv /\ [Next]_vars => [Abstract!Next]_(Abstract!vars)
<1> SUFFICES ASSUME IndInv, [Next]_vars PROVE [Abstract!Next]_(Abstract!vars)
  OBVIOUS
<1> USE DEF Abstract!vars
<1>1. ASSUME NEW b \in Buffers, AllocEvent(b) \/ FreePopped(b)
      PROVE  UNCHANGED Abstract!vars
  BY <1>1, ContentsUnchanged DEF AllocEvent, FreePopped
<1>2. ASSUME NEW b \in Buffers, MakeHeader(b)
      PROVE  Abstract!Report
  BY <1>2, ContentsUnchanged DEF MakeHeader, Abstract!Report
<1>3. ASSUME AllocFail
      PROVE  Abstract!Lose
  BY <1>3, ContentsUnchanged DEF AllocFail, Counted, Abstract!Lose
<1>4. ASSUME NEW s \in Slot, queue_push_locked(s)
      PROVE  Abstract!Push(s)
  <2>1. Len(Contents) = QUEUE_LEN
    BY ContentsType
  <2>2. CASE QUEUE_LEN = QUEUE_CAP
    <3>1. DROP_COUNT' = (DROP_COUNT + 1) % DROP_MOD
      BY <1>4, <2>2 DEF queue_push_locked, EvictOldest, Counted
    <3> QED BY <1>4, <2>1, <2>2, <3>1, PushFullDropsOldest DEF queue_push_locked, Abstract!Push
  <2>3. CASE QUEUE_LEN # QUEUE_CAP
    BY <1>4, <2>1, <2>3, PushRoomAppends DEF queue_push_locked, Abstract!Push
  <2> QED BY <2>2, <2>3
<1>5. ASSUME queue_pop_locked
      PROVE  Abstract!Pop
  <2>1. CASE PopEmpty
    <3>1. Contents = << >>
      BY <2>1, ContentsType DEF PopEmpty
    <3> QED BY <2>1, <3>1, ContentsUnchanged DEF PopEmpty, Abstract!Pop
  <2>2. CASE PopTake
    BY <2>2, PopTakesOldest DEF PopTake, Abstract!Pop
  <2> QED BY <1>5, <2>1, <2>2 DEF queue_pop_locked
<1>6. ASSUME UNCHANGED vars
      PROVE  UNCHANGED Abstract!vars
  BY <1>6, ContentsUnchanged DEF vars
<1> QED BY <1>1, <1>2, <1>3, <1>4, <1>5, <1>6 DEF Next, Abstract!Next

\* The array, its head, tail and length words and the wrapping counter implement
\* the bounded drop-oldest queue, for every capacity.
THEOREM RingRefines == Spec => ImplementsEventQueue
<1>1. Init => Abstract!Init
  <2> SUFFICES ASSUME Init PROVE Abstract!Init
    OBVIOUS
  <2>1. Contents = << >>
    BY InitInv, ContentsType DEF Init
  <2> QED BY <2>1 DEF Init, Abstract!Init
<1>2. IndInv /\ [Next]_vars => [Abstract!Next]_(Abstract!vars)
  BY StepRefines
<1> QED BY <1>1, <1>2, RingInvariant, PTL DEF Spec, ImplementsEventQueue, Abstract!Spec
=============================================================================
