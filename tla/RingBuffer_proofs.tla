-------------------------- MODULE RingBuffer_proofs --------------------------
(* Proofs about RingBuffer, for every ring size, every set of writers and  *)
(* every txMemory.                                                         *)
EXTENDS RingBuffer, TLAPS

LEMMA SuccType == \A i \in Index : Succ(i) \in Index /\ Succ(i) # i
  BY RingAssumption DEF Index, Succ

LEMMA InitType == Init => TypeOK
<1> USE RingAssumption DEF Init, TypeOK, Index, Slot, EmptySlot
<1>1. ASSUME Init PROVE TypeOK
  BY <1>1
<1> QED BY <1>1

LEMMA StepType == TypeOK /\ [Next]_vars => TypeOK'
<1> SUFFICES ASSUME TypeOK, [Next]_vars PROVE TypeOK'
  OBVIOUS
<1> USE SuccType, RingAssumption DEF TypeOK, ringVars, InStore, InSweep
<1>1. ASSUME NEW w \in Writers, NEW m \in Message, Prepare(w, m) PROVE TypeOK'
  BY <1>1 DEF Prepare, Message
<1>2. ASSUME NEW w \in Writers, Drop(w) PROVE TypeOK'
  BY <1>2 DEF Drop
<1>3. ASSUME NEW w \in Writers, BeginSweep(w) PROVE TypeOK'
  BY <1>3 DEF BeginSweep
<1>4. ASSUME NEW w \in Writers, BeginStore(w) PROVE TypeOK'
  BY <1>4 DEF BeginStore
<1>5. ASSUME NEW w \in Writers, SweepTest(w) PROVE TypeOK'
  BY <1>5 DEF SweepTest
<1>6. ASSUME NEW w \in Writers, SweepFree(w) PROVE TypeOK'
  BY <1>6 DEF SweepFree
<1>7. ASSUME NEW w \in Writers, SweepClear(w) PROVE TypeOK'
  BY <1>7 DEF SweepClear, Slot
<1>8. ASSUME NEW w \in Writers, SweepNext(w) PROVE TypeOK'
  BY <1>8 DEF SweepNext
<1>9. ASSUME NEW w \in Writers, StoreType(w) PROVE TypeOK'
  BY <1>9 DEF StoreType, Slot, Message, EmptySlot, Types
<1>10. ASSUME NEW w \in Writers, StoreAddr(w) PROVE TypeOK'
  BY <1>10 DEF StoreAddr, Slot, Message, EmptySlot
<1>11. ASSUME NEW w \in Writers, Publish(w) PROVE TypeOK'
  BY <1>11 DEF Publish
<1>12. CASE ringBufferReadBegin
  BY <1>12 DEF ringBufferReadBegin
<1>13. CASE ReadEndType
  BY <1>13 DEF ReadEndType, Slot
<1>14. CASE ReadEndIndex
  BY <1>14 DEF ReadEndIndex
<1>15. CASE UNCHANGED vars
  BY <1>15 DEF vars
<1> QED
  BY <1>1, <1>2, <1>3, <1>4, <1>5, <1>6, <1>7, <1>8, <1>9, <1>10, <1>11,
     <1>12, <1>13, <1>14, <1>15 DEF Next, Enter, Inside, Reader

(* Every field keeps its type, whichever way ringBufferLock is built.      *)
THEOREM TypeCorrect == Spec => []TypeOK
  BY InitType, StepType, PTL DEF Spec

-----------------------------------------------------------------------------
(* Arithmetic of the ring.                                                 *)

LEMMA FullTest == \A r, w \in Index : (w + 1) % Size = r <=> Succ(w) = r
<1> SUFFICES ASSUME NEW r \in Index, NEW w \in Index
             PROVE  (w + 1) % Size = Succ(w)
  OBVIOUS
<1>1. CASE w + 1 = Size
  BY <1>1, RingAssumption DEF Succ, Index
<1>2. CASE w + 1 # Size
  BY <1>2, RingAssumption DEF Succ, Index
<1> QED BY <1>1, <1>2

(* Publishing a message adds the slot at write to those in use.            *)
LEMMA UseAfterPublish ==
  ASSUME NEW r \in Index, NEW w \in Index, NEW i \in Index, Succ(w) # r
  PROVE  Dist(r, i) < Dist(r, Succ(w)) <=> Dist(r, i) < Dist(r, w) \/ i = w
  BY RingAssumption DEF Index, Succ, Dist

(* Releasing a message removes the slot at read.                           *)
LEMMA UseAfterRelease ==
  ASSUME NEW r \in Index, NEW w \in Index, NEW i \in Index, r # w
  PROVE  Dist(Succ(r), i) < Dist(Succ(r), w) <=> Dist(r, i) < Dist(r, w) /\ i # r
  BY RingAssumption DEF Index, Succ, Dist

LEMMA WriteSlotFree ==
  ASSUME NEW r \in Index, NEW w \in Index
  PROVE  /\ ~(Dist(r, w) < Dist(r, w))
         /\ \A i \in Index : ~(Dist(w, i) < Dist(w, w))
  BY RingAssumption DEF Index, Dist

LEMMA ReadSlotUsed ==
  ASSUME NEW r \in Index, NEW w \in Index, r # w
  PROVE  Dist(r, r) < Dist(r, w)
  BY RingAssumption DEF Index, Dist

(* The sweep moves through the free slots, away from write ...             *)
LEMMA SweepAdvances ==
  ASSUME NEW r \in Index, NEW w \in Index, NEW s \in Index,
         ~(Dist(r, s) < Dist(r, w)), Succ(s) # r
  PROVE  /\ ~(Dist(r, Succ(s)) < Dist(r, w))
         /\ \A i \in Index : Dist(w, i) < Dist(w, Succ(s)) => Dist(w, i) < Dist(w, s) \/ i = s
  BY RingAssumption DEF Index, Succ, Dist

(* ... and when it meets the reader it has passed the next two slots that  *)
(* will be written.                                                        *)
LEMMA SweepPassedTwo ==
  ASSUME NEW r \in Index, NEW w \in Index, NEW s \in Index,
         ~(Dist(r, s) < Dist(r, w)), Succ(s) = r, Succ(w) # r
  PROVE  /\ Dist(w, w) < Dist(w, s) \/ w = s
         /\ Dist(w, Succ(w)) < Dist(w, s) \/ Succ(w) = s
  BY RingAssumption DEF Index, Succ, Dist

-----------------------------------------------------------------------------
(* Every action preserves the inductive invariant when ringBufferLock is   *)
(* exclusive: a lemma per action, a step per conjunct of IInv.             *)

LEMMA PrepareInv ==
  ASSUME ExclusiveLock, IInv, NEW w \in Writers, NEW m \in Message, Prepare(w, m), TypeOK'
  PROVE  IInv'
<1> USE SuccType, RingAssumption DEF IInv, TypeOK, Prepare, ringVars, Busy, InStore, InSweep
<1>1. OneHolder'
  BY DEF OneHolder
<1>2. RoomInside'
  BY DEF RoomInside, isFull
<1>3. ReaderHasMessage'
  BY DEF ReaderHasMessage, isEmpty
<1>4. FreeSlotsEmpty'
  BY DEF FreeSlotsEmpty, InUse
<1>5. SweepPosition'
  BY DEF SweepPosition, InUse
<1>6. SlotBlocks'
  BY DEF SlotBlocks, Clearing
<1>7. WriterBlocks'
  BY DEF SlotBlocks, Message, EmptySlot, WriterBlocks, Clearing
<1>8. SlotsReserved'
  BY DEF SlotsReserved, SweepDue
<1>9. BlocksReachable'
  BY DEF WriterBlocks, SlotBlocks, Message, EmptySlot, BlocksReachable, Clearing
<1>10. MessagesWhole'
  BY DEF OneHolder, Message, MessagesWhole, InUse
<1> QED
  BY <1>1, <1>2, <1>3, <1>4, <1>5, <1>6, <1>7, <1>8, <1>9, <1>10

LEMMA DropInv ==
  ASSUME ExclusiveLock, IInv, NEW w \in Writers, Drop(w), TypeOK'
  PROVE  IInv'
<1> USE SuccType, RingAssumption DEF IInv, TypeOK, Drop, ringVars, Busy, InStore, InSweep
<1>1. OneHolder'
  BY DEF OneHolder, LockAvailable, OneHolder
<1>2. RoomInside'
  BY DEF OneHolder, LockAvailable, RoomInside, isFull
<1>3. ReaderHasMessage'
  BY DEF ReaderHasMessage, isEmpty
<1>4. FreeSlotsEmpty'
  BY DEF OneHolder, LockAvailable, FreeSlotsEmpty, InUse
<1>5. SweepPosition'
  BY DEF OneHolder, LockAvailable, SweepPosition, InUse
<1>6. SlotBlocks'
  BY DEF OneHolder, LockAvailable, WriterBlocks, EmptySlot, SlotBlocks, Clearing
<1>7. WriterBlocks'
  BY DEF OneHolder, LockAvailable, EmptySlot, WriterBlocks, Clearing
<1>8. SlotsReserved'
  BY DEF OneHolder, LockAvailable, SlotsReserved, SweepDue
<1>9. BlocksReachable'
  BY DEF OneHolder, LockAvailable, WriterBlocks, EmptySlot, BlocksReachable, Clearing
<1>10. MessagesWhole'
  BY DEF OneHolder, LockAvailable, MessagesWhole, InUse
<1> QED
  BY <1>1, <1>2, <1>3, <1>4, <1>5, <1>6, <1>7, <1>8, <1>9, <1>10

LEMMA BeginSweepInv ==
  ASSUME ExclusiveLock, IInv, NEW w \in Writers, BeginSweep(w), TypeOK'
  PROVE  IInv'
<1> USE SuccType, RingAssumption DEF IInv, TypeOK, BeginSweep, ringVars, Busy, InStore, InSweep
<1>1. OneHolder'
  BY DEF OneHolder, LockAvailable, OneHolder
<1>2. RoomInside'
  BY DEF OneHolder, LockAvailable, RoomInside, isFull
<1>3. ReaderHasMessage'
  BY DEF ReaderHasMessage, isEmpty
<1>4. FreeSlotsEmpty'
  BY DEF OneHolder, LockAvailable, FreeSlotsEmpty, InUse
<1>5. SweepPosition'
  <2>1. sweep' = [sweep EXCEPT ![w] = write] /\ UNCHANGED ringVars
    OBVIOUS
  <2>2. ~InUse(write) /\ \A i \in Index : ~(Dist(write, i) < Dist(write, write))
    BY WriteSlotFree DEF InUse
  <2> QED
    BY <2>1, <2>2 DEF OneHolder, LockAvailable, SweepPosition, InUse
<1>6. SlotBlocks'
  BY DEF OneHolder, LockAvailable, SlotBlocks, Clearing
<1>7. WriterBlocks'
  BY DEF OneHolder, LockAvailable, WriterBlocks, Clearing
<1>8. SlotsReserved'
  BY DEF OneHolder, LockAvailable, SlotsReserved, SweepDue
<1>9. BlocksReachable'
  BY DEF OneHolder, LockAvailable, BlocksReachable, Clearing
<1>10. MessagesWhole'
  BY DEF OneHolder, LockAvailable, MessagesWhole, InUse
<1> QED
  BY <1>1, <1>2, <1>3, <1>4, <1>5, <1>6, <1>7, <1>8, <1>9, <1>10

LEMMA BeginStoreInv ==
  ASSUME ExclusiveLock, IInv, NEW w \in Writers, BeginStore(w), TypeOK'
  PROVE  IInv'
<1> USE SuccType, RingAssumption DEF IInv, TypeOK, BeginStore, ringVars, Busy, InStore, InSweep
<1>1. OneHolder'
  BY DEF OneHolder, LockAvailable, OneHolder
<1>2. RoomInside'
  BY DEF OneHolder, LockAvailable, RoomInside, isFull
<1>3. ReaderHasMessage'
  BY DEF ReaderHasMessage, isEmpty
<1>4. FreeSlotsEmpty'
  BY DEF OneHolder, LockAvailable, FreeSlotsEmpty, InUse
<1>5. SweepPosition'
  BY DEF OneHolder, LockAvailable, SweepPosition, InUse
<1>6. SlotBlocks'
  BY DEF OneHolder, LockAvailable, SlotBlocks, Clearing
<1>7. WriterBlocks'
  BY DEF OneHolder, LockAvailable, WriterBlocks, Clearing
<1>8. SlotsReserved'
  BY DEF OneHolder, LockAvailable, SlotsReserved, SweepDue
<1>9. BlocksReachable'
  BY DEF OneHolder, LockAvailable, BlocksReachable, Clearing
<1>10. MessagesWhole'
  BY DEF OneHolder, LockAvailable, MessagesWhole, InUse
<1> QED
  BY <1>1, <1>2, <1>3, <1>4, <1>5, <1>6, <1>7, <1>8, <1>9, <1>10

LEMMA SweepTestInv ==
  ASSUME ExclusiveLock, IInv, NEW w \in Writers, SweepTest(w), TypeOK'
  PROVE  IInv'
<1> USE SuccType, RingAssumption DEF IInv, TypeOK, SweepTest, ringVars, Busy, InStore, InSweep
<1>1. OneHolder'
  BY DEF OneHolder
<1>2. RoomInside'
  BY DEF OneHolder, RoomInside, isFull
<1>3. ReaderHasMessage'
  BY DEF OneHolder, ReaderHasMessage, isEmpty
<1>4. FreeSlotsEmpty'
  BY DEF OneHolder, FreeSlotsEmpty, InUse
<1>5. SweepPosition'
  BY DEF OneHolder, FreeSlotsEmpty, SweepPosition, InUse
<1>6. SlotBlocks'
  BY DEF OneHolder, SlotBlocks, Clearing
<1>7. WriterBlocks'
  BY DEF OneHolder, WriterBlocks, Clearing
<1>8. SlotsReserved'
  BY DEF OneHolder, SlotsReserved, SweepDue
<1>9. BlocksReachable'
  BY DEF OneHolder, BlocksReachable, Clearing
<1>10. MessagesWhole'
  BY DEF OneHolder, MessagesWhole, InUse
<1> QED
  BY <1>1, <1>2, <1>3, <1>4, <1>5, <1>6, <1>7, <1>8, <1>9, <1>10

LEMMA SweepFreeInv ==
  ASSUME ExclusiveLock, IInv, NEW w \in Writers, SweepFree(w), TypeOK'
  PROVE  IInv'
<1> USE SuccType, RingAssumption DEF IInv, TypeOK, SweepFree, ringVars, Busy, InStore, InSweep
<1>1. OneHolder'
  BY DEF OneHolder
<1>2. RoomInside'
  BY DEF OneHolder, RoomInside, isFull
<1>3. ReaderHasMessage'
  BY DEF OneHolder, ReaderHasMessage, isEmpty
<1>4. FreeSlotsEmpty'
  BY DEF OneHolder, FreeSlotsEmpty, InUse
<1>5. SweepPosition'
  BY DEF OneHolder, SweepPosition, InUse
<1>6. SlotBlocks'
  BY DEF OneHolder, SweepPosition, SlotBlocks, Clearing
<1>7. WriterBlocks'
  BY DEF OneHolder, SlotBlocks, SweepPosition, WriterBlocks, Clearing
<1>8. SlotsReserved'
  BY DEF OneHolder, SlotsReserved, SweepDue
<1>9. BlocksReachable'
  BY DEF OneHolder, SlotBlocks, SweepPosition, BlocksReachable, Clearing
<1>10. MessagesWhole'
  BY DEF OneHolder, MessagesWhole, InUse
<1> QED
  BY <1>1, <1>2, <1>3, <1>4, <1>5, <1>6, <1>7, <1>8, <1>9, <1>10

LEMMA SweepClearInv ==
  ASSUME ExclusiveLock, IInv, NEW w \in Writers, SweepClear(w), TypeOK'
  PROVE  IInv'
<1> USE SuccType, RingAssumption DEF IInv, TypeOK, SweepClear, ringVars, Busy, InStore, InSweep
<1>1. OneHolder'
  BY DEF OneHolder
<1>2. RoomInside'
  BY DEF OneHolder, RoomInside, isFull
<1>3. ReaderHasMessage'
  BY DEF Slot, ReaderHasMessage, isEmpty
<1>4. FreeSlotsEmpty'
  BY DEF OneHolder, Slot, FreeSlotsEmpty, InUse
<1>5. SweepPosition'
  BY DEF OneHolder, Slot, SweepPosition, InUse
<1>6. SlotBlocks'
  BY DEF OneHolder, Slot, SlotBlocks, Clearing
<1>7. WriterBlocks'
  BY DEF OneHolder, Slot, WriterBlocks, Clearing
<1>8. SlotsReserved'
  BY DEF OneHolder, Slot, SlotsReserved, SweepDue
<1>9. BlocksReachable'
  BY DEF OneHolder, SlotBlocks, WriterBlocks, Slot, BlocksReachable, Clearing
<1>10. MessagesWhole'
  BY DEF OneHolder, Slot, MessagesWhole, InUse
<1> QED
  BY <1>1, <1>2, <1>3, <1>4, <1>5, <1>6, <1>7, <1>8, <1>9, <1>10

LEMMA SweepNextInv ==
  ASSUME ExclusiveLock, IInv, NEW w \in Writers, SweepNext(w), TypeOK'
  PROVE  IInv'
<1> USE SuccType, RingAssumption DEF IInv, TypeOK, SweepNext, ringVars, Busy, InStore, InSweep
<1>1. OneHolder'
  BY DEF OneHolder
<1>2. RoomInside'
  BY DEF OneHolder, RoomInside, isFull
<1>3. ReaderHasMessage'
  BY DEF OneHolder, ReaderHasMessage, isEmpty
<1>4. FreeSlotsEmpty'
  BY DEF OneHolder, FreeSlotsEmpty, InUse
<1>5. SweepPosition'
  <2>1. CASE Succ(sweep[w]) = read
    BY <2>1 DEF OneHolder, SweepPosition
  <2>2. CASE Succ(sweep[w]) # read
    <3>1. /\ ~InUse(Succ(sweep[w]))
          /\ \A i \in Index : Dist(write, i) < Dist(write, Succ(sweep[w])) =>
               Dist(write, i) < Dist(write, sweep[w]) \/ i = sweep[w]
      BY <2>2, SweepAdvances DEF SweepPosition, InUse
    <3> QED
      BY <2>2, <3>1 DEF OneHolder, SweepPosition, InUse
  <2> QED BY <2>1, <2>2
<1>6. SlotBlocks'
  BY DEF OneHolder, SlotBlocks, Clearing
<1>7. WriterBlocks'
  BY DEF OneHolder, WriterBlocks, Clearing
<1>8. SlotsReserved'
  <2>1. CASE Succ(sweep[w]) = read
    <3>1. Succ(write) # read
      BY FullTest DEF RoomInside, isFull
    <3>2. /\ Dist(write, write) < Dist(write, sweep[w]) \/ write = sweep[w]
          /\ Dist(write, Succ(write)) < Dist(write, sweep[w]) \/ Succ(write) = sweep[w]
      BY <2>1, <3>1, SweepPassedTwo DEF SweepPosition, InUse
    <3>3. elements[write].addr = NULL /\ elements[Succ(write)].addr = NULL
      BY <3>2 DEF SweepPosition
    <3> QED
      BY <2>1, <3>3 DEF OneHolder, SlotsReserved, SweepDue
  <2>2. CASE Succ(sweep[w]) # read
    BY <2>2 DEF OneHolder, SlotsReserved, SweepDue
  <2> QED BY <2>1, <2>2
<1>9. BlocksReachable'
  BY DEF OneHolder, BlocksReachable, Clearing
<1>10. MessagesWhole'
  BY DEF OneHolder, MessagesWhole, InUse
<1> QED
  BY <1>1, <1>2, <1>3, <1>4, <1>5, <1>6, <1>7, <1>8, <1>9, <1>10

LEMMA StoreTypeInv ==
  ASSUME ExclusiveLock, IInv, NEW w \in Writers, StoreType(w), TypeOK'
  PROVE  IInv'
<1> USE SuccType, RingAssumption DEF IInv, TypeOK, StoreType, ringVars, Busy, InStore, InSweep
<1>1. OneHolder'
  BY DEF OneHolder
<1>2. RoomInside'
  BY DEF OneHolder, RoomInside, isFull
<1>3. ReaderHasMessage'
  BY DEF Slot, ReaderHasMessage, isEmpty
<1>4. FreeSlotsEmpty'
  BY DEF OneHolder, Slot, FreeSlotsEmpty, InUse
<1>5. SweepPosition'
  BY DEF OneHolder, Slot, SweepPosition, InUse
<1>6. SlotBlocks'
  BY DEF OneHolder, Slot, SlotBlocks, Clearing
<1>7. WriterBlocks'
  BY DEF OneHolder, Slot, WriterBlocks, Clearing
<1>8. SlotsReserved'
  BY DEF OneHolder, Slot, SlotsReserved, SweepDue
<1>9. BlocksReachable'
  BY DEF OneHolder, Slot, BlocksReachable, Clearing
<1>10. MessagesWhole'
  <2>1. ~InUse(write)
    BY WriteSlotFree DEF InUse
  <2> QED
    BY <2>1 DEF OneHolder, WriterBlocks, Slot, MessagesWhole, InUse
<1> QED
  BY <1>1, <1>2, <1>3, <1>4, <1>5, <1>6, <1>7, <1>8, <1>9, <1>10

LEMMA StoreAddrInv ==
  ASSUME ExclusiveLock, IInv, NEW w \in Writers, StoreAddr(w), TypeOK'
  PROVE  IInv'
<1> USE SuccType, RingAssumption DEF IInv, TypeOK, StoreAddr, ringVars, Busy, InStore, InSweep
<1>1. OneHolder'
  BY DEF OneHolder
<1>2. RoomInside'
  BY DEF OneHolder, RoomInside, isFull
<1>3. ReaderHasMessage'
  BY DEF Slot, ReaderHasMessage, isEmpty
<1>4. FreeSlotsEmpty'
  BY DEF OneHolder, Slot, FreeSlotsEmpty, InUse
<1>5. SweepPosition'
  BY DEF OneHolder, Slot, SweepPosition, InUse
<1>6. SlotBlocks'
  BY DEF OneHolder, WriterBlocks, Slot, SlotBlocks, Clearing
<1>7. WriterBlocks'
  BY DEF OneHolder, SlotsReserved, Slot, WriterBlocks, Clearing
<1>8. SlotsReserved'
  BY DEF OneHolder, Slot, SlotsReserved, SweepDue
<1>9. BlocksReachable'
  BY DEF OneHolder, SlotsReserved, SlotBlocks, WriterBlocks, Slot, BlocksReachable, Clearing
<1>10. MessagesWhole'
  <2>1. ~InUse(write)
    BY WriteSlotFree DEF InUse
  <2> QED
    BY <2>1 DEF OneHolder, Slot, MessagesWhole, InUse
<1> QED
  BY <1>1, <1>2, <1>3, <1>4, <1>5, <1>6, <1>7, <1>8, <1>9, <1>10

LEMMA PublishInv ==
  ASSUME ExclusiveLock, IInv, NEW w \in Writers, Publish(w), TypeOK'
  PROVE  IInv'
<1> USE SuccType, RingAssumption DEF IInv, TypeOK, Publish, ringVars, Busy, InStore, InSweep
<1>1. OneHolder'
  BY DEF OneHolder
<1>2. RoomInside'
  BY DEF OneHolder, RoomInside, isFull
<1>3. ReaderHasMessage'
  <2>1. Succ(write) # read
    BY FullTest DEF RoomInside, isFull
  <2> QED
    BY <2>1 DEF ReaderHasMessage, isEmpty
<1>4. FreeSlotsEmpty'
  <2>1. Succ(write) # read
    BY FullTest DEF RoomInside, isFull
  <2>2. \A i \in Index : InUse(i)' <=> InUse(i) \/ i = write
    BY <2>1, UseAfterPublish DEF InUse
  <2> QED
    BY <2>2 DEF OneHolder, FreeSlotsEmpty
<1>5. SweepPosition'
  BY DEF OneHolder, SweepPosition, InUse
<1>6. SlotBlocks'
  BY DEF OneHolder, SlotBlocks, Clearing
<1>7. WriterBlocks'
  BY DEF OneHolder, SlotBlocks, EmptySlot, WriterBlocks, Clearing
<1>8. SlotsReserved'
  BY DEF OneHolder, SlotsReserved, SweepDue
<1>9. BlocksReachable'
  BY DEF OneHolder, WriterBlocks, EmptySlot, BlocksReachable, Clearing
<1>10. MessagesWhole'
  <2>1. Succ(write) # read
    BY FullTest DEF RoomInside, isFull
  <2>2. \A i \in Index : InUse(i)' <=> InUse(i) \/ i = write
    BY <2>1, UseAfterPublish DEF InUse
  <2>3. msg[w].type # MSG_EMPTY
    BY DEF MessagesWhole, Message, Types
  <2> QED
    BY <2>2, <2>3 DEF OneHolder, MessagesWhole, EmptySlot
<1> QED
  BY <1>1, <1>2, <1>3, <1>4, <1>5, <1>6, <1>7, <1>8, <1>9, <1>10

LEMMA ringBufferReadBeginInv ==
  ASSUME ExclusiveLock, IInv, ringBufferReadBegin, TypeOK'
  PROVE  IInv'
<1> USE SuccType, RingAssumption DEF IInv, TypeOK, ringBufferReadBegin, ringVars, Busy, InStore, InSweep
<1>1. OneHolder'
  BY DEF OneHolder
<1>2. RoomInside'
  BY DEF RoomInside, isFull
<1>3. ReaderHasMessage'
  BY DEF ReaderHasMessage, isEmpty
<1>4. FreeSlotsEmpty'
  BY DEF FreeSlotsEmpty, InUse
<1>5. SweepPosition'
  BY DEF SweepPosition, InUse
<1>6. SlotBlocks'
  BY DEF SlotBlocks, Clearing
<1>7. WriterBlocks'
  BY DEF WriterBlocks, Clearing
<1>8. SlotsReserved'
  BY DEF SlotsReserved, SweepDue
<1>9. BlocksReachable'
  BY DEF BlocksReachable, Clearing
<1>10. MessagesWhole'
  BY DEF MessagesWhole, InUse
<1> QED
  BY <1>1, <1>2, <1>3, <1>4, <1>5, <1>6, <1>7, <1>8, <1>9, <1>10

LEMMA ReadEndTypeInv ==
  ASSUME ExclusiveLock, IInv, ReadEndType, TypeOK'
  PROVE  IInv'
<1> USE SuccType, RingAssumption DEF IInv, TypeOK, ReadEndType, ringVars, Busy, InStore, InSweep
<1>1. OneHolder'
  BY DEF OneHolder
<1>2. RoomInside'
  BY DEF RoomInside, isFull
<1>3. ReaderHasMessage'
  BY DEF Slot, ReaderHasMessage, isEmpty
<1>4. FreeSlotsEmpty'
  BY DEF Slot, FreeSlotsEmpty, InUse
<1>5. SweepPosition'
  BY DEF Slot, SweepPosition, InUse
<1>6. SlotBlocks'
  BY DEF Slot, SlotBlocks, Clearing
<1>7. WriterBlocks'
  BY DEF Slot, WriterBlocks, Clearing
<1>8. SlotsReserved'
  BY DEF Slot, SlotsReserved, SweepDue
<1>9. BlocksReachable'
  BY DEF Slot, BlocksReachable, Clearing
<1>10. MessagesWhole'
  BY DEF ReaderHasMessage, isEmpty, Slot, MessagesWhole, InUse
<1> QED
  BY <1>1, <1>2, <1>3, <1>4, <1>5, <1>6, <1>7, <1>8, <1>9, <1>10

LEMMA ReadEndIndexInv ==
  ASSUME ExclusiveLock, IInv, ReadEndIndex, TypeOK'
  PROVE  IInv'
<1> USE SuccType, RingAssumption DEF IInv, TypeOK, ReadEndIndex, ringVars, Busy, InStore, InSweep
<1>1. OneHolder'
  BY DEF OneHolder
<1>2. RoomInside'
  <2>1. \A r \in Index : (write + 1) % Size = r <=> Succ(write) = r
    BY FullTest
  <2>2. Succ(write) # Succ(read)
    BY DEF ReaderHasMessage, isEmpty, Succ, Index
  <2> QED
    BY <2>1, <2>2 DEF RoomInside, isFull
<1>3. ReaderHasMessage'
  BY DEF ReaderHasMessage, isEmpty
<1>4. FreeSlotsEmpty'
  <2>1. \A i \in Index : InUse(i)' <=> InUse(i) /\ i # read
    BY UseAfterRelease DEF ReaderHasMessage, isEmpty, InUse
  <2> QED
    BY <2>1 DEF FreeSlotsEmpty, ReaderHasMessage
<1>5. SweepPosition'
  <2>1. \A i \in Index : InUse(i)' <=> InUse(i) /\ i # read
    BY UseAfterRelease DEF ReaderHasMessage, isEmpty, InUse
  <2> QED
    BY <2>1 DEF SweepPosition
<1>6. SlotBlocks'
  BY DEF SlotBlocks, Clearing
<1>7. WriterBlocks'
  BY DEF WriterBlocks, Clearing
<1>8. SlotsReserved'
  BY DEF SlotsReserved, SweepDue
<1>9. BlocksReachable'
  BY DEF BlocksReachable, Clearing
<1>10. MessagesWhole'
  <2>1. \A i \in Index : InUse(i)' <=> InUse(i) /\ i # read
    BY UseAfterRelease DEF ReaderHasMessage, isEmpty, InUse
  <2> QED
    BY <2>1 DEF MessagesWhole
<1> QED
  BY <1>1, <1>2, <1>3, <1>4, <1>5, <1>6, <1>7, <1>8, <1>9, <1>10

LEMMA InitIInv == Init => IInv
<1> SUFFICES ASSUME Init PROVE IInv
  OBVIOUS
<1>1. TypeOK
  BY InitType
<1>2. OneHolder /\ RoomInside /\ ReaderHasMessage /\ SweepPosition
  BY DEF Init, OneHolder, RoomInside, ReaderHasMessage, SweepPosition, Busy, InStore, InSweep
<1>3. FreeSlotsEmpty /\ SlotBlocks /\ WriterBlocks /\ BlocksReachable
  BY DEF Init, FreeSlotsEmpty, SlotBlocks, WriterBlocks, BlocksReachable, EmptySlot
<1>4. SlotsReserved
  BY SuccType, RingAssumption DEF Init, SlotsReserved, Index, EmptySlot
<1>5. MessagesWhole
  BY RingAssumption DEF Init, MessagesWhole, InUse, Dist, Index
<1> QED
  BY <1>1, <1>2, <1>3, <1>4, <1>5 DEF IInv

LEMMA StepIInv ==
  ASSUME ExclusiveLock
  PROVE  IInv /\ [Next]_vars => IInv'
<1> SUFFICES ASSUME IInv, [Next]_vars PROVE IInv'
  OBVIOUS
<1>1. TypeOK'
  BY StepType DEF IInv
<1>2. ASSUME NEW w \in Writers, NEW m \in Message, Prepare(w, m) PROVE IInv'
  BY <1>1, <1>2, PrepareInv
<1>3. ASSUME NEW w \in Writers, Enter(w) PROVE IInv'
  BY <1>1, <1>3, DropInv, BeginSweepInv, BeginStoreInv DEF Enter
<1>4. ASSUME NEW w \in Writers, Inside(w) PROVE IInv'
  BY <1>1, <1>4, SweepTestInv, SweepFreeInv, SweepClearInv, SweepNextInv,
     StoreTypeInv, StoreAddrInv, PublishInv DEF Inside
<1>5. CASE Reader
  BY <1>1, <1>5, ringBufferReadBeginInv, ReadEndTypeInv, ReadEndIndexInv DEF Reader
<1>6. CASE UNCHANGED vars
  BY <1>6 DEF vars, IInv, TypeOK, OneHolder, RoomInside, ReaderHasMessage,
     FreeSlotsEmpty, SweepPosition, SlotBlocks, WriterBlocks, SlotsReserved,
     BlocksReachable, MessagesWhole, Busy, Clearing, InUse, SweepDue, isFull, isEmpty
<1> QED
  BY <1>2, <1>3, <1>4, <1>5, <1>6 DEF Next

(* The invariant holds in every state of a layer whose ringBufferLock      *)
(* excludes other writers, as the kernel's does.                           *)
THEOREM InductiveInvariant ==
  ASSUME ExclusiveLock
  PROVE  Spec => []IInv
  BY InitIInv, StepIInv, PTL DEF Spec

(* The sweep of ringBufferWrite only meets slots marked MSG_EMPTY, however *)
(* far the reader moves while it runs.                                     *)
THEOREM SweepSafe ==
  ASSUME ExclusiveLock
  PROVE  Spec => []SweepSeesEmptySlots
<1>1. IInv => SweepSeesEmptySlots
  BY DEF IInv, TypeOK, SweepSeesEmptySlots, FreeSlotsEmpty, SweepPosition, OneHolder,
     Busy, InStore, InSweep
<1> QED
  BY <1>1, InductiveInvariant, PTL

(* The payload of a published message is never freed, reused or shared     *)
(* before the other layer has called ringBufferReadEnd for it.             *)
THEOREM PayloadSafe ==
  ASSUME ExclusiveLock
  PROVE  Spec => []PayloadStaysLive
<1>1. IInv => PayloadStaysLive
  <2> SUFFICES ASSUME IInv, NEW i \in Index, InUse(i), elements[i].addr # NULL
               PROVE  /\ elements[i].addr \in allocated
                      /\ \A j \in Index \ {i} : elements[j].addr # elements[i].addr
                      /\ \A w \in Writers : msg[w].addr # elements[i].addr
    BY DEF PayloadStaysLive
  <2>1. ~Clearing(i)
    BY DEF IInv, Clearing, SweepPosition, InSweep
  <2>2. i # write
    BY WriteSlotFree DEF IInv, TypeOK, InUse
  <2>3. elements[i].addr \in allocated
    BY <2>1 DEF IInv, SlotBlocks
  <2>4. \A j \in Index \ {i} : elements[j].addr # elements[i].addr
    BY DEF IInv, SlotBlocks
  <2>5. \A w \in Writers : msg[w].addr # elements[i].addr
    BY <2>1, <2>2 DEF IInv, WriterBlocks
  <2> QED
    BY <2>3, <2>4, <2>5
<1> QED
  BY <1>1, InductiveInvariant, PTL

(* With FREE_THRESHOLD at most 2, overwriting a slot never loses the block *)
(* of an earlier message.                                                  *)
THEOREM NoLeak ==
  ASSUME ExclusiveLock
  PROVE  Spec => []NoBlockLost
<1>1. IInv => NoBlockLost
  BY DEF IInv, NoBlockLost, BlocksReachable
<1> QED
  BY <1>1, InductiveInvariant, PTL

-----------------------------------------------------------------------------
(* The ring implements Channel.                                            *)

(* The k-th slot after f, by the indices of the ring.                      *)
LEMMA SlotAt ==
  ASSUME NEW f \in Index, NEW k \in 1 .. Size
  PROVE  (f + k - 1) % Size = IF f + k - 1 < Size THEN f + k - 1 ELSE f + k - 1 - Size
<1>1. CASE f + k - 1 < Size
  BY <1>1, RingAssumption DEF Index
<1>2. CASE ~(f + k - 1 < Size)
  <2>1. f + k - 1 - Size \in 0 .. Size - 1
    BY <1>2, RingAssumption DEF Index
  <2>2. \A x \in 0 .. Size - 1 : (x + Size) % Size = x
    BY RingAssumption
  <2> QED
    BY <1>2, <2>1, <2>2, RingAssumption DEF Index
<1> QED BY <1>1, <1>2

LEMMA SlotBetween ==
  ASSUME NEW f \in Index, NEW w \in Index, NEW k \in 1 .. Dist(f, w)
  PROVE  /\ k \in 1 .. Size
         /\ (f + k - 1) % Size \in Index
         /\ Dist(f, (f + k - 1) % Size) < Dist(f, w)
<1>1. k \in 1 .. Size
  BY RingAssumption DEF Index, Dist
<1> QED
  BY <1>1, SlotAt, RingAssumption DEF Index, Dist

(* Index arithmetic of an append at w and of the removal of f.             *)
LEMMA DistGrows ==
  ASSUME NEW f \in Index, NEW w \in Index, Succ(w) # f
  PROVE  /\ Dist(f, Succ(w)) = Dist(f, w) + 1
         /\ Dist(f, w) \in 0 .. Size - 2
         /\ (f + (Dist(f, w) + 1) - 1) % Size = w
<1>1. Dist(f, Succ(w)) = Dist(f, w) + 1 /\ Dist(f, w) \in 0 .. Size - 2
  BY RingAssumption DEF Index, Dist, Succ
<1>2. Dist(f, w) + 1 \in 1 .. Size
  BY <1>1, RingAssumption
<1> QED
  BY <1>1, <1>2, SlotAt, RingAssumption DEF Index, Dist

LEMMA DistShrinks ==
  ASSUME NEW f \in Index, NEW w \in Index, f # w
  PROVE  /\ Dist(f, w) \in 1 .. Size - 1
         /\ Dist(Succ(f), w) = Dist(f, w) - 1
         /\ (f + 1 - 1) % Size = f
         /\ \A k \in 1 .. Dist(f, w) - 1 : (Succ(f) + k - 1) % Size = (f + (k + 1) - 1) % Size
<1>1. Dist(f, w) \in 1 .. Size - 1 /\ Dist(Succ(f), w) = Dist(f, w) - 1
  BY RingAssumption DEF Index, Dist, Succ
<1>2. (f + 1 - 1) % Size = f
  BY SlotAt, RingAssumption DEF Index
<1>3. ASSUME NEW k \in 1 .. Dist(f, w) - 1
      PROVE  (Succ(f) + k - 1) % Size = (f + (k + 1) - 1) % Size
  <2>1. k \in 1 .. Size /\ k + 1 \in 1 .. Size /\ Succ(f) \in Index
    BY <1>1, SuccType, RingAssumption
  <2>2. (Succ(f) + k - 1) % Size
          = IF Succ(f) + k - 1 < Size THEN Succ(f) + k - 1 ELSE Succ(f) + k - 1 - Size
    BY <2>1, SlotAt
  <2>3. (f + (k + 1) - 1) % Size
          = IF f + (k + 1) - 1 < Size THEN f + (k + 1) - 1 ELSE f + (k + 1) - 1 - Size
    BY <2>1, SlotAt
  <2>4. Dist(f, w) \in Nat /\ Dist(f, w) <= Size - 1
    BY <1>1, RingAssumption
  <2> QED
    BY <2>1, <2>2, <2>3, <2>4, RingAssumption DEF Index, Succ
<1> QED BY <1>1, <1>2, <1>3

(* The messages between the indices, for given indices and slots.          *)
Between(f, w, e) == [k \in 1 .. Dist(f, w) |-> e[(f + k - 1) % Size]]

LEMMA BetweenType ==
  ASSUME NEW f \in Index, NEW w \in Index, NEW e \in [Index -> Slot]
  PROVE  Between(f, w, e) \in Seq(Slot) /\ Len(Between(f, w, e)) = Dist(f, w)
<1>1. Dist(f, w) \in Nat
  BY RingAssumption DEF Index, Dist
<1>2. \A k \in 1 .. Dist(f, w) : e[(f + k - 1) % Size] \in Slot
  BY SlotBetween
<1> QED
  BY <1>1, <1>2 DEF Between

LEMMA BetweenSame ==
  ASSUME NEW f \in Index, NEW w \in Index, NEW d \in [Index -> Slot], NEW e \in [Index -> Slot],
         \A i \in Index : Dist(f, i) < Dist(f, w) => d[i] = e[i]
  PROVE  Between(f, w, d) = Between(f, w, e)
  BY SlotBetween DEF Between

LEMMA BetweenAppend ==
  ASSUME NEW f \in Index, NEW w \in Index, NEW e \in [Index -> Slot], Succ(w) # f
  PROVE  /\ Between(f, Succ(w), e) = Append(Between(f, w, e), e[w])
         /\ Len(Between(f, w, e)) < Size - 1
<1> DEFINE b == Between(f, w, e)
           c == Between(f, Succ(w), e)
<1>1. b \in Seq(Slot) /\ Len(b) = Dist(f, w)
  BY BetweenType
<1>2. c \in Seq(Slot) /\ Len(c) = Dist(f, w) + 1
  BY BetweenType, SuccType, DistGrows
<1>3. \A k \in 1 .. Dist(f, w) : c[k] = b[k]
  BY DistGrows DEF Between
<1>4. c[Dist(f, w) + 1] = e[w]
  BY DistGrows, RingAssumption DEF Between
<1>5. Dist(f, w) \in 0 .. Size - 2
  BY DistGrows
<1> HIDE DEF b, c
<1>6. e[w] \in Slot
  OBVIOUS
<1>7. c = Append(b, e[w])
  BY <1>1, <1>2, <1>3, <1>4, <1>5, <1>6
<1> QED
  BY <1>1, <1>5, <1>7, RingAssumption DEF b, c

LEMMA BetweenTail ==
  ASSUME NEW f \in Index, NEW w \in Index, NEW e \in [Index -> Slot], f # w
  PROVE  /\ Between(f, w, e) # <<>>
         /\ Head(Between(f, w, e)) = e[f]
         /\ Between(Succ(f), w, e) = Tail(Between(f, w, e))
<1> DEFINE b == Between(f, w, e)
           c == Between(Succ(f), w, e)
<1>1. b \in Seq(Slot) /\ Len(b) = Dist(f, w)
  BY BetweenType
<1>2. c \in Seq(Slot) /\ Len(c) = Dist(f, w) - 1
  BY BetweenType, SuccType, DistShrinks
<1>3. Dist(f, w) \in 1 .. Size - 1
  BY DistShrinks
<1>4. b[1] = e[f]
  BY <1>3, DistShrinks, RingAssumption DEF Between
<1>5. \A k \in 1 .. Dist(f, w) - 1 : c[k] = b[k + 1]
  BY <1>3, DistShrinks, RingAssumption DEF Between
<1> HIDE DEF b, c
<1>6. b # <<>> /\ Head(b) = e[f]
  BY <1>1, <1>3, <1>4
<1>7. Tail(b) \in Seq(Slot) /\ Len(Tail(b)) = Dist(f, w) - 1
      /\ \A k \in 1 .. Dist(f, w) - 1 : Tail(b)[k] = b[k + 1]
  BY <1>1, <1>3, <1>6, RingAssumption
<1>8. c = Tail(b)
  BY <1>2, <1>5, <1>7
<1> QED
  BY <1>6, <1>8 DEF b, c

LEMMA ContentsBetween ==
  /\ Contents = Between(First, write, elements)
  /\ Contents' = Between(First', write', elements')
  BY DEF Contents, Between

LEMMA FirstType == TypeOK => First \in Index
  BY SuccType DEF TypeOK, First

(* A slot between First and write is in use, and not the emptied one.      *)
LEMMA FirstInUse ==
  ASSUME IInv, NEW i \in Index
  PROVE  Dist(First, i) < Dist(First, write) <=> InUse(i) /\ ~(rpc = "emptied" /\ i = read)
  BY UseAfterRelease DEF IInv, TypeOK, First, InUse, ReaderHasMessage, isEmpty

(* A step that moves no index and touches no slot in use stutters.         *)
LEMMA Untouched ==
  ASSUME IInv, TypeOK', UNCHANGED <<read, write, rpc, msg>>,
         \A i \in Index : InUse(i) => elements'[i] = elements[i]
  PROVE  UNCHANGED Link!vars
<1>1. First' = First
  BY DEF First
<1>2. \A i \in Index : Dist(First, i) < Dist(First, write) => elements[i] = elements'[i]
  BY FirstInUse
<1>3. Contents' = Contents
  BY <1>1, <1>2, ContentsBetween, FirstType, BetweenSame DEF IInv, TypeOK
<1>4. rpc = "handling" => elements'[read] = elements[read]
  BY ReadSlotUsed DEF IInv, TypeOK, ReaderHasMessage, isEmpty, InUse
<1> QED
  BY <1>3, <1>4 DEF Link!vars

(* Steps of a writer that call the ring and steps inside the lock.         *)
LEMMA PrepareOffers ==
  ASSUME IInv, TypeOK', NEW w \in Writers, NEW m \in Message, Prepare(w, m)
  PROVE  Link!Offer(w, m)
<1>1. Contents' = Contents
  BY ContentsBetween DEF Prepare, ringVars, First
<1>2. msg[w] = EmptySlot
  BY DEF IInv, WriterBlocks, Prepare
<1> QED
  BY <1>1, <1>2 DEF Prepare, ringVars, Link!Offer

LEMMA DropWithdraws ==
  ASSUME IInv, TypeOK', NEW w \in Writers, Drop(w)
  PROVE  Link!Withdraw(w)
<1>1. Contents' = Contents
  BY ContentsBetween DEF Drop, ringVars, First
<1>2. msg[w] # EmptySlot
  BY RingAssumption DEF IInv, MessagesWhole, Drop, Message, EmptySlot, Types
<1> QED
  BY <1>1, <1>2 DEF Drop, ringVars, Link!Withdraw

LEMMA PublishSends ==
  ASSUME IInv, TypeOK', NEW w \in Writers, Publish(w)
  PROVE  Link!Send(w)
<1>1. msg[w] # EmptySlot
  BY RingAssumption DEF IInv, MessagesWhole, Publish, Message, EmptySlot, Types
<1>2. elements[write] = msg[w]
  BY DEF IInv, TypeOK, MessagesWhole, WriterBlocks, Publish, Slot, Message
<1>3. Succ(write) # First
  <2>1. Succ(write) # read
    BY FullTest DEF IInv, TypeOK, RoomInside, Busy, InStore, isFull, Publish
  <2>2. rpc = "emptied" => write # read
    BY DEF IInv, ReaderHasMessage, isEmpty
  <2> QED
    BY <2>1, <2>2, RingAssumption DEF IInv, TypeOK, First, Succ, Index
<1>4. First' = First /\ write' = Succ(write) /\ elements' = elements
  BY DEF Publish, First
<1>5. Contents' = Append(Contents, msg[w]) /\ Len(Contents) < Size - 1
  BY <1>2, <1>3, <1>4, ContentsBetween, FirstType, BetweenAppend DEF IInv, TypeOK
<1> QED
  BY <1>1, <1>5 DEF Publish, Link!Send

LEMMA InsideStutters ==
  ASSUME IInv, TypeOK', NEW w \in Writers,
         \/ BeginSweep(w) \/ BeginStore(w)
         \/ SweepTest(w) \/ SweepFree(w) \/ SweepClear(w) \/ SweepNext(w)
         \/ StoreType(w) \/ StoreAddr(w)
  PROVE  UNCHANGED Link!vars
<1>1. CASE BeginSweep(w) \/ BeginStore(w) \/ SweepTest(w) \/ SweepFree(w) \/ SweepNext(w)
  BY <1>1, Untouched
     DEF BeginSweep, BeginStore, SweepTest, SweepFree, SweepNext, ringVars
<1>2. CASE SweepClear(w)
  <2>1. ~InUse(sweep[w])
    BY <1>2 DEF IInv, SweepPosition, SweepClear, InSweep
  <2> QED
    BY <1>2, <2>1, Untouched DEF SweepClear, IInv, TypeOK
<1>3. CASE StoreType(w) \/ StoreAddr(w)
  <2>1. ~InUse(write)
    BY WriteSlotFree DEF IInv, TypeOK, InUse
  <2> QED
    BY <1>3, <2>1, Untouched DEF StoreType, StoreAddr, IInv, TypeOK
<1> QED
  BY <1>1, <1>2, <1>3

(* Steps of the reader.                                                    *)
LEMMA ReadBeginHandles ==
  ASSUME IInv, TypeOK', ringBufferReadBegin
  PROVE  Link!BeginHandling
<1>1. First = read /\ First' = read /\ read # write
  BY DEF ringBufferReadBegin, ringVars, First, isEmpty
<1>2. Contents' = Contents
  BY <1>1, ContentsBetween DEF ringBufferReadBegin, ringVars
<1>3. Contents # <<>> /\ Head(Contents) = elements[read]
  BY <1>1, ContentsBetween, BetweenTail DEF IInv, TypeOK
<1> QED
  BY <1>2, <1>3 DEF ringBufferReadBegin, ringVars, Link!BeginHandling

LEMMA ReadEndTypeEnds ==
  ASSUME IInv, TypeOK', ReadEndType
  PROVE  Link!EndHandling
<1> USE DEF IInv, TypeOK
<1>1. First = read /\ First' = Succ(read) /\ read # write
  BY DEF ReadEndType, First, ReaderHasMessage, isEmpty
<1>2. elements[read] # EmptySlot
  BY <1>1, ReadSlotUsed DEF ReadEndType, MessagesWhole, InUse, EmptySlot
<1>3. Tail(Contents) = Between(Succ(read), write, elements)
  BY <1>1, ContentsBetween, BetweenTail
<1>4. \A i \in Index : Dist(Succ(read), i) < Dist(Succ(read), write) => elements'[i] = elements[i]
  BY <1>1, UseAfterRelease DEF ReadEndType
<1>5. Contents' = Tail(Contents)
  <2>1. Contents' = Between(Succ(read), write, elements')
    BY <1>1, ContentsBetween DEF ReadEndType
  <2> QED
    BY <2>1, <1>3, <1>4, SuccType, BetweenSame
<1> QED
  BY <1>2, <1>5 DEF ReadEndType, Link!EndHandling

LEMMA ReadEndIndexStutters ==
  ASSUME IInv, TypeOK', ReadEndIndex
  PROVE  UNCHANGED Link!vars
<1>1. First' = First
  BY DEF ReadEndIndex, First
<1>2. Contents' = Contents
  BY <1>1, ContentsBetween DEF ReadEndIndex
<1> QED
  BY <1>2 DEF ReadEndIndex, Link!vars

LEMMA StepRefines ==
  ASSUME IInv, TypeOK', [Next]_vars
  PROVE  [Link!Next]_(Link!vars)
<1> USE DEF Link!Next
<1>1. ASSUME NEW w \in Writers, NEW m \in Message, Prepare(w, m) PROVE Link!Next
  BY <1>1, PrepareOffers
<1>2. ASSUME NEW w \in Writers, Drop(w) PROVE Link!Next
  BY <1>2, DropWithdraws
<1>3. ASSUME NEW w \in Writers, Publish(w) PROVE Link!Next
  BY <1>3, PublishSends
<1>4. ASSUME NEW w \in Writers, Enter(w) \/ Inside(w), ~Drop(w), ~Publish(w)
      PROVE  UNCHANGED Link!vars
  BY <1>4, InsideStutters DEF Enter, Inside
<1>5. CASE ringBufferReadBegin
  BY <1>5, ReadBeginHandles
<1>6. CASE ReadEndType
  BY <1>6, ReadEndTypeEnds
<1>7. CASE ReadEndIndex
  BY <1>7, ReadEndIndexStutters
<1>8. CASE UNCHANGED vars
  BY <1>8, Untouched DEF vars
<1> QED
  BY <1>1, <1>2, <1>3, <1>4, <1>5, <1>6, <1>7, <1>8 DEF Next, Reader

(* The two indices and the slots are a bounded FIFO: what the other layer  *)
(* handles is what was published, complete, in order, once, and unchanged  *)
(* until it calls ringBufferReadEnd.                                       *)
THEOREM ImplementsChannel ==
  ASSUME ExclusiveLock
  PROVE  Spec => LinkSafety
<1>1. Init => Link!Init
  <2> SUFFICES ASSUME Init PROVE Link!Init
    OBVIOUS
  <2>1. Dist(First, write) = 0
    BY DEF Init, First, Dist
  <2>2. Contents = <<>>
    BY <2>1 DEF Contents
  <2> QED
    BY <2>2 DEF Init, Link!Init
<1>2. IInv /\ [Next]_vars => [Link!Next]_(Link!vars)
  BY StepRefines, StepType DEF IInv
<1> QED
  BY <1>1, <1>2, InductiveInvariant, PTL DEF Spec, LinkSafety, Link!Safety
===============================================================================
