------------------------ MODULE ComUnknownBaseProofs ------------------------
(***************************************************************************)
(* Proofs about ComUnknownBase, for any number of pointers.  With the      *)
(* hypothesis SharedFirst: without it event sources can reach an object    *)
(* that is still counted without a lock prefix, and the run                *)
(* ComUnknownBaseTryAddRef shows what happens then.                        *)
(***************************************************************************)
EXTENDS ComUnknownBase, FiniteSetTheorems, TLAPS

\* The pointers whose thread is inside BaseTryAddRef.
Trying == {e \in Pointer : pc[e] \in {"tryread", "tryswap"}}

-----------------------------------------------------------------------------
(***************************************************************************)
(* The inductive invariant.                                                *)
(***************************************************************************)
\* An object that was not shared has one reference at most, and no thread is
\* in the interlocked branches; no event source knows it.
UnsharedIsAlone ==
    ~isShared_ =>
        /\ \A p, q \in References : p = q
        /\ \A p \in Pointer : pc[p] \notin {"addref", "decrement", "copied"}
        /\ ~registered

\* The unlocked branch is taken only then, and what it has read stays right.
UnlockedInv ==
    \A p \in Pointer :
        /\ pc[p] \in {"read", "write"} => ~isShared_
        /\ pc[p] = "write" => local[p] = refCount_

\* The thread that deletes the object is the only one, and comes last.
DeleteInv ==
    /\ destroyed \in {0, 1}
    /\ \A p \in Pointer : pc[p] = "delete" =>
        /\ References = {}
        /\ destroyed = 0
        /\ \A q \in Pointer : pc[q] = "delete" => q = p
    /\ destroyed = 1 =>
        /\ \A p \in Pointer : pc[p] = "empty"
        /\ ~registered

\* The lock of the event source is held by the one thread in BaseTryAddRef.
LockInv ==
    /\ \A e \in Trying : locked /\ registered /\ e \in Event
    /\ \A e, f \in Trying : e = f
    /\ \A e \in Pointer : pc[e] = "tryswap" => local[e] # 0

\* Every copy under way has its own pointer to fill.
CopyInv ==
    /\ \A p \in Pointer : pc[p] = "addref" => pc[target[p]] = "copied"
    /\ \A p, q \in Pointer :
        pc[p] = "addref" /\ pc[q] = "addref" /\ target[p] = target[q] => p = q
    /\ \A q \in Pointer : pc[q] = "copied" =>
        \E p \in Pointer : pc[p] = "addref" /\ target[p] = q

IInv ==
    /\ TypeOK
    /\ CountIsExact
    /\ UnsharedIsAlone
    /\ UnlockedInv
    /\ DeleteInv
    /\ LockInv
    /\ CopyInv
    /\ NoLeak
    /\ AssertsHold
-----------------------------------------------------------------------------
(***************************************************************************)
(* Counting.                                                               *)
(***************************************************************************)
LEMMA ReferencesFinite == IsFiniteSet(References)
BY PointersAssumption, FS_Subset, References \in SUBSET Pointer DEF References

\* An exact count is zero when there is no reference, and only then.
LEMMA CountZero ==
    ASSUME NEW S \in SUBSET Pointer
    PROVE  /\ Cardinality(S) \in Nat
           /\ Cardinality(S) = 0 <=> S = {}
BY PointersAssumption, FS_Subset, FS_CardinalityType, FS_EmptySet

\* One more reference, and the count goes up.
LEMMA CountUp ==
    ASSUME CountIsExact, NEW q, q \notin References,
           References' = References \cup {q}, refCount_' = refCount_ + 1
    PROVE  CountIsExact'
BY ReferencesFinite, FS_AddElement DEF CountIsExact

\* One reference fewer, and the count goes down.
LEMMA CountDown ==
    ASSUME CountIsExact, NEW p, p \in References,
           References' = References \ {p}, refCount_' = refCount_ - 1
    PROVE  CountIsExact'
BY ReferencesFinite, FS_RemoveElement DEF CountIsExact

\* A reference that moves to another pointer, and the count stays.
LEMMA CountMoves ==
    ASSUME CountIsExact, NEW p, p \in References, NEW q, q \notin References,
           References' = (References \ {p}) \cup {q}, refCount_' = refCount_
    PROVE  CountIsExact'
<1>1. /\ IsFiniteSet(References \ {p})
      /\ Cardinality(References \ {p}) = Cardinality(References) - 1
  BY ReferencesFinite, FS_RemoveElement
<1>2. Cardinality(References') = (Cardinality(References) - 1) + 1
  BY <1>1, FS_AddElement
<1>3. Cardinality(References) \in Nat
  BY ReferencesFinite, FS_CardinalityType
<1> QED
  BY <1>2, <1>3 DEF CountIsExact

\* The same references, and the same count.
LEMMA CountStays ==
    ASSUME CountIsExact, References' = References, refCount_' = refCount_
    PROVE  CountIsExact'
BY DEF CountIsExact

\* What the count says before a step.
LEMMA CountNow ==
    ASSUME CountIsExact
    PROVE  refCount_ \in Nat /\ (refCount_ = 0 <=> References = {})
BY CountZero, References \in SUBSET Pointer DEF CountIsExact, References

\* And what it says after.
LEMMA CountThen ==
    ASSUME CountIsExact'
    PROVE  refCount_' \in Nat /\ (refCount_' = 0 <=> References' = {})
BY CountZero, References' \in SUBSET Pointer DEF CountIsExact, References
-----------------------------------------------------------------------------
(***************************************************************************)
(* Every step preserves the invariant.                                     *)
(***************************************************************************)
\* Copying: the new pointer is not yet counted.
LEMMA BaseAddRefStep ==
    ASSUME IInv, NEW p \in Pointer, NEW q \in Pointer, BaseAddRef(p, q)
    PROVE  IInv'
<1>1. /\ TypeOK /\ CountIsExact /\ UnsharedIsAlone /\ UnlockedInv /\ DeleteInv
      /\ LockInv /\ CopyInv /\ NoLeak /\ AssertsHold
      /\ refCount_ \in Nat /\ (refCount_ = 0 <=> References = {})
  BY CountNow DEF IInv
<1>2. pc[p] = "held" /\ pc[q] = "empty"
  BY DEF BaseAddRef
<1>3. /\ pc' \in [Pointer -> Places]
      /\ \A x \in Pointer : pc'[x] =
            IF x = p THEN "addref" ELSE IF x = q THEN "copied" ELSE pc[x]
      /\ isShared_' = TRUE
      /\ \A x \in Pointer : target'[x] = IF x = p THEN q ELSE target[x]
      /\ target' \in [Pointer -> Pointer]
      /\ UNCHANGED <<refCount_, local, registered, locked, destroyed>>
  BY <1>1 DEF TypeOK, AssertsHold, Places, Counted, BaseAddRef
<1>4. References' = References
  BY <1>2, <1>3 DEF References, Counted
<1>5. CountIsExact'
  BY <1>1, <1>3, <1>4, CountStays
<1>6. refCount_' \in Nat /\ (refCount_' = 0 <=> References' = {})
  BY <1>5, CountThen
<1>7. AssertsHold'
  BY <1>1 DEF AssertsHold, BaseAddRef
<1>8. TypeOK'
  BY <1>1, <1>3, <1>7 DEF TypeOK, AssertsHold
<1>9. UnsharedIsAlone'
  BY <1>3 DEF UnsharedIsAlone
<1>10. UnlockedInv'
  BY <1>1, <1>3, <1>4 DEF UnlockedInv, UnsharedIsAlone, References, Counted
<1>11. DeleteInv'
  BY <1>1, <1>3, <1>6 DEF DeleteInv, References, Counted
<1>12. LockInv'
  BY <1>1, <1>3 DEF LockInv, Trying
<1>13. CopyInv'
  BY <1>1, <1>2, <1>3 DEF CopyInv
<1>14. NoLeak'
  BY <1>1, <1>2, <1>3, <1>6 DEF NoLeak
<1> QED
  BY <1>5, <1>7, <1>8, <1>9, <1>10, <1>11, <1>12, <1>13, <1>14 DEF IInv

\* The copy is counted.
LEMMA IncrementStep ==
    ASSUME IInv, NEW p \in Pointer, Increment(p)
    PROVE  IInv'
<1>1. /\ TypeOK /\ CountIsExact /\ UnsharedIsAlone /\ UnlockedInv /\ DeleteInv
      /\ LockInv /\ CopyInv /\ NoLeak /\ AssertsHold
      /\ refCount_ \in Nat /\ (refCount_ = 0 <=> References = {})
  BY CountNow DEF IInv
<1>2. pc[p] = "addref"
  BY DEF Increment
<1>3. /\ pc' \in [Pointer -> Places]
      /\ \A x \in Pointer : pc'[x] = IF x \in {p, target[p]} THEN "held" ELSE pc[x]
      /\ refCount_' = refCount_ + 1
      /\ UNCHANGED <<isShared_, target, local, registered, locked, destroyed>>
  BY <1>1 DEF TypeOK, AssertsHold, Places, Counted, Increment
<1>4. /\ References' = References \cup {target[p]}
      /\ target[p] \notin References /\ p \in References
  BY <1>1, <1>2, <1>3 DEF TypeOK, AssertsHold, CopyInv, References, Counted
<1>5. CountIsExact'
  BY <1>1, <1>3, <1>4, CountUp
<1>6. refCount_' \in Nat /\ (refCount_' = 0 <=> References' = {})
  BY <1>5, CountThen
<1>7. AssertsHold'
  BY <1>1, <1>4 DEF AssertsHold, Increment
<1>8. TypeOK'
  BY <1>1, <1>3, <1>7 DEF TypeOK, AssertsHold
<1>9. UnsharedIsAlone'
  BY <1>1, <1>2, <1>3 DEF UnsharedIsAlone
<1>10. UnlockedInv'
  BY <1>1, <1>3, <1>4 DEF UnlockedInv, UnsharedIsAlone, References, Counted
<1>11. DeleteInv'
  BY <1>1, <1>3, <1>4 DEF DeleteInv, References
<1>12. LockInv'
  BY <1>1, <1>3 DEF LockInv, Trying
<1>13. CopyInv'
  BY <1>1, <1>2, <1>3 DEF TypeOK, AssertsHold, CopyInv
<1>14. NoLeak'
  BY <1>4 DEF NoLeak
<1> QED
  BY <1>5, <1>7, <1>8, <1>9, <1>10, <1>11, <1>12, <1>13, <1>14 DEF IInv

\* A pointer is moved.
LEMMA MoveToStep ==
    ASSUME IInv, NEW p \in Pointer, NEW q \in Pointer, MoveTo(p, q)
    PROVE  IInv'
<1>1. /\ TypeOK /\ CountIsExact /\ UnsharedIsAlone /\ UnlockedInv /\ DeleteInv
      /\ LockInv /\ CopyInv /\ NoLeak /\ AssertsHold
      /\ refCount_ \in Nat /\ (refCount_ = 0 <=> References = {})
  BY CountNow DEF IInv
<1>2. pc[p] = "held" /\ pc[q] = "empty"
  BY DEF MoveTo
<1>3. /\ pc' \in [Pointer -> Places]
      /\ \A x \in Pointer : pc'[x] =
            IF x = p THEN "empty" ELSE IF x = q THEN "held" ELSE pc[x]
      /\ UNCHANGED <<refCount_, isShared_, target, local, registered, locked, destroyed>>
  BY <1>1 DEF TypeOK, AssertsHold, MoveTo
<1>4. /\ References' = (References \ {p}) \cup {q}
      /\ p \in References /\ q \notin References
  BY <1>2, <1>3 DEF References, Counted
<1>5. CountIsExact'
  BY <1>1, <1>3, <1>4, CountMoves
<1>6. refCount_' \in Nat /\ (refCount_' = 0 <=> References' = {})
  BY <1>5, CountThen
<1>7. AssertsHold'
  BY <1>1 DEF AssertsHold, MoveTo
<1>8. TypeOK'
  BY <1>1, <1>3, <1>7 DEF TypeOK, AssertsHold
<1>9. UnsharedIsAlone'
  BY <1>1, <1>3, <1>4 DEF UnsharedIsAlone
<1>10. UnlockedInv'
  BY <1>1, <1>3 DEF UnlockedInv
<1>11. DeleteInv'
  BY <1>1, <1>3, <1>6 DEF DeleteInv, References, Counted
<1>12. LockInv'
  BY <1>1, <1>3 DEF LockInv, Trying
<1>13. CopyInv'
  BY <1>1, <1>2, <1>3 DEF TypeOK, AssertsHold, CopyInv
<1>14. NoLeak'
  BY <1>4 DEF NoLeak
<1> QED
  BY <1>5, <1>7, <1>8, <1>9, <1>10, <1>11, <1>12, <1>13, <1>14 DEF IInv

\* A release begins.
LEMMA BaseReleaseStep ==
    ASSUME IInv, NEW p \in Pointer, BaseRelease(p)
    PROVE  IInv'
<1>1. /\ TypeOK /\ CountIsExact /\ UnsharedIsAlone /\ UnlockedInv /\ DeleteInv
      /\ LockInv /\ CopyInv /\ NoLeak /\ AssertsHold
      /\ refCount_ \in Nat /\ (refCount_ = 0 <=> References = {})
  BY CountNow DEF IInv
<1>2. pc[p] = "held"
  BY DEF BaseRelease, Move
<1>3. /\ pc' \in [Pointer -> Places]
      /\ \A x \in Pointer : pc'[x] = IF x = p THEN IF isShared_ THEN "decrement" ELSE "read" ELSE pc[x]
      /\ UNCHANGED <<refCount_, isShared_, target, local, registered, locked, destroyed>>
  BY <1>1 DEF TypeOK, AssertsHold, Places, Counted, BaseRelease, Move
<1>4. References' = References
  BY <1>2, <1>3 DEF References, Counted
<1>5. CountIsExact'
  BY <1>1, <1>3, <1>4, CountStays
<1>6. refCount_' \in Nat /\ (refCount_' = 0 <=> References' = {})
  BY <1>5, CountThen
<1>7. AssertsHold'
  BY <1>1 DEF AssertsHold, BaseRelease
<1>8. TypeOK'
  BY <1>1, <1>3, <1>7 DEF TypeOK, AssertsHold
<1>9. UnsharedIsAlone'
  BY <1>1, <1>3, <1>4 DEF UnsharedIsAlone
<1>10. UnlockedInv'
  BY <1>1, <1>3 DEF UnlockedInv
<1>11. DeleteInv'
  BY <1>1, <1>3, <1>6 DEF DeleteInv, References, Counted
<1>12. LockInv'
  BY <1>1, <1>3 DEF LockInv, Trying
<1>13. CopyInv'
  BY <1>1, <1>2, <1>3, <1>4, <1>6 DEF TypeOK, AssertsHold, CopyInv
<1>14. NoLeak'
  BY <1>1, <1>2, <1>3, <1>4, <1>6 DEF NoLeak
<1> QED
  BY <1>5, <1>7, <1>8, <1>9, <1>10, <1>11, <1>12, <1>13, <1>14 DEF IInv

\* The interlocked decrement.
LEMMA InterlockedDecrementStep ==
    ASSUME IInv, NEW p \in Pointer, InterlockedDecrement(p)
    PROVE  IInv'
<1>1. /\ TypeOK /\ CountIsExact /\ UnsharedIsAlone /\ UnlockedInv /\ DeleteInv
      /\ LockInv /\ CopyInv /\ NoLeak /\ AssertsHold
      /\ refCount_ \in Nat /\ (refCount_ = 0 <=> References = {})
  BY CountNow DEF IInv
<1>2. pc[p] = "decrement"
  BY DEF InterlockedDecrement, Decremented, Move
<1>3. /\ pc' \in [Pointer -> Places]
      /\ \A x \in Pointer : pc'[x] = IF x = p THEN IF refCount_ - 1 = 0 THEN "delete" ELSE "empty" ELSE pc[x]
      /\ refCount_' = refCount_ - 1
      /\ UNCHANGED <<isShared_, target, local, registered, locked, destroyed>>
  <2>1. /\ refCount_' = refCount_ - 1
        /\ pc' = [pc EXCEPT ![p] = IF refCount_ - 1 = 0 THEN "delete" ELSE "empty"]
        /\ UNCHANGED <<isShared_, target, local, registered, locked, destroyed>>
    BY <1>1, <1>2 DEF InterlockedDecrement, Decremented, Move
  <2> QED
    BY <1>1, <2>1 DEF TypeOK, AssertsHold, Places, Counted
<1>4. /\ References' = References \ {p}
      /\ p \in References
  BY <1>1, <1>2, <1>3 DEF References, Counted
<1>5. CountIsExact'
  BY <1>1, <1>3, <1>4, CountDown
<1>6. refCount_' \in Nat /\ (refCount_' = 0 <=> References' = {})
  BY <1>5, CountThen
<1>7. AssertsHold'
  <2>1. refCount_ # 0
    BY <1>1, <1>4
  <2>2. refCount_ - 1 # -1
    BY <1>1, <2>1
  <2> QED
    BY <1>1, <1>2, <2>2 DEF AssertsHold, InterlockedDecrement, Decremented
<1>8. TypeOK'
  BY <1>1, <1>3, <1>6, <1>7 DEF TypeOK, AssertsHold
<1>9. UnsharedIsAlone'
  BY <1>1, <1>2, <1>3, <1>4, <1>6 DEF UnsharedIsAlone, References, Counted
<1>10. UnlockedInv'
  BY <1>1, <1>2, <1>3, <1>4, <1>6 DEF UnlockedInv, UnsharedIsAlone, References, Counted
<1>11. DeleteInv'
  BY <1>1, <1>2, <1>3, <1>4, <1>6 DEF DeleteInv, References, Counted
<1>12. LockInv'
  BY <1>1, <1>2, <1>3, <1>4, <1>6 DEF TypeOK, AssertsHold, LockInv, Trying, DeleteInv
<1>13. CopyInv'
  BY <1>1, <1>2, <1>3, <1>4, <1>6 DEF TypeOK, AssertsHold, CopyInv
<1>14. NoLeak'
  BY <1>1, <1>2, <1>3, <1>4, <1>6 DEF NoLeak
<1> QED
  BY <1>5, <1>7, <1>8, <1>9, <1>10, <1>11, <1>12, <1>13, <1>14 DEF IInv

\* The read of the unlocked decrement.
LEMMA PlainReadStep ==
    ASSUME IInv, NEW p \in Pointer, PlainRead(p)
    PROVE  IInv'
<1>1. /\ TypeOK /\ CountIsExact /\ UnsharedIsAlone /\ UnlockedInv /\ DeleteInv
      /\ LockInv /\ CopyInv /\ NoLeak /\ AssertsHold
      /\ refCount_ \in Nat /\ (refCount_ = 0 <=> References = {})
  BY CountNow DEF IInv
<1>2. pc[p] = "read"
  BY DEF PlainRead, Move
<1>3. /\ pc' \in [Pointer -> Places]
      /\ \A x \in Pointer : pc'[x] = IF x = p THEN "write" ELSE pc[x]
      /\ \A x \in Pointer : local'[x] = IF x = p THEN refCount_ ELSE local[x]
      /\ local' \in [Pointer -> Int]
      /\ UNCHANGED <<refCount_, isShared_, target, registered, locked, destroyed>>
  BY <1>1 DEF TypeOK, AssertsHold, Places, Counted, PlainRead, Move
<1>4. References' = References
  BY <1>1, <1>2, <1>3 DEF References, Counted
<1>5. CountIsExact'
  BY <1>1, <1>3, <1>4, CountStays
<1>6. refCount_' \in Nat /\ (refCount_' = 0 <=> References' = {})
  BY <1>5, CountThen
<1>7. AssertsHold'
  BY <1>1, <1>2, <1>4 DEF AssertsHold, PlainRead, Move
<1>8. TypeOK'
  BY <1>1, <1>3, <1>6, <1>7 DEF TypeOK, AssertsHold
<1>9. UnsharedIsAlone'
  BY <1>1, <1>2, <1>3, <1>4, <1>6 DEF UnsharedIsAlone, References, Counted
<1>10. UnlockedInv'
  BY <1>1, <1>2, <1>3, <1>4, <1>6 DEF UnlockedInv, UnsharedIsAlone, References, Counted
<1>11. DeleteInv'
  BY <1>1, <1>2, <1>3, <1>4, <1>6 DEF DeleteInv, References, Counted
<1>12. LockInv'
  BY <1>1, <1>2, <1>3, <1>4, <1>6 DEF TypeOK, AssertsHold, LockInv, Trying, DeleteInv
<1>13. CopyInv'
  BY <1>1, <1>2, <1>3, <1>4, <1>6 DEF TypeOK, AssertsHold, CopyInv
<1>14. NoLeak'
  BY <1>1, <1>2, <1>3, <1>4, <1>6 DEF NoLeak
<1> QED
  BY <1>5, <1>7, <1>8, <1>9, <1>10, <1>11, <1>12, <1>13, <1>14 DEF IInv

\* The write of the unlocked decrement.
LEMMA PlainWriteStep ==
    ASSUME IInv, NEW p \in Pointer, PlainWrite(p)
    PROVE  IInv'
<1>1. /\ TypeOK /\ CountIsExact /\ UnsharedIsAlone /\ UnlockedInv /\ DeleteInv
      /\ LockInv /\ CopyInv /\ NoLeak /\ AssertsHold
      /\ refCount_ \in Nat /\ (refCount_ = 0 <=> References = {})
  BY CountNow DEF IInv
<1>2. pc[p] = "write"
  BY DEF PlainWrite, Decremented, Move
<1>3. /\ pc' \in [Pointer -> Places]
      /\ \A x \in Pointer : pc'[x] = IF x = p THEN IF refCount_ - 1 = 0 THEN "delete" ELSE "empty" ELSE pc[x]
      /\ refCount_' = refCount_ - 1
      /\ UNCHANGED <<isShared_, target, local, registered, locked, destroyed>>
  <2>1. /\ refCount_' = refCount_ - 1
        /\ pc' = [pc EXCEPT ![p] = IF refCount_ - 1 = 0 THEN "delete" ELSE "empty"]
        /\ UNCHANGED <<isShared_, target, local, registered, locked, destroyed>>
    BY <1>1, <1>2 DEF UnlockedInv, PlainWrite, Decremented, Move
  <2> QED
    BY <1>1, <2>1 DEF TypeOK, AssertsHold, Places, Counted
<1>4. /\ References' = References \ {p}
      /\ p \in References
  BY <1>1, <1>2, <1>3 DEF References, Counted
<1>5. CountIsExact'
  BY <1>1, <1>3, <1>4, CountDown
<1>6. refCount_' \in Nat /\ (refCount_' = 0 <=> References' = {})
  BY <1>5, CountThen
<1>7. AssertsHold'
  <2>1. refCount_ # 0
    BY <1>1, <1>4
  <2>2. refCount_ - 1 # -1
    BY <1>1, <2>1
  <2> QED
    BY <1>1, <1>2, <2>2 DEF AssertsHold, PlainWrite, Decremented, UnlockedInv
<1>8. TypeOK'
  BY <1>1, <1>3, <1>6, <1>7 DEF TypeOK, AssertsHold
<1>9. UnsharedIsAlone'
  BY <1>1, <1>2, <1>3, <1>4, <1>6 DEF UnsharedIsAlone, References, Counted
<1>10. UnlockedInv'
  BY <1>1, <1>2, <1>3, <1>4, <1>6 DEF UnlockedInv, UnsharedIsAlone, References, Counted
<1>11. DeleteInv'
  BY <1>1, <1>2, <1>3, <1>4, <1>6 DEF DeleteInv, References, Counted
<1>12. LockInv'
  BY <1>1, <1>2, <1>3, <1>4, <1>6 DEF TypeOK, AssertsHold, LockInv, Trying, DeleteInv
<1>13. CopyInv'
  BY <1>1, <1>2, <1>3, <1>4, <1>6 DEF TypeOK, AssertsHold, CopyInv
<1>14. NoLeak'
  BY <1>1, <1>2, <1>3, <1>4, <1>6 DEF NoLeak
<1> QED
  BY <1>5, <1>7, <1>8, <1>9, <1>10, <1>11, <1>12, <1>13, <1>14 DEF IInv

\* The destructor.
LEMMA DeleteStep ==
    ASSUME IInv, NEW p \in Pointer, Delete(p)
    PROVE  IInv'
<1>1. /\ TypeOK /\ CountIsExact /\ UnsharedIsAlone /\ UnlockedInv /\ DeleteInv
      /\ LockInv /\ CopyInv /\ NoLeak /\ AssertsHold
      /\ refCount_ \in Nat /\ (refCount_ = 0 <=> References = {})
  BY CountNow DEF IInv
<1>2. pc[p] = "delete" /\ ~locked
  BY DEF Delete, Move
<1>3. /\ pc' \in [Pointer -> Places]
      /\ \A x \in Pointer : pc'[x] = IF x = p THEN "empty" ELSE pc[x]
      /\ registered' = FALSE
      /\ destroyed' = destroyed + 1
      /\ UNCHANGED <<refCount_, isShared_, target, local, locked>>
  BY <1>1 DEF TypeOK, AssertsHold, Places, Counted, Delete, Move
<1>4. References' = References
  BY <1>1, <1>2, <1>3 DEF References, Counted
<1>5. CountIsExact'
  BY <1>1, <1>3, <1>4, CountStays
<1>6. refCount_' \in Nat /\ (refCount_' = 0 <=> References' = {})
  BY <1>5, CountThen
<1>7. AssertsHold'
  BY <1>1, <1>2 DEF AssertsHold, DeleteInv, Delete
<1>8. TypeOK'
  <2>1. destroyed = 0
    BY <1>1, <1>2 DEF DeleteInv
  <2>2. destroyed' \in Nat
    BY <1>3, <2>1
  <2>3. registered' \in BOOLEAN
    BY <1>3, Zenon
  <2> QED
    BY <1>1, <1>3, <1>6, <1>7, <2>2, <2>3 DEF TypeOK, AssertsHold
<1>9. UnsharedIsAlone'
  BY <1>1, <1>2, <1>3, <1>4, <1>6 DEF UnsharedIsAlone, References, Counted
<1>10. UnlockedInv'
  BY <1>1, <1>2, <1>3, <1>4, <1>6 DEF UnlockedInv, UnsharedIsAlone, References, Counted
<1>11. DeleteInv'
  <2>1. \A q \in Pointer : q # p => pc[q] = "empty"
    BY <1>1, <1>2 DEF TypeOK, AssertsHold, DeleteInv, LockInv, CopyInv, Trying, References, Counted, Places
  <2> QED
    BY <1>1, <1>2, <1>3, <2>1 DEF DeleteInv
<1>12. LockInv'
  BY <1>1, <1>2, <1>3, <1>4, <1>6 DEF TypeOK, AssertsHold, LockInv, Trying, DeleteInv
<1>13. CopyInv'
  BY <1>1, <1>2, <1>3, <1>4, <1>6 DEF TypeOK, AssertsHold, CopyInv
<1>14. NoLeak'
  BY <1>1, <1>2, <1>3 DEF NoLeak, DeleteInv
<1> QED
  BY <1>5, <1>7, <1>8, <1>9, <1>10, <1>11, <1>12, <1>13, <1>14 DEF IInv

\* The object becomes known to event sources.
LEMMA RegisterStep ==
    ASSUME IInv, NEW p \in Pointer, Register(p), SharedFirst
    PROVE  IInv'
<1>1. /\ TypeOK /\ CountIsExact /\ UnsharedIsAlone /\ UnlockedInv /\ DeleteInv
      /\ LockInv /\ CopyInv /\ NoLeak /\ AssertsHold
      /\ refCount_ \in Nat /\ (refCount_ = 0 <=> References = {})
  BY CountNow DEF IInv
<1>2. pc[p] = "held" /\ isShared_
  BY DEF Register
<1>3. /\ pc' \in [Pointer -> Places]
      /\ pc' = pc
      /\ registered' = TRUE
      /\ UNCHANGED <<refCount_, isShared_, target, local, locked, destroyed>>
  BY <1>1 DEF TypeOK, AssertsHold, Places, Counted, Register
<1>4. References' = References
  BY <1>1, <1>2, <1>3 DEF References, Counted
<1>5. CountIsExact'
  BY <1>1, <1>3, <1>4, CountStays
<1>6. refCount_' \in Nat /\ (refCount_' = 0 <=> References' = {})
  BY <1>5, CountThen
<1>7. AssertsHold'
  BY <1>1, <1>2, <1>4 DEF AssertsHold, Register
<1>8. TypeOK'
  BY <1>1, <1>3, <1>6, <1>7 DEF TypeOK, AssertsHold
<1>9. UnsharedIsAlone'
  BY <1>1, <1>2, <1>3, <1>4, <1>6 DEF UnsharedIsAlone, References, Counted
<1>10. UnlockedInv'
  BY <1>1, <1>2, <1>3, <1>4, <1>6 DEF UnlockedInv, UnsharedIsAlone, References, Counted
<1>11. DeleteInv'
  BY <1>1, <1>2, <1>3, <1>4, <1>6 DEF DeleteInv, References, Counted
<1>12. LockInv'
  BY <1>1, <1>2, <1>3, <1>4, <1>6 DEF TypeOK, AssertsHold, LockInv, Trying, DeleteInv
<1>13. CopyInv'
  BY <1>1, <1>2, <1>3, <1>4, <1>6 DEF TypeOK, AssertsHold, CopyInv
<1>14. NoLeak'
  BY <1>1, <1>2, <1>3, <1>4, <1>6 DEF NoLeak
<1> QED
  BY <1>5, <1>7, <1>8, <1>9, <1>10, <1>11, <1>12, <1>13, <1>14 DEF IInv

\* An event source begins to use the object.
LEMMA BaseTryAddRefStep ==
    ASSUME IInv, NEW p \in Pointer, BaseTryAddRef(p)
    PROVE  IInv'
<1>1. /\ TypeOK /\ CountIsExact /\ UnsharedIsAlone /\ UnlockedInv /\ DeleteInv
      /\ LockInv /\ CopyInv /\ NoLeak /\ AssertsHold
      /\ refCount_ \in Nat /\ (refCount_ = 0 <=> References = {})
  BY CountNow DEF IInv
<1>2. pc[p] = "empty" /\ p \in Event /\ registered /\ ~locked
  BY DEF BaseTryAddRef, Move
<1>3. /\ pc' \in [Pointer -> Places]
      /\ \A x \in Pointer : pc'[x] = IF x = p THEN "tryread" ELSE pc[x]
      /\ locked' = TRUE
      /\ UNCHANGED <<refCount_, isShared_, target, local, registered, destroyed>>
  BY <1>1 DEF TypeOK, AssertsHold, Places, Counted, BaseTryAddRef, Move
<1>4. References' = References
  BY <1>1, <1>2, <1>3 DEF References, Counted
<1>5. CountIsExact'
  BY <1>1, <1>3, <1>4, CountStays
<1>6. refCount_' \in Nat /\ (refCount_' = 0 <=> References' = {})
  BY <1>5, CountThen
<1>7. AssertsHold'
  BY <1>1, <1>2, <1>4 DEF AssertsHold, BaseTryAddRef, Move
<1>8. TypeOK'
  BY <1>1, <1>3, <1>6, <1>7 DEF TypeOK, AssertsHold
<1>9. UnsharedIsAlone'
  BY <1>1, <1>2, <1>3, <1>4, <1>6 DEF UnsharedIsAlone, References, Counted
<1>10. UnlockedInv'
  BY <1>1, <1>2, <1>3, <1>4, <1>6 DEF UnlockedInv, UnsharedIsAlone, References, Counted
<1>11. DeleteInv'
  BY <1>1, <1>2, <1>3, <1>4, <1>6 DEF DeleteInv, References, Counted
<1>12. LockInv'
  BY <1>1, <1>2, <1>3, <1>4, <1>6 DEF TypeOK, AssertsHold, LockInv, Trying, DeleteInv
<1>13. CopyInv'
  BY <1>1, <1>2, <1>3, <1>4, <1>6 DEF TypeOK, AssertsHold, CopyInv
<1>14. NoLeak'
  BY <1>1, <1>2, <1>3, <1>4, <1>6 DEF NoLeak
<1> QED
  BY <1>5, <1>7, <1>8, <1>9, <1>10, <1>11, <1>12, <1>13, <1>14 DEF IInv

\* An event source reads the count.
LEMMA TryReadStep ==
    ASSUME IInv, NEW p \in Pointer, TryRead(p)
    PROVE  IInv'
<1>1. /\ TypeOK /\ CountIsExact /\ UnsharedIsAlone /\ UnlockedInv /\ DeleteInv
      /\ LockInv /\ CopyInv /\ NoLeak /\ AssertsHold
      /\ refCount_ \in Nat /\ (refCount_ = 0 <=> References = {})
  BY CountNow DEF IInv
<1>2. pc[p] = "tryread"
  BY DEF TryRead, Move
<1>3. /\ pc' \in [Pointer -> Places]
      /\ \A x \in Pointer : pc'[x] = IF x = p THEN IF refCount_ = 0 THEN "empty" ELSE "tryswap" ELSE pc[x]
      /\ locked' = (refCount_ # 0)
      /\ \A x \in Pointer : local'[x] =
            IF x = p /\ refCount_ # 0 THEN refCount_ ELSE local[x]
      /\ local' \in [Pointer -> Int]
      /\ UNCHANGED <<refCount_, isShared_, target, registered, destroyed>>
  <2>1. CASE refCount_ = 0
    BY <1>1, <1>2, <2>1 DEF TypeOK, AssertsHold, Places, Counted, LockInv, Trying, TryRead, Move
  <2>2. CASE refCount_ # 0
    BY <1>1, <1>2, <2>2 DEF TypeOK, AssertsHold, Places, Counted, LockInv, Trying, TryRead, Move
  <2> QED
    BY <2>1, <2>2
<1>4. References' = References
  BY <1>1, <1>2, <1>3 DEF References, Counted
<1>5. CountIsExact'
  BY <1>1, <1>3, <1>4, CountStays
<1>6. refCount_' \in Nat /\ (refCount_' = 0 <=> References' = {})
  BY <1>5, CountThen
<1>7. AssertsHold'
  BY <1>1, <1>2, <1>4 DEF AssertsHold, TryRead, Move
<1>8. TypeOK'
  BY <1>1, <1>3, <1>6, <1>7 DEF TypeOK, AssertsHold
<1>9. UnsharedIsAlone'
  BY <1>1, <1>2, <1>3, <1>4, <1>6 DEF UnsharedIsAlone, References, Counted
<1>10. UnlockedInv'
  BY <1>1, <1>2, <1>3, <1>4, <1>6 DEF UnlockedInv, UnsharedIsAlone, References, Counted
<1>11. DeleteInv'
  BY <1>1, <1>2, <1>3, <1>4, <1>6 DEF DeleteInv, References, Counted
<1>12. LockInv'
  BY <1>1, <1>2, <1>3, <1>4, <1>6 DEF TypeOK, AssertsHold, LockInv, Trying, DeleteInv
<1>13. CopyInv'
  BY <1>1, <1>2, <1>3, <1>4, <1>6 DEF TypeOK, AssertsHold, CopyInv
<1>14. NoLeak'
  BY <1>1, <1>2, <1>3, <1>4, <1>6 DEF NoLeak
<1> QED
  BY <1>5, <1>7, <1>8, <1>9, <1>10, <1>11, <1>12, <1>13, <1>14 DEF IInv

\* An event source tries to add its reference.
LEMMA InterlockedCompareExchangeStep ==
    ASSUME IInv, NEW p \in Pointer, InterlockedCompareExchange(p)
    PROVE  IInv'
<1>1. /\ TypeOK /\ CountIsExact /\ UnsharedIsAlone /\ UnlockedInv /\ DeleteInv
      /\ LockInv /\ CopyInv /\ NoLeak /\ AssertsHold
      /\ refCount_ \in Nat /\ (refCount_ = 0 <=> References = {})
  BY CountNow DEF IInv
<1>2. pc[p] = "tryswap"
  BY DEF InterlockedCompareExchange, Move
<1>3. /\ pc' \in [Pointer -> Places]
      /\ \A x \in Pointer : pc'[x] = IF x = p THEN IF refCount_ = local[p] THEN "held" ELSE "tryread" ELSE pc[x]
      /\ refCount_' = IF refCount_ = local[p] THEN refCount_ + 1 ELSE refCount_
      /\ locked' = (refCount_ # local[p])
      /\ UNCHANGED <<isShared_, target, local, registered, destroyed>>
  <2>1. CASE refCount_ = local[p]
    BY <1>1, <1>2, <2>1 DEF TypeOK, AssertsHold, Places, Counted, LockInv, Trying, InterlockedCompareExchange, Move
  <2>2. CASE refCount_ # local[p]
    BY <1>1, <1>2, <2>2 DEF TypeOK, AssertsHold, Places, Counted, LockInv, Trying, InterlockedCompareExchange, Move
  <2> QED
    BY <2>1, <2>2
<1>4. /\ References' = IF refCount_ = local[p] THEN References \cup {p} ELSE References
      /\ p \notin References
  BY <1>1, <1>2, <1>3 DEF References, Counted
<1>5. CountIsExact'
  BY <1>1, <1>3, <1>4, CountUp, CountStays
<1>6. refCount_' \in Nat /\ (refCount_' = 0 <=> References' = {})
  BY <1>5, CountThen
<1>7. AssertsHold'
  BY <1>1, <1>2, <1>4 DEF AssertsHold, InterlockedCompareExchange, Move
<1>8. TypeOK'
  BY <1>1, <1>3, <1>6, <1>7 DEF TypeOK, AssertsHold
<1>9. UnsharedIsAlone'
  BY <1>1, <1>2, <1>3, <1>4, <1>6 DEF UnsharedIsAlone, LockInv, Trying
<1>10. UnlockedInv'
  BY <1>1, <1>2, <1>3, <1>4, <1>6 DEF UnlockedInv, UnsharedIsAlone, LockInv, Trying
<1>11. DeleteInv'
  BY <1>1, <1>2, <1>3, <1>4, <1>6 DEF DeleteInv, LockInv, Trying, References, Counted
<1>12. LockInv'
  BY <1>1, <1>2, <1>3, <1>4, <1>6 DEF TypeOK, AssertsHold, LockInv, Trying, DeleteInv
<1>13. CopyInv'
  BY <1>1, <1>2, <1>3, <1>4, <1>6 DEF TypeOK, AssertsHold, CopyInv
<1>14. NoLeak'
  BY <1>1, <1>2, <1>3, <1>4, <1>6 DEF NoLeak
<1> QED
  BY <1>5, <1>7, <1>8, <1>9, <1>10, <1>11, <1>12, <1>13, <1>14 DEF IInv

\* The new object has the reference that make_com returns.
LEMMA InitEstablishes ==
    ASSUME Init
    PROVE  IInv
<1>1. References = {First}
  BY PointersAssumption DEF Init, References, Counted
<1>2. CountIsExact
  BY <1>1, FS_Singleton DEF Init, CountIsExact
<1>3. TypeOK /\ AssertsHold
  <2>1. isShared_ \in BOOLEAN /\ registered \in BOOLEAN /\ locked \in BOOLEAN
    BY Zenon DEF Init
  <2>2. /\ pc \in [Pointer -> Places]
        /\ target \in [Pointer -> Pointer]
        /\ local \in [Pointer -> Int]
    BY DEF Init, Places, Counted
  <2>3. refCount_ \in Nat /\ destroyed \in Nat /\ asserts = {}
    BY DEF Init
  <2> QED
    BY <2>1, <2>2, <2>3 DEF TypeOK, AssertsHold
<1>4. UnsharedIsAlone /\ UnlockedInv /\ NoLeak
  BY <1>1 DEF Init, UnsharedIsAlone, UnlockedInv, NoLeak
<1>5. DeleteInv /\ LockInv /\ CopyInv
  BY DEF Init, DeleteInv, LockInv, CopyInv, Trying
<1> QED
  BY <1>2, <1>3, <1>4, <1>5 DEF IInv

\* A step that changes nothing.
LEMMA StutterStep ==
    ASSUME IInv, UNCHANGED vars
    PROVE  IInv'
BY DEF vars, IInv, TypeOK, CountIsExact, UnsharedIsAlone, UnlockedInv, DeleteInv,
       LockInv, CopyInv, NoLeak, AssertsHold, References, Trying

LEMMA NextPreserves ==
    ASSUME IInv, [Next]_vars, SharedFirst
    PROVE  IInv'
<1>1. CASE UNCHANGED vars
  BY <1>1, StutterStep
<1>2. ASSUME NEW p \in Pointer, Proceed(p)
      PROVE  IInv'
  BY <1>2, IncrementStep, InterlockedDecrementStep, PlainReadStep, PlainWriteStep,
     DeleteStep, TryReadStep, InterlockedCompareExchangeStep DEF Proceed
<1>3. ASSUME NEW p \in Pointer, BaseRelease(p) \/ Register(p) \/ BaseTryAddRef(p)
      PROVE  IInv'
  BY <1>3, BaseReleaseStep, RegisterStep, BaseTryAddRefStep
<1>4. ASSUME NEW p \in Pointer, NEW q \in Pointer, BaseAddRef(p, q) \/ MoveTo(p, q)
      PROVE  IInv'
  BY <1>4, BaseAddRefStep, MoveToStep
<1> QED
  BY <1>1, <1>2, <1>3, <1>4 DEF Next
-----------------------------------------------------------------------------
(***************************************************************************)
(* The theorems.                                                           *)
(***************************************************************************)
\* IInv is an invariant of every object that is shared before event sources
\* know it.
THEOREM Invariance == ASSUME SharedFirst PROVE Spec => []IInv
<1>1. Init => IInv
  BY InitEstablishes
<1>2. IInv /\ [Next]_vars => IInv'
  BY NextPreserves
<1> QED
  BY <1>1, <1>2, PTL DEF Spec

\* The count is the number of references at every moment of AddRef, Release,
\* TryAddRef and of the decrement without a lock prefix.
THEOREM CountIsAlwaysExact == ASSUME SharedFirst PROVE Spec => []CountIsExact
<1>1. IInv => CountIsExact
  BY DEF IInv
<1> QED
  BY <1>1, Invariance, PTL

\* Nobody uses the object after it was deleted, and it is deleted once.
THEOREM NeverUsedAfterDelete == ASSUME SharedFirst PROVE Spec => []NoUseAfterDelete
<1>1. IInv => NoUseAfterDelete
  BY DEF IInv, DeleteInv, NoUseAfterDelete
<1> QED
  BY <1>1, Invariance, PTL

\* The asserts of BaseAddRef, BaseRelease and the destructor hold.
THEOREM AssertsNeverFail == ASSUME SharedFirst PROVE Spec => []AssertsHold
<1>1. IInv => AssertsHold
  BY DEF IInv
<1> QED
  BY <1>1, Invariance, PTL

\* An object without references has been deleted, or is being deleted.
THEOREM NeverLeaks == ASSUME SharedFirst PROVE Spec => []NoLeak
<1>1. IInv => NoLeak
  BY DEF IInv
<1> QED
  BY <1>1, Invariance, PTL

\* A reference from BaseTryAddRef keeps the object from being deleted.
THEOREM TryAddRefIsAlwaysSafe == ASSUME SharedFirst PROVE Spec => []TryAddRefIsSafe
<1>1. ASSUME IInv, NEW e \in Event, pc[e] \in Counted
      PROVE  destroyed = 0 /\ \A p \in Pointer : pc[p] # "delete"
  <2>1. e \in References /\ pc[e] # "empty"
    BY <1>1, PointersAssumption DEF References, Counted
  <2> QED
    BY <1>1, <2>1, PointersAssumption DEF IInv, DeleteInv, References
<1>2. IInv => TryAddRefIsSafe
  BY <1>1 DEF TryAddRefIsSafe
<1> QED
  BY <1>2, Invariance, PTL

\* The thread in the unlocked decrement is the only one that uses the object.
THEOREM UnlockedIsAlwaysAlone == ASSUME SharedFirst PROVE Spec => []UnlockedIsAlone
<1>1. ASSUME IInv, NEW p \in Pointer, pc[p] \in {"read", "write"}, NEW q \in Pointer \ {p}
      PROVE  pc[q] = "empty"
  <2>1. p \in References /\ ~isShared_
    BY <1>1 DEF IInv, UnlockedInv, References, Counted
  <2>2. q \notin References /\ pc[q] # "copied" /\ ~registered
    BY <1>1, <2>1 DEF IInv, UnsharedIsAlone
  <2>3. pc[q] # "delete" /\ q \notin Trying
    BY <1>1, <2>1, <2>2 DEF IInv, DeleteInv, LockInv
  <2>4. pc[q] \in Places
    BY <1>1 DEF IInv, TypeOK
  <2> QED
    BY <2>2, <2>3, <2>4 DEF References, Trying, Places, Counted
<1>2. IInv => UnlockedIsAlone
  BY <1>1 DEF UnlockedIsAlone
<1> QED
  BY <1>2, Invariance, PTL
-----------------------------------------------------------------------------
(***************************************************************************)
(* What the count promises the ComPointers.  A copy is held when its       *)
(* BaseAddRef has counted it, and let go when BaseRelease has counted it   *)
(* out.                                                                    *)
(***************************************************************************)
Life == IF destroyed = 0 THEN "alive" ELSE IF destroyed = 1 THEN "deleted" ELSE "deleted twice"

Shared == INSTANCE SharedObject WITH
    Holder <- Pointer, holders <- References, life <- Life

SameHolders == References' = References /\ destroyed' = destroyed

LEMMA IncrementAcquires ==
    ASSUME IInv, NEW p \in Pointer, Increment(p)
    PROVE  Shared!Acquire(target[p])
<1>1. /\ pc[p] = "addref" /\ pc[target[p]] = "copied" /\ target[p] \in Pointer
      /\ pc' = [pc EXCEPT ![p] = "held", ![target[p]] = "held"]
      /\ UNCHANGED destroyed
  BY DEF Increment, IInv, CopyInv, TypeOK
<1>2. p \in References /\ target[p] \notin References
  BY <1>1 DEF References, Counted
<1>3. \A x \in Pointer : pc'[x] = IF x \in {p, target[p]} THEN "held" ELSE pc[x]
  BY <1>1 DEF IInv, TypeOK
<1>4. References' = References \cup {target[p]}
  BY <1>1, <1>2, <1>3 DEF References, Counted
<1> QED
  BY <1>1, <1>2, <1>4 DEF Shared!Acquire, Life

\* BaseTryAddRef gets a reference only from a count that is not zero.
LEMMA CompareExchangeAcquires ==
    ASSUME IInv, NEW e \in Pointer, InterlockedCompareExchange(e)
    PROVE  Shared!Acquire(e) \/ SameHolders
<1>1. pc[e] = "tryswap" /\ local[e] # 0 /\ e \notin References /\ UNCHANGED destroyed
  BY DEF InterlockedCompareExchange, IInv, LockInv, References, Counted
<1>2. CASE refCount_ = local[e]
  <2>1. \A x \in Pointer : pc'[x] = IF x = e THEN "held" ELSE pc[x]
    BY <1>2 DEF InterlockedCompareExchange, Move, IInv, TypeOK
  <2>2. References' = References \cup {e}
    BY <1>1, <2>1 DEF References, Counted
  <2>3. References # {}
    BY <1>1, <1>2, CountNow DEF IInv
  <2> QED
    BY <1>1, <2>2, <2>3 DEF Shared!Acquire, Life
<1>3. CASE refCount_ # local[e]
  <2>1. \A x \in Pointer : pc'[x] = IF x = e THEN "tryread" ELSE pc[x]
    BY <1>3 DEF InterlockedCompareExchange, Move, IInv, TypeOK
  <2>2. References' = References
    BY <1>1, <2>1 DEF References, Counted
  <2> QED
    BY <1>1, <2>2 DEF SameHolders
<1> QED
  BY <1>2, <1>3

LEMMA MoveHands ==
    ASSUME IInv, NEW p \in Pointer, NEW q \in Pointer, MoveTo(p, q)
    PROVE  Shared!Hand(p, q)
<1>1. pc[p] = "held" /\ pc[q] = "empty" /\ UNCHANGED destroyed
  BY DEF MoveTo
<1>2. p \in References /\ q \notin References
  BY <1>1 DEF References, Counted
<1>3. \A x \in Pointer : pc'[x] = IF x = q THEN "held" ELSE IF x = p THEN "empty" ELSE pc[x]
  BY DEF MoveTo, IInv, TypeOK
<1>4. References' = (References \ {p}) \cup {q}
  BY <1>1, <1>3 DEF References, Counted
<1> QED
  BY <1>1, <1>2, <1>4 DEF Shared!Hand, Life

LEMMA DecrementLetsGo ==
    ASSUME IInv, NEW p \in Pointer, InterlockedDecrement(p) \/ PlainWrite(p)
    PROVE  Shared!LetGo(p)
<1>1. /\ pc[p] \in {"decrement", "write"} /\ UNCHANGED destroyed
      /\ \E place \in {"delete", "empty"} : pc' = [pc EXCEPT ![p] = place]
  BY DEF InterlockedDecrement, PlainWrite, Decremented, Move
<1>2. p \in References
  BY <1>1 DEF References, Counted
<1>3. /\ pc'[p] \in {"delete", "empty"}
      /\ \A x \in Pointer \ {p} : pc'[x] = pc[x]
  <2>1. pc \in [Pointer -> Places]
    BY DEF IInv, TypeOK
  <2>2. PICK place \in {"delete", "empty"} : pc' = [pc EXCEPT ![p] = place]
    BY <1>1
  <2> QED
    BY <2>1, <2>2
<1>4. References' = References \ {p}
  BY <1>1, <1>3 DEF References, Counted
<1> QED
  BY <1>1, <1>2, <1>4 DEF Shared!LetGo, Life

LEMMA DeleteDeletes ==
    ASSUME IInv, NEW p \in Pointer, Delete(p)
    PROVE  Shared!Delete
<1>1. pc[p] = "delete" /\ References = {} /\ destroyed = 0 /\ destroyed' = 1
  BY DEF Delete, IInv, DeleteInv
<1>2. \A x \in Pointer : pc'[x] = IF x = p THEN "empty" ELSE pc[x]
  BY DEF Delete, Move, IInv, TypeOK
<1>3. References' = References
  BY <1>1, <1>2 DEF References, Counted
<1> QED
  BY <1>1, <1>3 DEF Shared!Delete, Shared!Deleted, Life

\* The steps that go into a call or through it, and leave the references as they are.
LEMMA OthersKeepHolders ==
    ASSUME IInv, NEW p \in Pointer,
           \/ BaseRelease(p) \/ Register(p) \/ BaseTryAddRef(p) \/ PlainRead(p) \/ TryRead(p)
           \/ \E q \in Pointer : BaseAddRef(p, q)
    PROVE  SameHolders
<1>1. pc \in [Pointer -> Places]
  BY DEF IInv, TypeOK
<1>2. CASE BaseRelease(p) \/ PlainRead(p)
  <2>1. /\ pc[p] \in Counted /\ UNCHANGED destroyed
        /\ \E place \in Counted : pc' = [pc EXCEPT ![p] = place]
    BY <1>2 DEF BaseRelease, PlainRead, Move, Counted
  <2>2. pc'[p] \in Counted /\ \A x \in Pointer \ {p} : pc'[x] = pc[x]
    BY <1>1, <2>1
  <2> QED
    BY <2>1, <2>2 DEF References, SameHolders
<1>3. CASE Register(p)
  <2>1. pc' = pc /\ destroyed' = destroyed
    BY <1>3 DEF Register
  <2> QED
    BY <2>1 DEF References, SameHolders
<1>4. CASE BaseTryAddRef(p) \/ TryRead(p)
  <2>1. /\ pc[p] \notin Counted /\ UNCHANGED destroyed
        /\ \E place \in {"tryread", "tryswap", "empty"} : pc' = [pc EXCEPT ![p] = place]
    BY <1>4 DEF BaseTryAddRef, TryRead, Move, Counted
  <2>2. pc'[p] \notin Counted /\ \A x \in Pointer \ {p} : pc'[x] = pc[x]
    BY <1>1, <2>1 DEF Counted
  <2> QED
    BY <2>1, <2>2 DEF References, SameHolders
<1>5. ASSUME NEW q \in Pointer, BaseAddRef(p, q)
      PROVE  SameHolders
  <2>1. /\ pc[p] = "held" /\ pc[q] = "empty" /\ UNCHANGED destroyed
        /\ pc' = [pc EXCEPT ![p] = "addref", ![q] = "copied"]
    BY <1>5 DEF BaseAddRef
  <2>2. /\ pc'[p] = "addref" /\ pc'[q] = "copied"
        /\ \A x \in Pointer \ {p, q} : pc'[x] = pc[x]
    BY <1>1, <2>1
  <2>3. /\ "held" \in Counted /\ "addref" \in Counted
        /\ "empty" \notin Counted /\ "copied" \notin Counted
    BY DEF Counted
  <2>4. \A x \in Pointer : pc'[x] \in Counted <=> pc[x] \in Counted
    BY <2>1, <2>2, <2>3
  <2> QED
    BY <2>1, <2>4 DEF References, SameHolders
<1> QED
  BY <1>2, <1>3, <1>4, <1>5

LEMMA StepIsShared ==
    ASSUME IInv, [Next]_vars
    PROVE  Shared!Next \/ SameHolders
<1>1. ASSUME NEW p \in Pointer, Proceed(p)
      PROVE  Shared!Next \/ SameHolders
  <2>1. target[p] \in Pointer
    BY DEF IInv, TypeOK
  <2>2. CASE Increment(p) \/ InterlockedDecrement(p) \/ PlainWrite(p) \/ Delete(p)
    BY <2>1, <2>2, IncrementAcquires, DecrementLetsGo, DeleteDeletes DEF Shared!Next
  <2>3. CASE InterlockedCompareExchange(p)
    BY <2>3, CompareExchangeAcquires DEF Shared!Next
  <2>4. CASE PlainRead(p) \/ TryRead(p)
    BY <2>4, OthersKeepHolders
  <2> QED
    BY <1>1, <2>2, <2>3, <2>4 DEF Proceed
<1>2. ASSUME NEW p \in Pointer, BaseRelease(p) \/ Register(p) \/ BaseTryAddRef(p)
      PROVE  SameHolders
  <2>1. CASE BaseRelease(p)
    BY <2>1, OthersKeepHolders
  <2>2. CASE Register(p)
    BY <2>2, OthersKeepHolders
  <2>3. CASE BaseTryAddRef(p)
    BY <2>3, OthersKeepHolders
  <2> QED
    BY <1>2, <2>1, <2>2, <2>3
<1>3. ASSUME NEW p \in Pointer, NEW q \in Pointer, BaseAddRef(p, q) \/ MoveTo(p, q)
      PROVE  Shared!Next \/ SameHolders
  BY <1>3, OthersKeepHolders, MoveHands DEF Shared!Next
<1>4. UNCHANGED vars => SameHolders
  BY DEF vars, References, SameHolders
<1> QED
  BY <1>1, <1>2, <1>3, <1>4 DEF Next

(***************************************************************************)
(* The object is what SharedObject says: while a pointer has a reference   *)
(* others can get one, event sources too; after the last one is gone       *)
(* nobody gets one again, and the object is deleted once.                  *)
(***************************************************************************)
THEOREM CountKeepsPromise == ASSUME SharedFirst PROVE Spec => Shared!Spec
<1>1. Init => Shared!Init
  <2>1. Init => References = {First} /\ Life = "alive"
    BY PointersAssumption DEF Init, References, Counted, Life
  <2> QED
    BY <2>1, PointersAssumption DEF Shared!Init
<1>2. IInv /\ [Next]_vars => [Shared!Next]_(Shared!vars)
  BY StepIsShared DEF Shared!vars, SameHolders, Life
<1> QED
  BY <1>1, <1>2, Invariance, PTL DEF Spec, Shared!Spec
=============================================================================
