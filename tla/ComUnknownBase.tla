--------------------------- MODULE ComUnknownBase ---------------------------
(***************************************************************************)
(* Common::ComUnknownBase and the ComPointers that refer to one COM        *)
(* object: the reference count, which is decremented without a lock        *)
(* prefix as long as the object has never been shared, and BaseTryAddRef,  *)
(* by which an event source that holds no reference tries to get one.      *)
(*                                                                         *)
(* A ComPointer is used by one thread at a time, so the pointers are the   *)
(* actors; each call on the object is cut where another thread can run.    *)
(*                                                                         *)
(* Event sources follow the rule in ComUnknownBase.h:35-37: they use the   *)
(* object under a lock of their own, and the destructor of the object      *)
(* removes it from them under that lock.                                   *)
(***************************************************************************)
EXTENDS Integers, FiniteSets

CONSTANTS
    Pointer,     \* the ComPointers
    First,       \* the one make_com puts the new object in
    Event,       \* pointers that an event source fills by BaseTryAddRef
    SharedFirst  \* the object is made known to event sources after an AddRef

ASSUME PointersAssumption ==
    /\ IsFiniteSet(Pointer)
    /\ First \in Pointer \ Event
    /\ Event \subseteq Pointer
    /\ SharedFirst \in BOOLEAN

VARIABLES
    refCount_, isShared_,
    pc,         \* what is going on with each pointer
    target,     \* the pointer that a copy is for
    local,      \* the value of refCount_ that a thread has read
    registered, \* event sources know the object
    locked,     \* an event source holds its lock
    destroyed,  \* how often the object was deleted
    asserts     \* the asserts that were false

vars == <<refCount_, isShared_, pc, target, local, registered, locked, destroyed, asserts>>

\* "empty" and "copied": no reference.  "held": one reference, no call.
\* Places in calls on the object: the others.
Counted == {"held", "addref", "release", "decrement", "read", "write"}
Places == Counted \cup {"empty", "copied", "delete", "tryread", "tryswap"}

Init ==
    /\ refCount_ = 1
    /\ isShared_ = FALSE
    /\ pc = [p \in Pointer |-> IF p = First THEN "held" ELSE "empty"]
    /\ target = [p \in Pointer |-> p]
    /\ local = [p \in Pointer |-> 0]
    /\ registered = FALSE
    /\ locked = FALSE
    /\ destroyed = 0
    /\ asserts = {}

Move(p, place) == pc' = [pc EXCEPT ![p] = place]
-----------------------------------------------------------------------------
(***************************************************************************)
(* Copying: BaseAddRef through a pointer that holds a reference.           *)
(***************************************************************************)
\* A slip: BaseAddRef does not set isShared_.
MutantBaseAddRef(p, q) ==
    /\ pc[p] = "held" /\ pc[q] = "empty" /\ q \notin Event
    /\ pc' = [pc EXCEPT ![p] = "addref", ![q] = "copied"]
    /\ target' = [target EXCEPT ![p] = q]
    /\ UNCHANGED <<refCount_, isShared_, local, registered, locked, destroyed, asserts>>

BaseAddRef(p, q) ==
    /\ pc[p] = "held" /\ pc[q] = "empty" /\ q \notin Event
    /\ isShared_' = TRUE
    /\ pc' = [pc EXCEPT ![p] = "addref", ![q] = "copied"]
    /\ target' = [target EXCEPT ![p] = q]
    /\ UNCHANGED <<refCount_, local, registered, locked, destroyed, asserts>>

Increment(p) ==
    /\ pc[p] = "addref"
    /\ refCount_' = refCount_ + 1
    /\ asserts' = IF refCount_' = 1 THEN asserts \cup {"released"} ELSE asserts
    /\ pc' = [pc EXCEPT ![p] = "held", ![target[p]] = "held"]
    /\ UNCHANGED <<isShared_, target, local, registered, locked, destroyed>>

\* Moving a pointer, as the cleanup of operator= and Release do.
MoveTo(p, q) ==
    /\ pc[p] = "held" /\ pc[q] = "empty" /\ q \notin Event
    /\ pc' = [pc EXCEPT ![p] = "empty", ![q] = "held"]
    /\ UNCHANGED <<refCount_, isShared_, target, local, registered, locked,
                   destroyed, asserts>>
-----------------------------------------------------------------------------
(***************************************************************************)
(* BaseRelease.                                                            *)
(***************************************************************************)
\* A slip: BaseRelease never takes the interlocked branch.
MutantBaseRelease(p) ==
    /\ pc[p] = "held"
    /\ Move(p, "read")
    /\ UNCHANGED <<refCount_, isShared_, target, local, registered, locked,
                   destroyed, asserts>>

BaseRelease(p) ==
    /\ pc[p] = "held"
    /\ Move(p, IF isShared_ THEN "decrement" ELSE "read")
    /\ UNCHANGED <<refCount_, isShared_, target, local, registered, locked,
                   destroyed, asserts>>

\* The count after a decrement to n: the assert, and delete this.
Decremented(p, n) ==
    /\ refCount_' = n
    /\ asserts' = IF n = -1 THEN asserts \cup {"too many releases"} ELSE asserts
    /\ Move(p, IF n = 0 THEN "delete" ELSE "empty")
    /\ UNCHANGED <<isShared_, target, registered, locked, destroyed>>

InterlockedDecrement(p) ==
    /\ pc[p] = "decrement"
    /\ Decremented(p, refCount_ - 1)
    /\ UNCHANGED local

\* --refCount_ is a read and a write.
PlainRead(p) ==
    /\ pc[p] = "read"
    /\ local' = [local EXCEPT ![p] = refCount_]
    /\ Move(p, "write")
    /\ UNCHANGED <<refCount_, isShared_, target, registered, locked, destroyed, asserts>>

PlainWrite(p) ==
    /\ pc[p] = "write"
    /\ Decremented(p, local[p] - 1)
    /\ UNCHANGED local

\* The destructor waits for the event source, and leaves it.
Delete(p) ==
    /\ pc[p] = "delete"
    /\ ~locked
    /\ registered' = FALSE
    /\ destroyed' = destroyed + 1
    /\ asserts' = IF refCount_ # 0 THEN asserts \cup {"destructed"} ELSE asserts
    /\ Move(p, "empty")
    /\ UNCHANGED <<refCount_, isShared_, target, local, locked>>
-----------------------------------------------------------------------------
(***************************************************************************)
(* Event sources and BaseTryAddRef.                                        *)
(***************************************************************************)
Register(p) ==
    /\ Event # {} /\ ~registered /\ ~locked
    /\ pc[p] = "held"
    /\ SharedFirst => isShared_
    /\ registered' = TRUE
    /\ UNCHANGED <<refCount_, isShared_, pc, target, local, locked, destroyed, asserts>>

BaseTryAddRef(e) ==
    /\ e \in Event /\ pc[e] = "empty"
    /\ registered /\ ~locked
    /\ locked' = TRUE
    /\ Move(e, "tryread")
    /\ UNCHANGED <<refCount_, isShared_, target, local, registered, destroyed, asserts>>

\* A slip: BaseTryAddRef does not look whether the count is zero.
MutantTryRead(e) ==
    /\ pc[e] = "tryread"
    /\ local' = [local EXCEPT ![e] = refCount_]
    /\ Move(e, "tryswap")
    /\ UNCHANGED <<refCount_, isShared_, target, registered, locked, destroyed, asserts>>

TryRead(e) ==
    /\ pc[e] = "tryread"
    /\ IF refCount_ = 0
       THEN Move(e, "empty") /\ locked' = FALSE /\ UNCHANGED local
       ELSE /\ local' = [local EXCEPT ![e] = refCount_]
            /\ Move(e, "tryswap")
            /\ UNCHANGED locked
    /\ UNCHANGED <<refCount_, isShared_, target, registered, destroyed, asserts>>

\* A slip: BaseTryAddRef stores the new count without a compare.
MutantCompareExchange(e) ==
    /\ pc[e] = "tryswap"
    /\ refCount_' = local[e] + 1 /\ Move(e, "held") /\ locked' = FALSE
    /\ UNCHANGED <<isShared_, target, local, registered, destroyed, asserts>>

InterlockedCompareExchange(e) ==
    /\ pc[e] = "tryswap"
    /\ IF refCount_ = local[e]
       THEN refCount_' = local[e] + 1 /\ Move(e, "held") /\ locked' = FALSE
       ELSE Move(e, "tryread") /\ UNCHANGED <<refCount_, locked>>
    /\ UNCHANGED <<isShared_, target, local, registered, destroyed, asserts>>
-----------------------------------------------------------------------------
\* What a thread does once it is in a call.
Proceed(p) ==
    \/ Increment(p) \/ InterlockedDecrement(p) \/ PlainRead(p) \/ PlainWrite(p)
    \/ Delete(p) \/ TryRead(p) \/ InterlockedCompareExchange(p)

Next ==
    \/ \E p \in Pointer : Proceed(p) \/ BaseRelease(p) \/ Register(p) \/ BaseTryAddRef(p)
    \/ \E p, q \in Pointer : BaseAddRef(p, q) \/ MoveTo(p, q)
    \/ (\A p \in Pointer : pc[p] = "empty") /\ UNCHANGED vars

Spec == Init /\ [][Next]_vars
-----------------------------------------------------------------------------
\* Types of the variables; the count is never below zero.
TypeOK ==
    /\ refCount_ \in Nat
    /\ isShared_ \in BOOLEAN
    /\ pc \in [Pointer -> Places]
    /\ target \in [Pointer -> Pointer]
    /\ local \in [Pointer -> Int]
    /\ registered \in BOOLEAN /\ locked \in BOOLEAN
    /\ destroyed \in Nat
    /\ asserts \subseteq {"released", "too many releases", "destructed"}

References == {p \in Pointer : pc[p] \in Counted}

(***************************************************************************)
(* The count is the number of references at every moment, also while       *)
(* threads are inside BaseAddRef, BaseRelease and the unlocked decrement.  *)
(***************************************************************************)
CountIsExact == refCount_ = Cardinality(References)

(***************************************************************************)
(* The object outlives every use of it: it is deleted at most once, and    *)
(* from then on there is no reference and no call in progress.             *)
(***************************************************************************)
NoUseAfterDelete ==
    /\ destroyed <= 1
    /\ destroyed = 1 => \A p \in Pointer : pc[p] = "empty"

\* The asserts of BaseAddRef, BaseRelease and the destructor hold.
AssertsHold == asserts = {}

(***************************************************************************)
(* The object does not leak: when the last reference is gone it has been   *)
(* deleted, or the thread that released the reference is about to do it.   *)
(***************************************************************************)
NoLeak == References = {} => destroyed = 1 \/ \E p \in Pointer : pc[p] = "delete"

(***************************************************************************)
(* The unlocked decrement is safe because the thread in it has the only    *)
(* reference and no other thread is at refCount_.                          *)
(***************************************************************************)
UnlockedIsAlone ==
    \A p \in Pointer : pc[p] \in {"read", "write"} =>
        \A q \in Pointer \ {p} : pc[q] = "empty"

(***************************************************************************)
(* ComUnknownBase.h:24-30 says that BaseTryAddRef "can be safely called    *)
(* concurrently with the COM object destructor", and that a caller that    *)
(* got a non-zero answer must call Release: a reference obtained by an     *)
(* event source keeps the object from being deleted.                       *)
(***************************************************************************)
TryAddRefIsSafe ==
    \A e \in Event : pc[e] \in Counted => destroyed = 0 /\ \A p \in Pointer : pc[p] # "delete"
=============================================================================
