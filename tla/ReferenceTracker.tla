-------------------------- MODULE ReferenceTracker --------------------------
(***************************************************************************)
(* Common::ComponentRoot with reference tracking.  CreateComponentRoot     *)
(* makes a ComponentRootReference, which keeps the root alive and is       *)
(* listed, by a weak pointer, in the table of the tracker, which the root  *)
(* owns.  The last owner of a reference takes it out of the table in its   *)
(* destructor and then lets the root go, while others add references or    *)
(* print the table.                                                        *)
(*                                                                         *)
(* lock_ is a mutex (stdafx.h), which a thread must not take twice.  What  *)
(* is done under it is one step, except for printing: each weak pointer is *)
(* locked in a step of its own, as threads drop references without lock_.  *)
(***************************************************************************)
EXTENDS Naturals, FiniteSets

CONSTANTS
    Owner,     \* the thread that made the component and has a pointer to it
    Users,     \* threads that get references to it
    Printers,  \* those of them that print the table once
    MaxId,     \* bound: the references that are made
    NoThread

Thread == {Owner} \cup Users
Id == 1..MaxId

ASSUME TrackerAssumption ==
    /\ Owner \notin Users /\ Printers \subseteq Thread /\ NoThread \notin Thread
    /\ MaxId \in Nat

VARIABLES
    references_, nextId_, lock_, \* the members of the tracker
    owned,       \* the pointer of the owner is there
    rooted,      \* the references whose root_ is
    destroyed,   \* the root, and the tracker with it, is not
    held,        \* the references a thread has in a RootedObjectPointer
    copies,      \* and those in referencesCopy while it prints
    pc, id,      \* where the thread is, and with which reference
    todo,        \* the entries it has still to look at
    toPrint      \* threads that have not printed yet

vars == <<references_, nextId_, lock_, owned, rooted, destroyed, held, copies, pc, id,
          todo, toPrint>>
root == <<owned, rooted, destroyed>>

Init ==
    /\ references_ = {} /\ nextId_ = 0 /\ lock_ = NoThread
    /\ owned = TRUE /\ rooted = {} /\ destroyed = FALSE
    /\ held = [t \in Thread |-> {}]
    /\ copies = [t \in Thread |-> {}]
    /\ pc = [t \in Thread |-> "idle"]
    /\ id = [t \in Thread |-> 0]
    /\ todo = [t \in Thread |-> {}]
    /\ toPrint = Printers

\* Reference r has an owner, so that its weak pointers can be locked.
Strong(r) == \E t \in Thread : r \in held[t] \cup copies[t]

\* Thread t is in no function, and has a pointer that keeps the root alive.
Ready(t) == pc[t] = "idle" /\ (held[t] # {} \/ (t = Owner /\ owned))

At(t, place) == pc[t] = place
Goto(t, place) == pc' = [pc EXCEPT ![t] = place]
Unlocked == lock_ = NoThread
-----------------------------------------------------------------------------
\* A slip: the reference does not keep the root alive.
MutantCreate(t) ==
    /\ Ready(t) /\ nextId_ < MaxId
    /\ nextId_' = nextId_ + 1
    /\ held' = [held EXCEPT ![t] = @ \cup {nextId_'}]
    /\ id' = [id EXCEPT ![t] = nextId_']
    /\ Goto(t, "add")
    /\ UNCHANGED <<references_, lock_, root, copies, todo, toPrint>>

\* CreateComponentRoot: the reference is there before the table knows it.
Create(t) ==
    /\ Ready(t) /\ nextId_ < MaxId
    /\ nextId_' = nextId_ + 1
    /\ held' = [held EXCEPT ![t] = @ \cup {nextId_'}]
    /\ rooted' = rooted \cup {nextId_'}
    /\ id' = [id EXCEPT ![t] = nextId_']
    /\ Goto(t, "add")
    /\ UNCHANGED <<references_, lock_, owned, destroyed, copies, todo, toPrint>>

AddReference(t) ==
    /\ At(t, "add") /\ Unlocked
    /\ references_' = references_ \cup {id[t]}
    /\ Goto(t, "idle")
    /\ UNCHANGED <<nextId_, lock_, root, held, copies, id, todo, toPrint>>

\* A copy of a RootedObjectPointer goes to another thread.
Share(t, u) ==
    /\ At(t, "idle") /\ At(u, "idle")
    /\ \E r \in held[t] \ held[u] : held' = [held EXCEPT ![u] = @ \cup {r}]
    /\ UNCHANGED <<references_, nextId_, lock_, root, copies, pc, id, todo, toPrint>>

\* When the last owner of r is gone, the destructor runs in thread t.
Dropped(t, r, place) ==
    /\ id' = [id EXCEPT ![t] = r]
    /\ Goto(t, IF Strong(r)' THEN place ELSE "onRelease")

ReleaseReference(t) ==
    /\ At(t, "idle")
    /\ \E r \in held[t] :
          /\ held' = [held EXCEPT ![t] = @ \ {r}]
          /\ copies' = copies
          /\ Dropped(t, r, "idle")
    /\ UNCHANGED <<references_, nextId_, lock_, root, todo, toPrint>>

OwnerReleases ==
    /\ At(Owner, "idle") /\ owned
    /\ owned' = FALSE
    /\ destroyed' = (rooted = {})
    /\ UNCHANGED <<references_, nextId_, lock_, rooted, held, copies, pc, id, todo, toPrint>>
-----------------------------------------------------------------------------
\* A slip: the entry stays.
MutantOnReleaseReference(t) ==
    /\ At(t, "onRelease") /\ Unlocked
    /\ Goto(t, "releaseRoot")
    /\ UNCHANGED <<references_, nextId_, lock_, root, held, copies, id, todo, toPrint>>

\* The destructor of a reference first takes it out of the table,
OnReleaseReference(t) ==
    /\ At(t, "onRelease") /\ Unlocked
    /\ references_' = references_ \ {id[t]}
    /\ Goto(t, "releaseRoot")
    /\ UNCHANGED <<nextId_, lock_, root, held, copies, id, todo, toPrint>>

\* and then, as a member, releases root_.
ReleaseRoot(t) ==
    /\ At(t, "releaseRoot")
    /\ rooted' = rooted \ {id[t]}
    /\ destroyed' = (destroyed \/ (~owned /\ rooted' = {}))
    /\ Goto(t, IF copies[t] = {} THEN "idle" ELSE "printed")
    /\ UNCHANGED <<references_, nextId_, lock_, owned, held, copies, id, todo, toPrint>>
-----------------------------------------------------------------------------
\* WriteDebugReferences: take the lock,
PrintLock(t) ==
    /\ Ready(t) /\ t \in toPrint /\ Unlocked
    /\ lock_' = t
    /\ todo' = [todo EXCEPT ![t] = references_]
    /\ toPrint' = toPrint \ {t}
    /\ Goto(t, "print")
    /\ UNCHANGED <<references_, nextId_, root, held, copies, id>>

\* keep the references that can still be locked,
PrintNext(t) ==
    /\ At(t, "print")
    /\ \E r \in todo[t] :
          /\ todo' = [todo EXCEPT ![t] = @ \ {r}]
          /\ copies' = IF Strong(r) THEN [copies EXCEPT ![t] = @ \cup {r}] ELSE copies
    /\ UNCHANGED <<references_, nextId_, lock_, root, held, pc, id, toPrint>>

\* A slip: referencesCopy goes out of scope with the lock still held.
MutantPrintUnlock(t) ==
    /\ At(t, "print") /\ todo[t] = {}
    /\ lock_' = IF copies[t] = {} THEN NoThread ELSE lock_
    /\ Goto(t, IF copies[t] = {} THEN "idle" ELSE "printed")
    /\ UNCHANGED <<references_, nextId_, root, held, copies, id, todo, toPrint>>

\* release the lock,
PrintUnlock(t) ==
    /\ At(t, "print") /\ todo[t] = {}
    /\ lock_' = NoThread
    /\ Goto(t, IF copies[t] = {} THEN "idle" ELSE "printed")
    /\ UNCHANGED <<references_, nextId_, root, held, copies, id, todo, toPrint>>

\* and let go of the copies, of which each may be the last.
PrintDrop(t) ==
    /\ At(t, "printed")
    /\ \E r \in copies[t] :
          /\ copies' = [copies EXCEPT ![t] = @ \ {r}]
          /\ held' = held
          /\ Dropped(t, r, IF copies'[t] = {} THEN "idle" ELSE "printed")
    /\ UNCHANGED <<references_, nextId_, lock_, root, todo, toPrint>>
-----------------------------------------------------------------------------
\* What a thread does once it is in a function.
Proceed(t) ==
    \/ AddReference(t) \/ OnReleaseReference(t) \/ ReleaseRoot(t)
    \/ PrintNext(t) \/ PrintUnlock(t) \/ PrintDrop(t)

Next ==
    \/ \E t \in Thread : Proceed(t) \/ Create(t) \/ ReleaseReference(t) \/ PrintLock(t)
    \/ \E t, u \in Thread : Share(t, u)
    \/ OwnerReleases

Spec == Init /\ [][Next]_vars

\* Threads keep running; nobody has to release anything.
FairSpec == Spec /\ \A t \in Thread : WF_vars(Proceed(t))
-----------------------------------------------------------------------------
\* Thread t is in one of these functions with reference r.
Someone(place, r) == \E t \in Thread : pc[t] = place /\ id[t] = r

(***************************************************************************)
(* The table lists the references that have an owner, but for those a      *)
(* thread is about to add or remove; and who prints it has seen all of     *)
(* them when it lets go of the lock, although owners come and go meanwhile.*)
(***************************************************************************)
TableIsExact ==
    /\ \A r \in references_ : Strong(r) \/ Someone("onRelease", r)
    /\ \A r \in 1..nextId_ : Strong(r) => r \in references_ \/ Someone("add", r)
    /\ \A t \in Thread : At(t, "print") /\ todo[t] = {} =>
          \A r \in references_ : Strong(r) => r \in copies[t]

(***************************************************************************)
(* The root, and the tracker in it, outlives every reference, and is there *)
(* for whoever adds, removes or prints: also the thread whose destructor   *)
(* of a reference is the last to hold the root.                            *)
(***************************************************************************)
RootOutlivesReferences ==
    destroyed =>
        /\ \A r \in 1..nextId_ : ~Strong(r)
        /\ \A t \in Thread : pc[t] \notin {"add", "onRelease", "print"}

(***************************************************************************)
(* The comment in ReferenceTracker (ComponentRoot.cpp:105-108): references *)
(* are kept outside the lock because the last one takes the lock again     *)
(* when it goes.  Every reference without an owner leaves the table, and   *)
(* when all are gone, the root goes too: nobody waits for itself.          *)
(***************************************************************************)
ReleasedIsErased ==
    /\ \A r \in Id : r \in references_ /\ ~Strong(r) ~> r \notin references_
    /\ ~owned /\ (\A t \in Thread : held[t] = {}) ~> destroyed
=============================================================================
