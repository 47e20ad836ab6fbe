------------------------ MODULE ReferenceTrackerProofs ------------------------
(***************************************************************************)
(* Proofs about ReferenceTracker, for any number of threads, of printers   *)
(* and of references: the table is exact, and the root outlives every      *)
(* reference and every thread that works on the table.                     *)
(***************************************************************************)
EXTENDS ReferenceTracker, TLAPS

Places == {"idle", "add", "onRelease", "releaseRoot", "print", "printed"}
Made == 1..nextId_

TypeInv ==
    /\ nextId_ \in Nat
    /\ references_ \in SUBSET Made /\ rooted \in SUBSET Made
    /\ owned \in BOOLEAN /\ destroyed \in BOOLEAN
    /\ held \in [Thread -> SUBSET Made] /\ copies \in [Thread -> SUBSET Made]
    /\ pc \in [Thread -> Places] /\ id \in [Thread -> Nat]
    /\ todo \in [Thread -> SUBSET Made]

\* lock_ is kept across steps by the one thread that prints.
LockInv == \A t \in Thread : pc[t] = "print" => lock_ = t

\* What a thread works with is alive: a reference it adds is its own, and a printer
\* keeps the pointer it came with.
AliveInv ==
    /\ \A r \in Made : Strong(r) => r \in rooted
    /\ \A t \in Thread :
        /\ pc[t] = "add" => id[t] \in held[t]
        /\ pc[t] = "print" => held[t] # {} \/ (t = Owner /\ owned)
    /\ destroyed => ~owned /\ rooted = {}

\* A reference is destroyed by one thread, which still holds the root, and nobody
\* gets hold of the reference any more.
Releasing(t) == pc[t] \in {"onRelease", "releaseRoot"}
GoneInv ==
    /\ \A t \in Thread : Releasing(t) => id[t] \in rooted /\ ~Strong(id[t])
    /\ \A t, u \in Thread : Releasing(t) /\ Releasing(u) /\ id[t] = id[u] => t = u

ListedInv ==
    /\ \A r \in references_ : Strong(r) \/ Someone("onRelease", r)
    /\ \A r \in Made : Strong(r) => r \in references_ \/ Someone("add", r)

\* While a thread prints the table does not change, and what it has not copied, of
\* what is alive, it has still to look at.
SeenInv ==
    \A t \in Thread : pc[t] = "print" =>
        \A r \in references_ : Strong(r) => r \in copies[t] \cup todo[t]

IInv == TypeInv /\ LockInv /\ AliveInv /\ GoneInv /\ ListedInv /\ SeenInv
-----------------------------------------------------------------------------
LEMMA Initially == Init => IInv
<1> SUFFICES ASSUME Init
             PROVE  IInv
  OBVIOUS
<1>1. Made = {}
  BY DEF Init, Made
<1>2. TypeInv
  BY <1>1 DEF Init, TypeInv, Places
<1>3. LockInv /\ GoneInv /\ SeenInv
  BY DEF Init, LockInv, GoneInv, Releasing, SeenInv
<1>4. AliveInv /\ ListedInv
  BY <1>1 DEF Init, AliveInv, ListedInv
<1> QED
  BY <1>2, <1>3, <1>4 DEF IInv

\* A thread that has a pointer keeps the root alive.
LEMMA ReadyIsAlive ==
    ASSUME IInv, NEW t \in Thread, held[t] # {} \/ (t = Owner /\ owned)
    PROVE  ~destroyed
BY DEF IInv, TypeInv, AliveInv, Strong

LEMMA CreateKeeps ==
    ASSUME IInv, NEW t \in Thread, Create(t)
    PROVE  IInv'
<1> DEFINE new == nextId_ + 1
<1> USE DEF IInv
<1>1. /\ pc[t] = "idle" /\ nextId_' = new /\ held' = [held EXCEPT ![t] = @ \cup {new}]
      /\ rooted' = rooted \cup {new}
      /\ id' = [id EXCEPT ![t] = new] /\ pc' = [pc EXCEPT ![t] = "add"]
      /\ UNCHANGED <<references_, lock_, owned, destroyed, copies, todo>>
  BY DEF Create, Ready, Goto
<1>2. ~destroyed
  BY ReadyIsAlive DEF Create, Ready
<1>3. new \in Nat /\ new \notin Made /\ Made' = Made \cup {new}
  BY <1>1 DEF TypeInv, Made
<1>4. TypeInv'
  BY <1>1, <1>3 DEF TypeInv, Places
<1>5. \A r : Strong(r)' <=> Strong(r) \/ r = new
  BY <1>1 DEF Strong, TypeInv
<1> HIDE DEF new
<1>6. LockInv'
  BY <1>1 DEF LockInv, TypeInv
<1>7. AliveInv'
  BY <1>1, <1>2, <1>3, <1>5 DEF AliveInv, TypeInv
<1>8. GoneInv'
  BY <1>1, <1>3, <1>5 DEF GoneInv, Releasing, TypeInv
<1>9. ListedInv'
  BY <1>1, <1>3, <1>5 DEF ListedInv, Someone, TypeInv
<1>10. SeenInv'
  BY <1>1, <1>3, <1>5 DEF SeenInv, TypeInv
<1> QED
  BY <1>4, <1>6, <1>7, <1>8, <1>9, <1>10

LEMMA AddReferenceKeeps ==
    ASSUME IInv, NEW t \in Thread, AddReference(t)
    PROVE  IInv'
<1> USE DEF IInv
<1>1. /\ pc[t] = "add" /\ lock_ = NoThread
      /\ references_' = references_ \cup {id[t]} /\ pc' = [pc EXCEPT ![t] = "idle"]
      /\ UNCHANGED <<nextId_, lock_, owned, rooted, destroyed, held, copies, id, todo>>
  BY DEF AddReference, At, Goto, Unlocked, root
<1>2. \A r : Strong(r)' <=> Strong(r)
  BY <1>1 DEF Strong
<1>3. id[t] \in Made /\ Strong(id[t])
  BY <1>1 DEF AliveInv, TypeInv, Strong
<1>4. \A u \in Thread : pc[u] # "print"
  BY <1>1, TrackerAssumption DEF LockInv
<1>5. TypeInv'
  BY <1>1, <1>3 DEF TypeInv, Places, Made
<1>6. LockInv' /\ SeenInv'
  BY <1>1, <1>4 DEF LockInv, SeenInv, TypeInv
<1>7. AliveInv'
  BY <1>1, <1>2 DEF AliveInv, TypeInv, Made
<1>8. GoneInv'
  BY <1>1, <1>2 DEF GoneInv, Releasing, TypeInv
<1>9. ListedInv'
  BY <1>1, <1>2, <1>3 DEF ListedInv, Someone, TypeInv, Made
<1> QED
  BY <1>5, <1>6, <1>7, <1>8, <1>9

LEMMA ShareKeeps ==
    ASSUME IInv, NEW t \in Thread, NEW u \in Thread, Share(t, u)
    PROVE  IInv'
<1> USE DEF IInv
<1>1. PICK r \in held[t] :
        /\ held' = [held EXCEPT ![u] = @ \cup {r}]
        /\ pc[u] = "idle"
        /\ UNCHANGED <<references_, nextId_, lock_, owned, rooted, destroyed, copies, pc, id, todo>>
  BY DEF Share, At, root
<1>2. \A x : Strong(x)' <=> Strong(x)
  BY <1>1 DEF Strong, TypeInv
<1>3. TypeInv'
  BY <1>1 DEF TypeInv, Made
<1>4. LockInv' /\ SeenInv' /\ GoneInv' /\ ListedInv'
  BY <1>1, <1>2 DEF LockInv, SeenInv, GoneInv, Releasing, ListedInv, Someone, Made
<1>5. AliveInv'
  BY <1>1, <1>2 DEF AliveInv, TypeInv, Made
<1> QED
  BY <1>3, <1>4, <1>5

\* What Release and PrintDrop have in common: r loses an owner, and the thread that was
\* the last one goes into the destructor.
LEMMA DropKeeps ==
    ASSUME IInv, NEW t \in Thread, NEW r, NEW place \in {"idle", "printed"},
           pc[t] \in {"idle", "printed"}, Strong(r),
           held' \in [Thread -> SUBSET Made], copies' \in [Thread -> SUBSET Made],
           \A u \in Thread : held'[u] \cup copies'[u] \subseteq held[u] \cup copies[u],
           \A u \in Thread \ {t} : held'[u] = held[u] /\ copies'[u] = copies[u],
           \A x : x # r => (Strong(x)' <=> Strong(x)),
           Dropped(t, r, place),
           UNCHANGED <<references_, nextId_, lock_, owned, rooted, destroyed, todo>>
    PROVE  IInv'
<1> USE DEF IInv
<1>1. /\ id' = [id EXCEPT ![t] = r]
      /\ pc' = [pc EXCEPT ![t] = IF Strong(r)' THEN place ELSE "onRelease"]
  BY DEF Dropped, Goto
<1>2. r \in Made
  BY DEF Strong, TypeInv
<1>3. \A x : Strong(x)' => Strong(x)
  OBVIOUS
<1>4. \A u \in Thread : Releasing(u) => id[u] # r
  BY DEF GoneInv
<1>5. TypeInv'
  BY <1>1, <1>2 DEF TypeInv, Made, Places
<1>6. LockInv'
  BY <1>1 DEF LockInv, TypeInv
<1>7. SeenInv'
  BY <1>1, <1>3 DEF SeenInv, TypeInv
<1>8. AliveInv'
  BY <1>1, <1>3 DEF AliveInv, TypeInv, Made
<1>9. GoneInv'
  <2>1. ASSUME NEW u \in Thread, pc'[u] \in {"onRelease", "releaseRoot"}
        PROVE  /\ id'[u] \in rooted
               /\ \A w \in Thread : id'[u] \notin held'[w] \cup copies'[w]
    <3>1. CASE u = t
      <4>1. id'[u] = r /\ ~Strong(r)'
        BY <1>1, <2>1, <3>1 DEF TypeInv
      <4> QED
        BY <1>2, <4>1 DEF AliveInv, Strong
    <3>2. CASE u # t
      <4>1. id'[u] = id[u] /\ Releasing(u)
        BY <1>1, <2>1, <3>2 DEF TypeInv, Releasing
      <4> QED
        BY <4>1 DEF GoneInv, Strong
    <3> QED
      BY <3>1, <3>2
  <2>2. ASSUME NEW u \in Thread, NEW v \in Thread, id'[u] = id'[v],
               pc'[u] \in {"onRelease", "releaseRoot"}, pc'[v] \in {"onRelease", "releaseRoot"}
        PROVE  u = v
    <3>1. \A w \in Thread \ {t} : id'[w] = id[w] /\ pc'[w] = pc[w]
      BY <1>1 DEF TypeInv
    <3>2. id'[t] = r
      BY <1>1 DEF TypeInv
    <3> QED
      BY <1>4, <2>2, <3>1, <3>2 DEF GoneInv, Releasing
  <2> QED
    BY <2>1, <2>2 DEF GoneInv, Releasing, Strong
<1>10. ListedInv'
  <2>1. ASSUME NEW x \in references_'
        PROVE  Strong(x)' \/ Someone("onRelease", x)'
    BY <1>1, <2>1 DEF ListedInv, Someone, TypeInv
  <2>2. ASSUME NEW x \in Made', Strong(x)'
        PROVE  x \in references_' \/ Someone("add", x)'
    BY <1>1, <1>3, <2>2 DEF ListedInv, Someone, TypeInv, Made
  <2> QED
    BY <2>1, <2>2 DEF ListedInv
<1> QED
  BY <1>5, <1>6, <1>7, <1>8, <1>9, <1>10

LEMMA ReleaseKeeps ==
    ASSUME IInv, NEW t \in Thread, ReleaseReference(t)
    PROVE  IInv'
<1> USE DEF IInv
<1>1. PICK r \in held[t] :
        /\ held' = [held EXCEPT ![t] = @ \ {r}] /\ copies' = copies /\ Dropped(t, r, "idle")
        /\ pc[t] = "idle"
        /\ UNCHANGED <<references_, nextId_, lock_, owned, rooted, destroyed, todo>>
  BY DEF ReleaseReference, At, root
<1>2. \A x : x # r => (Strong(x)' <=> Strong(x))
  BY <1>1 DEF Strong, TypeInv
<1>3. Strong(r)
  BY <1>1 DEF Strong
<1>4. held' \in [Thread -> SUBSET Made] /\ copies' \in [Thread -> SUBSET Made]
  BY <1>1 DEF TypeInv
<1>5. /\ \A u \in Thread : held'[u] \cup copies'[u] \subseteq held[u] \cup copies[u]
      /\ \A u \in Thread \ {t} : held'[u] = held[u] /\ copies'[u] = copies[u]
  BY <1>1 DEF TypeInv
<1> QED
  BY <1>1, <1>2, <1>3, <1>4, <1>5, DropKeeps

LEMMA PrintDropKeeps ==
    ASSUME IInv, NEW t \in Thread, PrintDrop(t)
    PROVE  IInv'
<1> USE DEF IInv
<1>1. PICK r \in copies[t] :
        /\ copies' = [copies EXCEPT ![t] = @ \ {r}] /\ held' = held
        /\ Dropped(t, r, IF copies'[t] = {} THEN "idle" ELSE "printed")
        /\ pc[t] = "printed"
        /\ UNCHANGED <<references_, nextId_, lock_, owned, rooted, destroyed, todo>>
  BY DEF PrintDrop, At, root
<1>2. \A x : x # r => (Strong(x)' <=> Strong(x))
  BY <1>1 DEF Strong, TypeInv
<1>3. Strong(r)
  BY <1>1 DEF Strong
<1>4. held' \in [Thread -> SUBSET Made] /\ copies' \in [Thread -> SUBSET Made]
  BY <1>1 DEF TypeInv
<1>5. /\ \A u \in Thread : held'[u] \cup copies'[u] \subseteq held[u] \cup copies[u]
      /\ \A u \in Thread \ {t} : held'[u] = held[u] /\ copies'[u] = copies[u]
  BY <1>1 DEF TypeInv
<1>6. PICK place \in {"idle", "printed"} : Dropped(t, r, place)
  BY <1>1
<1> QED
  BY <1>1, <1>2, <1>3, <1>4, <1>5, <1>6, DropKeeps

LEMMA OwnerReleasesKeeps ==
    ASSUME IInv, OwnerReleases
    PROVE  IInv'
<1> USE DEF IInv
<1>1. /\ pc[Owner] = "idle" /\ owned' = FALSE /\ destroyed' = (rooted = {})
      /\ UNCHANGED <<references_, nextId_, lock_, rooted, held, copies, pc, id, todo>>
  BY DEF OwnerReleases, At
<1>2. \A x : Strong(x)' <=> Strong(x)
  BY <1>1 DEF Strong
<1>3. TypeInv'
  BY <1>1 DEF TypeInv, Made
<1>4. LockInv' /\ SeenInv' /\ GoneInv' /\ ListedInv'
  BY <1>1, <1>2 DEF LockInv, SeenInv, GoneInv, Releasing, ListedInv, Someone, Made
<1>5. AliveInv'
  BY <1>1, <1>2 DEF AliveInv, Made
<1> QED
  BY <1>3, <1>4, <1>5

LEMMA OnReleaseReferenceKeeps ==
    ASSUME IInv, NEW t \in Thread, OnReleaseReference(t)
    PROVE  IInv'
<1> USE DEF IInv
<1>1. /\ pc[t] = "onRelease" /\ references_' = references_ \ {id[t]}
      /\ pc' = [pc EXCEPT ![t] = "releaseRoot"]
      /\ UNCHANGED <<nextId_, lock_, owned, rooted, destroyed, held, copies, id, todo>>
  BY DEF OnReleaseReference, At, Goto, root
<1>2. \A x : Strong(x)' <=> Strong(x)
  BY <1>1 DEF Strong
<1>3. ~Strong(id[t])
  BY <1>1 DEF GoneInv, Releasing
<1>4. TypeInv'
  BY <1>1 DEF TypeInv, Made, Places
<1>5. LockInv' /\ SeenInv'
  BY <1>1, <1>2 DEF LockInv, SeenInv, TypeInv
<1>6. AliveInv'
  BY <1>1, <1>2 DEF AliveInv, TypeInv, Made
<1>7. GoneInv'
  BY <1>1, <1>2 DEF GoneInv, Releasing, TypeInv
<1>8. ListedInv'
  BY <1>1, <1>2, <1>3 DEF ListedInv, Someone, TypeInv, Made
<1> QED
  BY <1>4, <1>5, <1>6, <1>7, <1>8

\* Only here the root may go, with the last reference to it.
LEMMA ReleaseRootKeeps ==
    ASSUME IInv, NEW t \in Thread, ReleaseRoot(t)
    PROVE  IInv'
<1> USE DEF IInv
<1>1. /\ pc[t] = "releaseRoot" /\ rooted' = rooted \ {id[t]}
      /\ destroyed' = (destroyed \/ (~owned /\ rooted' = {}))
      /\ pc' = [pc EXCEPT ![t] = IF copies[t] = {} THEN "idle" ELSE "printed"]
      /\ UNCHANGED <<references_, nextId_, lock_, owned, held, copies, id, todo>>
  BY DEF ReleaseRoot, At, Goto
<1>2. \A x : Strong(x)' <=> Strong(x)
  BY <1>1 DEF Strong
<1>3. ~Strong(id[t]) /\ id[t] \in rooted
  BY <1>1 DEF GoneInv, Releasing
<1>4. TypeInv'
  BY <1>1 DEF TypeInv, Made, Places
<1>5. LockInv' /\ SeenInv'
  BY <1>1, <1>2 DEF LockInv, SeenInv, TypeInv
<1>6. AliveInv'
  BY <1>1, <1>2, <1>3 DEF AliveInv, TypeInv, Made
<1>7. GoneInv'
  BY <1>1, <1>2 DEF GoneInv, Releasing, TypeInv
<1>8. ListedInv'
  BY <1>1, <1>2 DEF ListedInv, Someone, TypeInv, Made
<1> QED
  BY <1>4, <1>5, <1>6, <1>7, <1>8

LEMMA PrintLockKeeps ==
    ASSUME IInv, NEW t \in Thread, PrintLock(t)
    PROVE  IInv'
<1> USE DEF IInv
<1>1. /\ pc[t] = "idle" /\ lock_ = NoThread /\ lock_' = t
      /\ held[t] # {} \/ (t = Owner /\ owned)
      /\ todo' = [todo EXCEPT ![t] = references_] /\ pc' = [pc EXCEPT ![t] = "print"]
      /\ UNCHANGED <<references_, nextId_, owned, rooted, destroyed, held, copies, id>>
  BY DEF PrintLock, Ready, Unlocked, Goto, root
<1>2. \A x : Strong(x)' <=> Strong(x)
  BY <1>1 DEF Strong
<1>3. \A u \in Thread : pc[u] # "print"
  BY <1>1, TrackerAssumption DEF LockInv
<1>4. TypeInv'
  BY <1>1 DEF TypeInv, Made, Places
<1>5. LockInv' /\ SeenInv'
  BY <1>1, <1>3 DEF LockInv, SeenInv, TypeInv
<1>6. AliveInv'
  BY <1>1, <1>2 DEF AliveInv, TypeInv, Made
<1>7. GoneInv'
  BY <1>1, <1>2 DEF GoneInv, Releasing, TypeInv
<1>8. ListedInv'
  BY <1>1, <1>2 DEF ListedInv, Someone, TypeInv, Made
<1> QED
  BY <1>4, <1>5, <1>6, <1>7, <1>8

LEMMA PrintNextKeeps ==
    ASSUME IInv, NEW t \in Thread, PrintNext(t)
    PROVE  IInv'
<1> USE DEF IInv
<1>1. PICK r \in todo[t] :
        /\ todo' = [todo EXCEPT ![t] = @ \ {r}]
        /\ copies' = IF Strong(r) THEN [copies EXCEPT ![t] = @ \cup {r}] ELSE copies
        /\ UNCHANGED <<references_, nextId_, lock_, owned, rooted, destroyed, held, pc, id>>
  BY DEF PrintNext, root
<1>2. \A x : Strong(x)' <=> Strong(x)
  BY <1>1 DEF Strong, TypeInv
<1>3. TypeInv'
  BY <1>1 DEF TypeInv, Made
<1>4. LockInv' /\ GoneInv' /\ ListedInv'
  BY <1>1, <1>2 DEF LockInv, GoneInv, Releasing, ListedInv, Someone, Made
<1>5. SeenInv'
  BY <1>1, <1>2 DEF SeenInv, TypeInv
<1>6. AliveInv'
  BY <1>1, <1>2 DEF AliveInv, Made
<1> QED
  BY <1>3, <1>4, <1>5, <1>6

LEMMA PrintUnlockKeeps ==
    ASSUME IInv, NEW t \in Thread, PrintUnlock(t)
    PROVE  IInv'
<1> USE DEF IInv
<1>1. /\ pc[t] = "print" /\ lock_' = NoThread
      /\ pc' = [pc EXCEPT ![t] = IF copies[t] = {} THEN "idle" ELSE "printed"]
      /\ UNCHANGED <<references_, nextId_, owned, rooted, destroyed, held, copies, id, todo>>
  BY DEF PrintUnlock, At, Goto, root
<1>2. \A x : Strong(x)' <=> Strong(x)
  BY <1>1 DEF Strong
<1>3. \A u \in Thread : pc[u] = "print" => u = t
  BY <1>1 DEF LockInv
<1>4. TypeInv'
  BY <1>1 DEF TypeInv, Made, Places
<1>5. LockInv' /\ SeenInv'
  BY <1>1, <1>3 DEF LockInv, SeenInv, TypeInv
<1>6. AliveInv'
  BY <1>1, <1>2 DEF AliveInv, TypeInv, Made
<1>7. GoneInv'
  BY <1>1, <1>2 DEF GoneInv, Releasing, TypeInv
<1>8. ListedInv'
  BY <1>1, <1>2 DEF ListedInv, Someone, TypeInv, Made
<1> QED
  BY <1>4, <1>5, <1>6, <1>7, <1>8

LEMMA Inductive == IInv /\ [Next]_vars => IInv'
<1> SUFFICES ASSUME IInv, [Next]_vars
             PROVE  IInv'
  OBVIOUS
<1>1. CASE UNCHANGED vars
  BY <1>1 DEF vars, IInv, TypeInv, Made, LockInv, AliveInv, GoneInv, Releasing, ListedInv,
              SeenInv, Strong, Someone
<1>2. ASSUME NEW t \in Thread, Proceed(t)
      PROVE  IInv'
  BY <1>2, AddReferenceKeeps, OnReleaseReferenceKeeps, ReleaseRootKeeps, PrintNextKeeps,
     PrintUnlockKeeps, PrintDropKeeps DEF Proceed
<1> QED
  BY <1>1, <1>2, CreateKeeps, ReleaseKeeps, PrintLockKeeps, ShareKeeps, OwnerReleasesKeeps
     DEF Next

LEMMA AlwaysIInv == Spec => []IInv
BY Initially, Inductive, PTL DEF Spec
-----------------------------------------------------------------------------
\* The table of ReferenceTracker (ComponentRoot.cpp): it lists the references that have
\* an owner, but for those on their way in or out, and a thread that prints has seen all
\* of them, for any number of threads that take, share, drop and print references.
THEOREM TableIsAlwaysExact == Spec => []TableIsExact
<1>1. IInv => TableIsExact
  BY DEF IInv, ListedInv, SeenInv, TableIsExact, At, Made
<1> QED
  BY <1>1, AlwaysIInv, PTL

\* CreateComponentRoot and ~ComponentRootReference: the root is destroyed after the last
\* reference, and never under a thread that adds, removes or prints, whichever thread
\* drops the last reference and wherever it does.
THEOREM RootAlwaysOutlivesReferences == Spec => []RootOutlivesReferences
<1>1. IInv => RootOutlivesReferences
  <2> SUFFICES ASSUME IInv, destroyed
               PROVE  /\ \A r \in 1..nextId_ : ~Strong(r)
                      /\ \A t \in Thread : pc[t] \notin {"add", "onRelease", "print"}
    BY DEF RootOutlivesReferences
  <2>1. \A r \in Made : ~Strong(r)
    BY DEF IInv, AliveInv
  <2>2. ASSUME NEW t \in Thread
        PROVE  pc[t] \notin {"add", "onRelease", "print"}
    BY <2>1, ReadyIsAlive DEF IInv, AliveInv, GoneInv, Releasing, TypeInv, Strong
  <2> QED
    BY <2>1, <2>2 DEF Made
<1> QED
  BY <1>1, AlwaysIInv, PTL
-----------------------------------------------------------------------------
(***************************************************************************)
(* The root as a SharedObject, held by the pointer of the owner, for which *)
(* 0 stands, and by the references.  Its last holder deletes it at once.   *)
(***************************************************************************)
RootHolders == rooted \cup (IF owned THEN {0} ELSE {})
RootLife == IF destroyed THEN "deleted" ELSE "alive"

RootObject == INSTANCE SharedObject WITH
    Holder <- Nat, holders <- RootHolders, life <- RootLife

SameRoot == RootHolders' = RootHolders /\ RootLife' = RootLife

LEMMA CreateHoldsRoot ==
    ASSUME IInv, NEW t \in Thread, Create(t)
    PROVE  RootObject!Acquire(nextId_')
<1>1. /\ nextId_' = nextId_ + 1 /\ rooted' = rooted \cup {nextId_'}
      /\ UNCHANGED <<owned, destroyed>>
      /\ held[t] # {} \/ owned
  BY DEF Create, Ready
<1>2. nextId_' \notin RootHolders
  BY <1>1 DEF IInv, TypeInv, Made, RootHolders
<1>3. RootHolders # {}
  <2>1. CASE owned
    BY <2>1 DEF RootHolders
  <2>2. CASE held[t] # {}
    <3>1. PICK r \in Made : r \in held[t]
      BY <2>2 DEF IInv, TypeInv
    <3> QED
      BY <3>1 DEF IInv, AliveInv, Strong, RootHolders
  <2> QED
    BY <1>1, <2>1, <2>2
<1>4. RootHolders' = RootHolders \cup {nextId_'}
  BY <1>1 DEF RootHolders
<1> QED
  BY <1>1, <1>2, <1>3, <1>4 DEF RootObject!Acquire, RootLife

LEMMA OwnerLetsRootGo ==
    ASSUME IInv, OwnerReleases
    PROVE  RootObject!LetGo(0)
<1>1. owned /\ ~destroyed /\ ~owned' /\ rooted' = rooted /\ (destroyed' <=> rooted = {})
  BY DEF OwnerReleases, IInv, AliveInv
<1>2. 0 \notin rooted
  BY DEF IInv, TypeInv, Made
<1>3. 0 \in RootHolders /\ RootHolders' = RootHolders \ {0} /\ RootHolders' = rooted
  BY <1>1, <1>2 DEF RootHolders
<1>4. RootLife = "alive" /\ RootLife' = IF rooted = {} THEN "deleted" ELSE "alive"
  BY <1>1 DEF RootLife
<1> QED
  BY <1>3, <1>4 DEF RootObject!LetGo, RootObject!Deleted

LEMMA ReferenceLetsRootGo ==
    ASSUME IInv, NEW t \in Thread, ReleaseRoot(t)
    PROVE  RootObject!LetGo(id[t])
<1>1. /\ id[t] \in rooted /\ ~destroyed /\ rooted' = rooted \ {id[t]} /\ owned' = owned
      /\ destroyed' <=> (~owned /\ rooted' = {})
  BY DEF ReleaseRoot, At, IInv, AliveInv, GoneInv, Releasing
<1>2. id[t] # 0
  BY <1>1 DEF IInv, TypeInv, Made
<1>3. id[t] \in RootHolders /\ RootHolders' = RootHolders \ {id[t]}
  BY <1>1, <1>2 DEF RootHolders
<1>4. destroyed' <=> RootHolders' = {}
  BY <1>1 DEF RootHolders
<1>5. RootLife = "alive" /\ RootLife' = IF RootHolders' = {} THEN "deleted" ELSE "alive"
  BY <1>1, <1>4 DEF RootLife
<1> QED
  BY <1>3, <1>5 DEF RootObject!LetGo, RootObject!Deleted

LEMMA OthersKeepRoot ==
    ASSUME UNCHANGED root
    PROVE  SameRoot
BY DEF root, SameRoot, RootHolders, RootLife

\* The root of ComponentRoot.cpp, in the terms of SharedObject: a reference can be made as
\* long as the owner or a reference keeps the root, the one that lets go last deletes it,
\* and nobody gets a reference to a root that was deleted.
THEOREM RootKeepsPromise == Spec => RootObject!Spec
<1>1. Init => RootObject!Init
  <2>1. Init => RootHolders = {0} /\ RootLife = "alive"
    BY DEF Init, RootHolders, RootLife
  <2> QED
    BY <2>1, 0 \in Nat DEF RootObject!Init
<1>2. ASSUME IInv, [Next]_vars
      PROVE  [RootObject!Next]_(RootObject!vars)
  <2>1. ASSUME NEW t \in Thread, Create(t)
        PROVE  RootObject!Next
    <3>1. nextId_' \in Nat
      BY <1>2, <2>1 DEF Create, IInv, TypeInv
    <3> QED
      BY <1>2, <2>1, <3>1, CreateHoldsRoot DEF RootObject!Next
  <2>2. OwnerReleases => RootObject!Next
    BY <1>2, OwnerLetsRootGo, 0 \in Nat DEF RootObject!Next
  <2>3. ASSUME NEW t \in Thread, ReleaseRoot(t)
        PROVE  RootObject!Next
    <3>1. id[t] \in Nat
      BY <1>2 DEF IInv, TypeInv
    <3> QED
      BY <1>2, <2>3, <3>1, ReferenceLetsRootGo DEF RootObject!Next
  <2>4. ASSUME NEW t \in Thread,
               \/ AddReference(t) \/ OnReleaseReference(t) \/ PrintNext(t) \/ PrintUnlock(t)
               \/ PrintDrop(t) \/ ReleaseReference(t) \/ PrintLock(t) \/ \E u \in Thread : Share(t, u)
        PROVE  UNCHANGED root
    BY <2>4 DEF AddReference, OnReleaseReference, PrintNext, PrintUnlock, PrintDrop, ReleaseReference,
                PrintLock, Share
  <2>5. UNCHANGED vars => UNCHANGED root
    BY DEF vars, root
  <2>6. UNCHANGED root => UNCHANGED RootObject!vars
    BY OthersKeepRoot DEF SameRoot, RootObject!vars
  <2> QED
    BY <1>2, <2>1, <2>2, <2>3, <2>4, <2>5, <2>6 DEF Next, Proceed
<1> QED
  BY <1>1, <1>2, AlwaysIInv, PTL DEF Spec, RootObject!Spec
-----------------------------------------------------------------------------
(***************************************************************************)
(* Each reference as a SharedObject, held by the pointers of threads and   *)
(* by the copies of printers.  The weak pointer of the table holds         *)
(* nothing.  The reference is deleted when its destructor has let the root *)
(* go.                                                                     *)
(***************************************************************************)
Holder == Thread \X {"held", "copy"}
Holds(t, how, r) == r \in IF how = "held" THEN held[t] ELSE copies[t]
HoldersOf(r) == {h \in Holder : Holds(h[1], h[2], r)}
LifeOf(r) == IF r \notin Made THEN "unmade" ELSE IF r \in rooted THEN "alive" ELSE "deleted"

ReferenceObject(r) == INSTANCE SharedObject WITH holders <- HoldersOf(r), life <- LifeOf(r)

SameReference(r) == HoldersOf(r)' = HoldersOf(r) /\ LifeOf(r)' = LifeOf(r)

\* Who holds a reference, thread by thread.
LEMMA HoldersAre ==
    ASSUME NEW r, NEW t \in Thread
    PROVE  /\ <<t, "held">> \in Holder /\ <<t, "copy">> \in Holder
           /\ <<t, "held">> \in HoldersOf(r) <=> r \in held[t]
           /\ <<t, "copy">> \in HoldersOf(r) <=> r \in copies[t]
BY DEF HoldersOf, Holder, Holds

LEMMA StrongIsHeld == ASSUME NEW r PROVE Strong(r) <=> HoldersOf(r) # {}
<1>1. ASSUME Strong(r)
      PROVE  HoldersOf(r) # {}
  <2>1. PICK t \in Thread : r \in held[t] \cup copies[t]
    BY <1>1 DEF Strong
  <2> QED
    BY <2>1, HoldersAre
<1>2. ASSUME NEW h \in HoldersOf(r)
      PROVE  Strong(r)
  BY DEF HoldersOf, Holder, Holds, Strong
<1> QED
  BY <1>1, <1>2

\* A step that gives reference r to holder g, and no other.
Given(g, r) == \A t \in Thread, how \in {"held", "copy"} :
                  Holds(t, how, r)' <=> Holds(t, how, r) \/ <<t, how>> = g

\* A step that takes it away from holder g.
Taken(g, r) == \A t \in Thread, how \in {"held", "copy"} :
                  Holds(t, how, r)' <=> Holds(t, how, r) /\ <<t, how>> # g

LEMMA GivenHolders ==
    ASSUME NEW r, NEW g \in Holder, Given(g, r)
    PROVE  HoldersOf(r)' = HoldersOf(r) \cup {g}
BY DEF Given, HoldersOf, Holder

LEMMA TakenHolders ==
    ASSUME NEW r, NEW g \in Holder, Taken(g, r)
    PROVE  HoldersOf(r)' = HoldersOf(r) \ {g}
BY DEF Taken, HoldersOf, Holder

LEMMA SameHolders ==
    ASSUME NEW r, \A t \in Thread : /\ r \in held'[t] <=> r \in held[t]
                                    /\ r \in copies'[t] <=> r \in copies[t]
    PROVE  HoldersOf(r)' = HoldersOf(r)
<1>1. \A t \in Thread, how \in {"held", "copy"} : Holds(t, how, r)' <=> Holds(t, how, r)
  BY DEF Holds
<1> QED
  BY <1>1 DEF HoldersOf, Holder

LEMMA SameLife ==
    ASSUME nextId_' = nextId_, rooted' = rooted, NEW r
    PROVE  LifeOf(r)' = LifeOf(r)
BY DEF LifeOf, Made

LEMMA CreateMakes ==
    ASSUME IInv, NEW t \in Thread, Create(t), NEW r \in Nat
    PROVE  IF r = nextId_' THEN ReferenceObject(r)!Make(<<t, "held">>) ELSE SameReference(r)
<1>1. /\ nextId_' = nextId_ + 1 /\ rooted' = rooted \cup {nextId_'} /\ copies' = copies
      /\ held' = [held EXCEPT ![t] = @ \cup {nextId_'}]
  BY DEF Create
<1>2. /\ nextId_ \in Nat /\ rooted \subseteq Made
      /\ \A u \in Thread : held[u] \subseteq Made /\ copies[u] \subseteq Made
  BY DEF IInv, TypeInv
<1>3. \A u \in Thread : held'[u] = IF u = t THEN held[u] \cup {nextId_'} ELSE held[u]
  BY <1>1 DEF IInv, TypeInv
<1>4. CASE r = nextId_'
  <2>1. r \notin Made /\ r \in Made' /\ r \in rooted'
    BY <1>1, <1>2, <1>4 DEF Made
  <2>2. LifeOf(r) = "unmade" /\ LifeOf(r)' = "alive"
    BY <2>1 DEF LifeOf
  <2>3. \A u \in Thread : /\ r \notin held[u] /\ r \notin copies[u] /\ r \notin copies'[u]
                          /\ r \in held'[u] <=> u = t
    <3>1. \A u \in Thread : r \notin held[u] /\ r \notin copies[u]
      BY <1>2, <2>1
    <3>2. \A u \in Thread : r \in held'[u] <=> u = t
      BY <1>3, <1>4, <3>1
    <3> QED
      BY <1>1, <3>1, <3>2
  <2>4. HoldersOf(r) = {}
    BY <2>3, StrongIsHeld DEF Strong
  <2>5. Given(<<t, "held">>, r)
    <3>1. ASSUME NEW u \in Thread
          PROVE  /\ ~Holds(u, "held", r) /\ ~Holds(u, "copy", r) /\ ~Holds(u, "copy", r)'
                 /\ Holds(u, "held", r)' <=> u = t
      BY <2>3 DEF Holds
    <3> QED
      BY <3>1 DEF Given
  <2>6. HoldersOf(r)' = {<<t, "held">>}
    <3>1. HoldersOf(r)' = HoldersOf(r) \cup {<<t, "held">>}
      BY <2>5, HoldersAre, GivenHolders
    <3> QED
      BY <2>4, <3>1
  <2> QED
    BY <1>4, <2>2, <2>6 DEF ReferenceObject!Make
<1>5. CASE r # nextId_'
  <2>1. HoldersOf(r)' = HoldersOf(r)
    BY <1>1, <1>3, <1>5, SameHolders
  <2>2. r \in Made' <=> r \in Made
    BY <1>1, <1>2, <1>5 DEF Made
  <2>3. r \in rooted' <=> r \in rooted
    BY <1>1, <1>5
  <2>4. LifeOf(r)' = LifeOf(r)
    BY <2>2, <2>3 DEF LifeOf
  <2> QED
    BY <1>5, <2>1, <2>4 DEF SameReference
<1> QED
  BY <1>4, <1>5

LEMMA ShareGives ==
    ASSUME IInv, NEW t \in Thread, NEW u \in Thread, Share(t, u), NEW r \in Nat
    PROVE  ReferenceObject(r)!Acquire(<<u, "held">>) \/ SameReference(r)
<1>1. PICK x \in held[t] \ held[u] : held' = [held EXCEPT ![u] = @ \cup {x}]
  BY DEF Share
<1>2. UNCHANGED <<nextId_, rooted, copies>>
  BY DEF Share, root
<1>3. \A s \in Thread : held'[s] = IF s = u THEN held[s] \cup {x} ELSE held[s]
  BY <1>1 DEF IInv, TypeInv
<1>4. LifeOf(r)' = LifeOf(r)
  BY <1>2, SameLife
<1>5. CASE r = x
  <2>1. Given(<<u, "held">>, r)
    BY <1>2, <1>3, <1>5 DEF Given, Holds
  <2>2. HoldersOf(r)' = HoldersOf(r) \cup {<<u, "held">>}
    BY <2>1, HoldersAre, GivenHolders
  <2>3. HoldersOf(r) # {} /\ <<u, "held">> \notin HoldersOf(r)
    BY <1>1, <1>5, HoldersAre
  <2> QED
    BY <1>4, <2>2, <2>3 DEF ReferenceObject!Acquire
<1>6. CASE r # x
  BY <1>2, <1>3, <1>4, <1>6, SameHolders DEF SameReference
<1> QED
  BY <1>5, <1>6

LEMMA ReleaseTakes ==
    ASSUME IInv, NEW t \in Thread, ReleaseReference(t), NEW r \in Nat
    PROVE  ReferenceObject(r)!LetGo(<<t, "held">>) \/ SameReference(r)
<1>1. PICK x \in held[t] : held' = [held EXCEPT ![t] = @ \ {x}] /\ copies' = copies
  BY DEF ReleaseReference
<1>2. UNCHANGED <<nextId_, rooted>>
  BY DEF ReleaseReference, root
<1>3. \A s \in Thread : held'[s] = IF s = t THEN held[s] \ {x} ELSE held[s]
  BY <1>1 DEF IInv, TypeInv
<1>4. LifeOf(r)' = LifeOf(r)
  BY <1>2, SameLife
<1>5. CASE r = x
  <2>1. Taken(<<t, "held">>, r)
    BY <1>1, <1>3, <1>5 DEF Taken, Holds
  <2>2. HoldersOf(r)' = HoldersOf(r) \ {<<t, "held">>} /\ <<t, "held">> \in HoldersOf(r)
    BY <1>1, <1>5, <2>1, HoldersAre, TakenHolders
  <2> QED
    BY <1>4, <2>2 DEF ReferenceObject!LetGo
<1>6. CASE r # x
  BY <1>1, <1>3, <1>4, <1>6, SameHolders DEF SameReference
<1> QED
  BY <1>5, <1>6

\* A weak pointer gives a reference only while somebody holds it.
LEMMA PrintNextGives ==
    ASSUME IInv, NEW t \in Thread, PrintNext(t), NEW r \in Nat
    PROVE  ReferenceObject(r)!Acquire(<<t, "copy">>) \/ SameReference(r)
<1>1. PICK x \in todo[t] :
         copies' = IF Strong(x) THEN [copies EXCEPT ![t] = @ \cup {x}] ELSE copies
  BY DEF PrintNext
<1>2. UNCHANGED <<nextId_, rooted, held>>
  BY DEF PrintNext, root
<1>3. \A s \in Thread : copies'[s] = IF s = t /\ Strong(x) THEN copies[s] \cup {x} ELSE copies[s]
  BY <1>1 DEF IInv, TypeInv
<1>4. LifeOf(r)' = LifeOf(r)
  BY <1>2, SameLife
<1>5. CASE r = x /\ Strong(x) /\ x \notin copies[t]
  <2>1. Given(<<t, "copy">>, r)
    BY <1>2, <1>3, <1>5 DEF Given, Holds
  <2>2. HoldersOf(r)' = HoldersOf(r) \cup {<<t, "copy">>}
    BY <2>1, HoldersAre, GivenHolders
  <2>3. HoldersOf(r) # {} /\ <<t, "copy">> \notin HoldersOf(r)
    BY <1>5, HoldersAre, StrongIsHeld
  <2> QED
    BY <1>4, <2>2, <2>3 DEF ReferenceObject!Acquire
<1>6. CASE ~(r = x /\ Strong(x) /\ x \notin copies[t])
  BY <1>2, <1>3, <1>4, <1>6, SameHolders DEF SameReference
<1> QED
  BY <1>5, <1>6

LEMMA PrintDropTakes ==
    ASSUME IInv, NEW t \in Thread, PrintDrop(t), NEW r \in Nat
    PROVE  ReferenceObject(r)!LetGo(<<t, "copy">>) \/ SameReference(r)
<1>1. PICK x \in copies[t] : copies' = [copies EXCEPT ![t] = @ \ {x}] /\ held' = held
  BY DEF PrintDrop
<1>2. UNCHANGED <<nextId_, rooted>>
  BY DEF PrintDrop, root
<1>3. \A s \in Thread : copies'[s] = IF s = t THEN copies[s] \ {x} ELSE copies[s]
  BY <1>1 DEF IInv, TypeInv
<1>4. LifeOf(r)' = LifeOf(r)
  BY <1>2, SameLife
<1>5. CASE r = x
  <2>1. Taken(<<t, "copy">>, r)
    BY <1>1, <1>3, <1>5 DEF Taken, Holds
  <2>2. HoldersOf(r)' = HoldersOf(r) \ {<<t, "copy">>} /\ <<t, "copy">> \in HoldersOf(r)
    BY <1>1, <1>5, <2>1, HoldersAre, TakenHolders
  <2> QED
    BY <1>4, <2>2 DEF ReferenceObject!LetGo
<1>6. CASE r # x
  BY <1>1, <1>3, <1>4, <1>6, SameHolders DEF SameReference
<1> QED
  BY <1>5, <1>6

LEMMA ReleaseRootDeletes ==
    ASSUME IInv, NEW t \in Thread, ReleaseRoot(t), NEW r \in Nat
    PROVE  ReferenceObject(r)!Delete \/ SameReference(r)
<1>1. rooted' = rooted \ {id[t]} /\ UNCHANGED <<nextId_, held, copies>>
  BY DEF ReleaseRoot
<1>2. HoldersOf(r)' = HoldersOf(r)
  BY <1>1, SameHolders
<1>3. CASE r = id[t]
  <2>1. ~Strong(r) /\ r \in rooted
    BY <1>3 DEF ReleaseRoot, At, IInv, GoneInv, Releasing
  <2>2. r \in Made /\ r \in Made' /\ r \notin rooted'
    BY <1>1, <1>3, <2>1 DEF IInv, TypeInv, Made
  <2>3. LifeOf(r) = "alive" /\ LifeOf(r)' = "deleted"
    BY <2>1, <2>2 DEF LifeOf
  <2> QED
    BY <1>2, <2>1, <2>3, StrongIsHeld DEF ReferenceObject!Delete, ReferenceObject!Deleted
<1>4. CASE r # id[t]
  BY <1>1, <1>2, <1>4 DEF SameReference, LifeOf, Made
<1> QED
  BY <1>3, <1>4

LEMMA OthersKeepReference ==
    ASSUME UNCHANGED <<nextId_, rooted, held, copies>>, NEW r
    PROVE  SameReference(r)
BY SameHolders, SameLife DEF SameReference

\* The references of ComponentRoot.cpp, each in the terms of SharedObject: although the
\* table lists a weak pointer to it that printers lock at any time, a reference that its
\* last holder has let go is never held again, and its destructor runs once.
THEOREM ReferencesKeepPromise == ASSUME NEW r \in Nat PROVE Spec => ReferenceObject(r)!Spec
<1>1. Init => ReferenceObject(r)!Init
  <2>1. ASSUME Init
        PROVE  HoldersOf(r) = {} /\ LifeOf(r) = "unmade"
    <3>1. Made = {} /\ \A t \in Thread : held[t] = {} /\ copies[t] = {}
      BY <2>1 DEF Init, Made
    <3> QED
      BY <3>1 DEF HoldersOf, Holder, Holds, LifeOf
  <2> QED
    BY <2>1 DEF ReferenceObject!Init
<1>2. ASSUME IInv, [Next]_vars
      PROVE  [ReferenceObject(r)!Next]_(ReferenceObject(r)!vars)
  <2>1. ASSUME NEW t \in Thread,
               Create(t) \/ ReleaseReference(t) \/ PrintNext(t) \/ PrintDrop(t) \/ ReleaseRoot(t)
        PROVE  ReferenceObject(r)!Next \/ SameReference(r)
    BY <1>2, <2>1, HoldersAre, CreateMakes, ReleaseTakes, PrintNextGives, PrintDropTakes,
       ReleaseRootDeletes DEF ReferenceObject!Next
  <2>2. ASSUME NEW t \in Thread, NEW u \in Thread, Share(t, u)
        PROVE  ReferenceObject(r)!Next \/ SameReference(r)
    BY <1>2, <2>2, HoldersAre, ShareGives DEF ReferenceObject!Next
  <2>3. ASSUME NEW t \in Thread,
               AddReference(t) \/ OnReleaseReference(t) \/ PrintUnlock(t) \/ PrintLock(t)
        PROVE  UNCHANGED <<nextId_, rooted, held, copies>>
    BY <2>3 DEF AddReference, OnReleaseReference, PrintUnlock, PrintLock, root
  <2>4. OwnerReleases \/ UNCHANGED vars => UNCHANGED <<nextId_, rooted, held, copies>>
    BY DEF OwnerReleases, vars
  <2>5. SameReference(r) => UNCHANGED ReferenceObject(r)!vars
    BY DEF SameReference, ReferenceObject!vars
  <2> QED
    BY <1>2, <2>1, <2>2, <2>3, <2>4, <2>5, OthersKeepReference DEF Next, Proceed
<1> QED
  BY <1>1, <1>2, AlwaysIInv, PTL DEF Spec, ReferenceObject!Spec
=============================================================================
