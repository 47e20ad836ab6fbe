---------------------------- MODULE SharedObject ----------------------------
(***************************************************************************)
(* What a reference count promises, of whichever kind: that of             *)
(* Common::ComUnknownBase, or of the shared pointers to a component and to *)
(* the references to it.  While somebody holds the object others may come  *)
(* to hold it too; once the last holder has let go nobody ever holds it    *)
(* again, and it is deleted once, then or later.                           *)
(***************************************************************************)
CONSTANT Holder  \* who may hold the object

VARIABLES
    holders,  \* who holds it
    life      \* "unmade", "alive" or "deleted"

vars == <<holders, life>>

\* The object is there already, or is made later.
Init ==
    \/ life = "unmade" /\ holders = {}
    \/ life = "alive" /\ \E h \in Holder : holders = {h}

Make(h) ==
    /\ life = "unmade"
    /\ life' = "alive"
    /\ holders' = {h}

Acquire(h) ==
    /\ holders # {} /\ h \notin holders
    /\ holders' = holders \cup {h}
    /\ UNCHANGED life

\* One holder passes the object on to another.
Hand(h, g) ==
    /\ h \in holders /\ g \notin holders
    /\ holders' = (holders \ {h}) \cup {g}
    /\ UNCHANGED life

Deleted == life = "alive" /\ life' = "deleted"

\* The last holder deletes the object at once, or leaves that for later.
LetGo(h) ==
    /\ h \in holders
    /\ holders' = holders \ {h}
    /\ (holders' = {} /\ Deleted) \/ UNCHANGED life

Delete == holders = {} /\ UNCHANGED holders /\ Deleted

Next ==
    \/ \E h \in Holder : Make(h) \/ Acquire(h) \/ LetGo(h)
    \/ \E h, g \in Holder : Hand(h, g)
    \/ Delete

Spec == Init /\ [][Next]_vars
=============================================================================
