------------------------------- MODULE KvReplica -------------------------------
(***************************************************************************)
(* A replica of the kvstore example: the listener of its transport server  *)
(* is opened whenever the replica becomes primary and closed when the      *)
(* replica is.  The runtime calls Begin and End of each operation in turn; *)
(* the store and the listener are external and may fail.                   *)
(***************************************************************************)
EXTENDS ServiceHost

CONSTANT Promotions     \* bound: how often the replica is made primary

Role == {"primary", "secondary"}

VARIABLES
    phase,          \* the call that the runtime may make next
    role_,
    listener_,      \* null, or whether the listener is created or open
    is_listening_,
    promoted,       \* how often BeginChangeRole was called for a primary
    lost,           \* open listeners whose com_ptr was overwritten
    addressTold     \* the listener was open when its address was told

kvReplica == <<phase, role_, listener_, is_listening_, promoted, lost, addressTold>>

ReplicaInit ==
    /\ phase = "none" /\ role_ = "unknown" /\ listener_ = "null"
    /\ is_listening_ = FALSE /\ promoted = 0 /\ lost = 0 /\ addressTold = TRUE

\* CreateReplica fails without the ports of the replicator and of the transport.
CreateReplica ==
    /\ program = "kvstore" /\ Serving /\ phase = "none"
    /\ phase' = "created"
    /\ UNCHANGED <<host, role_, listener_, is_listening_, promoted, lost, addressTold>>

\* BeginOpen and EndOpen pass the call on to the store.
ReplicaOpen ==
    /\ Serving /\ phase = "created"
    /\ phase' \in {"idle", "faulted"}
    /\ UNCHANGED <<host, role_, listener_, is_listening_, promoted, lost, addressTold>>

\* kv_server::open.  put() asserts that listener_ is null; without asserts the open
\* listener of an earlier term as primary is lost.
ServerOpen(result) ==
    /\ lost' = lost + (IF listener_ = "open" THEN 1 ELSE 0)
    /\ listener_' = result
    /\ is_listening_' = (result = "open" \/ is_listening_)

PutAsserts ==
    /\ Serving /\ phase = "idle" /\ listener_ # "null"
    /\ host' = "asserted"
    /\ UNCHANGED kvReplica

BecomePrimary ==
    /\ Serving /\ phase = "idle" /\ promoted < Promotions
    /\ promoted' = promoted + 1
    /\ \E result \in {"null", "created", "open"} :
          /\ ServerOpen(result)
          /\ IF result = "open"
             THEN role_' = "primary" /\ phase' \in {"changing", "faulted"}
             ELSE UNCHANGED role_ /\ phase' = "faulted"
    /\ UNCHANGED <<host, addressTold>>

\* Nothing is closed when the replica ceases to be primary.
BecomeSecondary ==
    /\ Serving /\ phase = "idle"
    /\ role_' = "secondary"
    /\ phase' \in {"changing", "faulted"}
    /\ UNCHANGED <<host, listener_, is_listening_, promoted, lost, addressTold>>

\* The address of a primary is that of the transport.
EndChangeRole ==
    /\ Serving /\ phase = "changing"
    /\ addressTold' = (role_ = "primary" => listener_ = "open")
    /\ phase' \in {"idle", "faulted"}
    /\ UNCHANGED <<host, role_, listener_, is_listening_, promoted, lost>>

ReplicaBeginClose ==
    /\ Serving /\ phase \in {"idle", "faulted"}
    /\ phase' \in {"closing", "faulted"}
    /\ UNCHANGED <<host, role_, listener_, is_listening_, promoted, lost, addressTold>>

\* A slip: a listener is taken for closed.
MutantServerClosed == listener_' = listener_ /\ is_listening_' = FALSE

ServerClosed == listener_' = "null" /\ is_listening_' = FALSE

\* kv_server::close, and then EndClose of the store, which is not called when the
\* listener does not close.  A listener that was put in the place of the open one may
\* not be open itself.
ReplicaEndClose ==
    /\ Serving /\ phase = "closing"
    /\ is_listening_ => listener_ # "null"
    /\ \/ ~is_listening_ /\ UNCHANGED <<listener_, is_listening_>> /\ phase' = "closed"
       \/ is_listening_ /\ ServerClosed /\ phase' = "closed"
       \/ is_listening_ /\ UNCHANGED <<listener_, is_listening_>> /\ phase' = "storeNotEnded"
    /\ UNCHANGED <<host, role_, promoted, lost, addressTold>>

\* Nor need there be one: is_listening_ is still that of the listener that was lost.
CloseOfNull ==
    /\ Serving /\ phase = "closing"
    /\ is_listening_ /\ listener_ = "null"
    /\ host' = "undefined"
    /\ UNCHANGED kvReplica

\* Abort does nothing; the runtime is done with the replica.
ReplicaAbort ==
    /\ Serving /\ phase \in {"idle", "faulted", "storeNotEnded"}
    /\ phase' = "aborted"
    /\ UNCHANGED <<host, role_, listener_, is_listening_, promoted, lost, addressTold>>

ReplicaNext ==
    /\ \/ CreateReplica \/ ReplicaOpen \/ PutAsserts \/ BecomePrimary \/ BecomeSecondary
       \/ EndChangeRole \/ ReplicaBeginClose \/ ReplicaEndClose \/ CloseOfNull
       \/ ReplicaAbort
    /\ UNCHANGED extVars
-----------------------------------------------------------------------------
(***************************************************************************)
(* The address that a primary tells is that of an open listener; a closed  *)
(* replica has closed it, "close on unopened is ok" included; and as long  *)
(* as the runtime makes the replica primary once at most, no open listener *)
(* is lost, and kv_server::close calls no listener that is not there,      *)
(* whichever of the calls before it have failed.                           *)
(***************************************************************************)
ListenerClosed ==
    /\ addressTold
    /\ phase = "closed" => listener_ # "open"
    /\ program = "kvstore" /\ promoted <= 1 => lost = 0 /\ host # "undefined"
=============================================================================
