------------------------------- MODULE Examples -------------------------------
(***************************************************************************)
(* The example programs, one in each behaviour: a client, the echo service *)
(* or the key-value store.                                                 *)
(***************************************************************************)
EXTENDS EchoApp, KvReplica, KvStore

services == <<host, echo, kvReplica, kvStore>>
exampleVars == <<extVars, services>>

ExamplesInit == ExtInit /\ HostInit /\ EchoInit /\ ReplicaInit /\ KvStoreInit

ExamplesNext ==
    \/ Committing /\ UNCHANGED <<host, echo, kvReplica>>
    \/ (\E c \in Request : StoreCall(c)) /\ UNCHANGED <<host, echo, kvReplica>>
    \/ HostNext /\ UNCHANGED <<echo, kvReplica, kvStore>>
    \/ EchoNext /\ UNCHANGED <<kvReplica, kvStore>>
    \/ ReplicaNext /\ UNCHANGED <<echo, kvStore>>

ExamplesFairness == ExtFairness /\ HostFairness /\ EchoFairness

ExamplesSpec == ExamplesInit /\ [][ExamplesNext]_exampleVars /\ ExamplesFairness
=============================================================================
