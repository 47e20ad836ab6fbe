-------------------------------- MODULE KvStore --------------------------------
(***************************************************************************)
(* Class curd of the kvstore example, on one key: add, get, put and        *)
(* remove, each in a transaction of the store of Service Fabric, called by *)
(* two threads.  The store is external: any of its functions may fail, and *)
(* a commit fails if the key has changed since the transaction looked at   *)
(* it.  A commit is a request of FabricExt, which commit_helper waits for. *)
(***************************************************************************)
EXTENDS FabricExt

CONSTANT NoValue    \* the key is absent

ASSUME NoValueAssumption == NoValue \notin {"old", "new"}

VARIABLES
    item,       \* the committed value of the key and its sequence number
    operation,  \* what each thread calls
    stage,      \* where the call is
    tx,         \* its transaction: none, open, committed, ended
    seen,       \* the item that the transaction has looked at
    written,    \* the value it has written, or NoValue for a removal
    answer      \* what the caller gets: none, ok, failed

kvStore == <<item, operation, stage, tx, seen, written, answer>>

KvStoreInit ==
    /\ item \in { [value |-> v, number |-> 0] : v \in {NoValue, "old"} }
    /\ operation = [c \in Request |-> "none"]
    /\ stage = [c \in Request |-> "outside"]
    /\ tx = [c \in Request |-> "none"]
    /\ seen = [c \in Request |-> item]
    /\ written = [c \in Request |-> NoValue]
    /\ answer = [c \in Request |-> "none"]

Present == item.value # NoValue

To(c, where) == stage' = [stage EXCEPT ![c] = where] /\ UNCHANGED <<tx, answer>>

\* The call returns.  Its transaction is committed, rolled back, or dropped by the
\* last com_ptr, which the store takes for a rollback.
Return(c, how) ==
    /\ stage' = [stage EXCEPT ![c] = "returned"]
    /\ answer' = [answer EXCEPT ![c] = how]
    /\ tx' = [tx EXCEPT ![c] = IF @ = "open" THEN "ended" ELSE @]
-----------------------------------------------------------------------------
CreateTransaction(c) ==
    /\ program = "curd" /\ stage[c] = "outside"
    /\ \E which \in {"add", "get", "put", "remove"} : operation' = [operation EXCEPT ![c] = which]
    /\ \/ /\ stage' = [stage EXCEPT ![c] = "contains"]
          /\ tx' = [tx EXCEPT ![c] = "open"]
          /\ UNCHANGED answer
       \/ Return(c, "failed")
    /\ UNCHANGED <<extVars, item, seen, written>>

\* contains_key leaves b as it is, uninitialized, when Contains fails, and nobody
\* looks at its result: the operation goes on with whatever b is.
ContainsKey(c) ==
    /\ stage[c] = "contains"
    /\ \E fails, b \in BOOLEAN :
          /\ fails \/ b = Present
          /\ IF b = (operation[c] = "add") THEN Return(c, "failed")
             ELSE To(c, IF operation[c] = "add" THEN "write" ELSE "read")
    /\ seen' = [seen EXCEPT ![c] = item]
    /\ UNCHANGED <<extVars, item, operation, written>>

GetHelper(c) ==
    /\ stage[c] = "read"
    /\ \/ /\ Present
          /\ seen' = [seen EXCEPT ![c] = item]
          /\ To(c, IF operation[c] = "get" THEN "commit" ELSE "write")
       \/ Return(c, "failed") /\ UNCHANGED seen
    /\ UNCHANGED <<extVars, item, operation, written>>

\* Add fails for a key that is there, Update and Remove for another sequence number.
StoreAccepts(c) == IF operation[c] = "add" THEN ~Present ELSE item = seen[c]

\* put and remove return S_OK at this point, with no commit.
Write(c) ==
    /\ stage[c] = "write"
    /\ \/ /\ StoreAccepts(c)
          /\ written' = [written EXCEPT ![c] = IF operation[c] = "remove" THEN NoValue ELSE "new"]
          /\ IF operation[c] = "add" THEN To(c, "commit") ELSE Return(c, "ok")
       \/ Return(c, "failed") /\ UNCHANGED written
    /\ seen' = [seen EXCEPT ![c] = item]
    /\ UNCHANGED <<extVars, item, operation>>

\* commit_helper begins the request.
BeginCommit(c) ==
    /\ stage[c] = "commit" /\ at[c] = "later"
    /\ To(c, "committing")
    /\ Goes(c, "idle")
    /\ UNCHANGED <<program, asserts, op, outcome, invoke, callbackRefs, contextRefs,
                   ready, posted, stopped, report, item, operation, seen, written>>

\* A step of the request.  When the store completes it, the transaction is committed
\* or not; a success says that it is, a failure may come although it is.
Committing ==
    /\ ExtNext
    /\ IF \E c \in Request : op[c] = "running" /\ op'[c] = "completed" /\ stage[c] = "committing"
       THEN LET c == CHOOSE r \in Request : op[r] = "running" /\ op'[r] = "completed"
            IN  \/ /\ operation[c] = "get" \/ item = seen[c]
                   /\ tx' = [tx EXCEPT ![c] = "committed"]
                   /\ item' = IF operation[c] = "get" THEN item
                              ELSE [value |-> written[c], number |-> item.number + 1]
                \/ outcome'[c] = "failed" /\ UNCHANGED <<tx, item>>
       ELSE UNCHANGED <<tx, item>>
    /\ UNCHANGED <<operation, stage, seen, written, answer>>

\* A slip: the result of commit_helper is not looked at.
MutantCommitReturns(c) ==
    /\ stage[c] = "committing" /\ at[c] = "gone"
    /\ Return(c, "ok")
    /\ UNCHANGED <<extVars, item, operation, seen, written>>

CommitReturns(c) ==
    /\ stage[c] = "committing" /\ at[c] = "gone"
    /\ Return(c, report[c])
    /\ UNCHANGED <<extVars, item, operation, seen, written>>

StoreCall(c) ==
    \/ CreateTransaction(c) \/ ContainsKey(c) \/ GetHelper(c) \/ Write(c)
    \/ BeginCommit(c) \/ CommitReturns(c)
-----------------------------------------------------------------------------
(***************************************************************************)
(* What S_OK of the four operations says, with two threads at the same key *)
(* and b of contains_key uninitialized: an add has been committed, and no  *)
(* other add of the key has; a get has read a committed value.  A put or   *)
(* remove has been thrown away with its transaction: the key keeps what it *)
(* was first added with, and its sequence number counts the adds.          *)
(***************************************************************************)
StoreAnswers ==
    LET Done(which) == { c \in Request : operation[c] = which /\ answer[c] = "ok" }
    IN  /\ \A c \in Done("add") \cup Done("get") : tx[c] = "committed"
        /\ Cardinality(Done("add")) <= item.number /\ item.number <= 1
        /\ \A c \in Done("get") : seen[c].value = item.value /\ Present
        /\ \A c \in Done("put") \cup Done("remove") : tx[c] = "ended" /\ Present
=============================================================================
