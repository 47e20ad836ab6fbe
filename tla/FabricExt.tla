------------------------------- MODULE FabricExt -------------------------------
(***************************************************************************)
(* fabric_ext: the callbacks that wait for an operation of the Service     *)
(* Fabric runtime, and the programs that use them.  A program begins an    *)
(* operation with a callback object, waits for Invoke in one of four ways  *)
(* (a condition variable, a token on an asio executor, an awaited event on *)
(* an executor or on the thread pool of WinRT) and calls End.  The runtime *)
(* calls Invoke on a thread of its own, before or after Begin has          *)
(* returned.  Objects live as long as somebody has a reference.            *)
(***************************************************************************)
EXTENDS Naturals, FiniteSets

CONSTANT Programs   \* the programs to look at, each in a process of its own

VARIABLES
    program,        \* the program of this process
    asserts,        \* whether the build has ASIO_ASSERT and assert
    at,             \* where the client of each request is
    op,             \* the operation of each request
    outcome,        \* how the operation ends
    invoke,         \* where the thread of the runtime is
    callbackRefs,   \* who has a reference to the callback
    contextRefs,    \* who has a reference to the context
    ready,          \* ready_ of the waitable callback, or the event of an awaitable one
    posted,         \* requests whose handler is in the queue of the io_context
    stopped,        \* the io_context is stopped
    report          \* what the caller, or the token, is told

extVars == <<program, asserts, at, op, outcome, invoke, callbackRefs, contextRefs,
             ready, posted, stopped, report>>

Request == 1..2

\* What matters of a program: its callback, how many requests it has in flight or
\* makes in turn, what it does before them, and what it makes of an empty answer.
WaitMain == [callback |-> "waitable", requests |-> 1, inTurn |-> FALSE, creates |-> TRUE, empty |-> "none"]
PropertyMain == [WaitMain EXCEPT !.empty = "failed"]    \* a value that cannot be read
KvClientMain == WaitMain
GetHostname == [WaitMain EXCEPT !.empty = "ok"]         \* FABRIC_NODE_CONTEXT is null
AsioMain == [WaitMain EXCEPT !.callback = "asio"]
ComposeMain == [AsioMain EXCEPT !.requests = 2, !.inTurn = TRUE]
QueryClient == [WaitMain EXCEPT !.callback = "event", !.requests = 2, !.creates = FALSE]
WinRTClient == [QueryClient EXCEPT !.callback = "winrt event", !.requests = 1]
CommitHelper == [QueryClient EXCEPT !.callback = "waitable"]    \* called by two threads

\* The services of the examples begin with get_hostname.
Behind == [ wait |-> WaitMain, property |-> PropertyMain, kvclient |-> KvClientMain,
            asio |-> AsioMain, compose |-> ComposeMain, await |-> QueryClient,
            winrt |-> WinRTClient, curd |-> CommitHelper,
            echo |-> GetHostname, kvstore |-> GetHostname ]

ASSUME ProgramsAssumption == Programs \subseteq DOMAIN Behind

my == Behind[program]
Requests == 1..my.requests

ExtInit ==
    /\ program \in Programs
    /\ asserts \in IF my.inTurn THEN BOOLEAN ELSE {TRUE}
    /\ at = [r \in Request |->
                CASE r \notin Requests -> "gone"
                  [] program = "curd" -> "later"        \* when a transaction commits
                  [] my.inTurn /\ r > 1 -> "later"
                  [] OTHER -> "idle"]
    /\ op = [r \in Request |-> "none"]
    /\ outcome = [r \in Request |-> "none"]
    /\ invoke = [r \in Request |-> "no"]
    /\ callbackRefs = [r \in Request |-> {}]
    /\ contextRefs = [r \in Request |-> {}]
    /\ ready = [r \in Request |-> FALSE]
    /\ posted = {}
    /\ stopped = FALSE
    /\ report = [r \in Request |-> "none"]

\* One thread executes main, or all the coroutines of an io_context.
Free(r) == my.callback = "waitable" \/ \A s \in Request \ {r} : at[s] \notin {"begin", "end"}

Told(r, answer) == report' = [report EXCEPT ![r] = answer]
Goes(r, where) == at' = [at EXCEPT ![r] = where]
-----------------------------------------------------------------------------
(***************************************************************************)
(* Begin.                                                                  *)
(***************************************************************************)

\* No client, runtime, activation context or port: main returns at once.
CreationFails ==
    /\ my.creates /\ at[1] = "idle"
    /\ at' = [r \in Request |-> "gone"]
    /\ report' = [r \in Request |-> IF r \in Requests THEN "exit" ELSE "none"]
    /\ UNCHANGED <<program, asserts, op, outcome, invoke, callbackRefs, contextRefs,
                   ready, posted, stopped>>

\* The callback is made, and Begin called with it.
Begin(r) ==
    /\ at[r] = "idle" /\ Free(r)
    /\ Goes(r, "begin")
    /\ op' = [op EXCEPT ![r] = "running"]
    /\ callbackRefs' = [callbackRefs EXCEPT ![r] = {"client", "runtime"}]
    /\ contextRefs' = [contextRefs EXCEPT ![r] = {"runtime"}]
    /\ UNCHANGED <<program, asserts, outcome, invoke, ready, posted, stopped, report>>

\* compose_op asserts that Begin does not fail.  Without asserts it goes on with a
\* callback that keeps io_context.run() at work for ever.
BeginFails(r) ==
    /\ at[r] = "idle" /\ Free(r)
    /\ IF my.inTurn
       THEN /\ Goes(r, IF asserts THEN "aborted" ELSE "run")
            /\ callbackRefs' = [callbackRefs EXCEPT ![r] = {"client"}]
            /\ UNCHANGED report
       ELSE Goes(r, "done") /\ Told(r, "failed") /\ UNCHANGED callbackRefs
    /\ UNCHANGED <<program, asserts, op, outcome, invoke, contextRefs, ready, posted, stopped>>

Waiting == CASE my.callback = "waitable" -> "check" [] my.callback = "asio" -> "run" [] OTHER -> "await"

\* A slip: the callback is not kept in compose_op.
MutantBeginReturns(r) ==
    /\ at[r] = "begin"
    /\ Goes(r, Waiting)
    /\ contextRefs' = [contextRefs EXCEPT ![r] = @ \cup {"client"}]
    /\ callbackRefs' = [callbackRefs EXCEPT ![r] = IF my.inTurn THEN @ \ {"client"} ELSE @]
    /\ UNCHANGED <<program, asserts, op, outcome, invoke, ready, posted, stopped, report>>

\* ctx.put() has its value when Begin returns, which may be after Invoke.
BeginReturns(r) ==
    /\ at[r] = "begin"
    /\ Goes(r, Waiting)
    /\ contextRefs' = [contextRefs EXCEPT ![r] = @ \cup {"client"}]
    /\ UNCHANGED <<program, asserts, op, outcome, invoke, callbackRefs, ready, posted, stopped, report>>
-----------------------------------------------------------------------------
(***************************************************************************)
(* The runtime.  It gives each operation a timeout of a second.  An answer *)
(* is "empty" when End succeeds and there is no node context, or no value  *)
(* of the type that is asked for.                                          *)
(***************************************************************************)
Complete(r) ==
    /\ op[r] = "running"
    /\ op' = [op EXCEPT ![r] = "completed"]
    /\ \E how \in {"ok", "failed"} \cup (IF my.empty = "none" THEN {} ELSE {"empty"}) :
          outcome' = [outcome EXCEPT ![r] = how]
    /\ invoke' = [invoke EXCEPT ![r] = "in"]
    /\ UNCHANGED <<program, asserts, at, callbackRefs, contextRefs, ready, posted, stopped, report>>

\* FabricAsyncOperationWaitableCallback: ready_ is set under the lock, the waiting
\* threads are woken after it.
InvokeWaitable(r) ==
    /\ invoke[r] = "in" /\ my.callback = "waitable"
    /\ ready' = [ready EXCEPT ![r] = TRUE]
    /\ invoke' = [invoke EXCEPT ![r] = "notify"]
    /\ UNCHANGED <<program, asserts, at, op, outcome, callbackRefs, contextRefs, posted, stopped, report>>

\* The event of an awaitable callback stays set.
InvokeEvent(r) ==
    /\ invoke[r] = "in" /\ my.callback \in {"event", "winrt event"}
    /\ ready' = [ready EXCEPT ![r] = TRUE]
    /\ invoke' = [invoke EXCEPT ![r] = "out"]
    /\ UNCHANGED <<program, asserts, at, op, outcome, callbackRefs, contextRefs, posted, stopped, report>>

\* A slip: nobody is woken.
MutantNotifyAll(r) ==
    /\ invoke[r] = "notify"
    /\ invoke' = [invoke EXCEPT ![r] = "out"]
    /\ UNCHANGED <<program, asserts, at, op, outcome, callbackRefs, contextRefs, ready, posted, stopped, report>>

NotifyAll(r) ==
    /\ invoke[r] = "notify"
    /\ at' = IF at[r] = "waiting" THEN [at EXCEPT ![r] = "check"] ELSE at
    /\ invoke' = [invoke EXCEPT ![r] = "out"]
    /\ UNCHANGED <<program, asserts, op, outcome, callbackRefs, contextRefs, ready, posted, stopped, report>>

\* AsioCallback: the context is kept as a plain pointer and the handler is posted.
InvokePosts(r) ==
    /\ invoke[r] = "in" /\ my.callback = "asio"
    /\ posted' = posted \cup {r}
    /\ invoke' = [invoke EXCEPT ![r] = "out"]
    /\ UNCHANGED <<program, asserts, at, op, outcome, callbackRefs, contextRefs, ready, stopped, report>>

\* After Invoke the runtime needs neither object.
RuntimeReleases(r) ==
    /\ invoke[r] = "out"
    /\ invoke' = [invoke EXCEPT ![r] = "over"]
    /\ callbackRefs' = [callbackRefs EXCEPT ![r] = @ \ {"runtime"}]
    /\ contextRefs' = [contextRefs EXCEPT ![r] = @ \ {"runtime"}]
    /\ UNCHANGED <<program, asserts, at, op, outcome, ready, posted, stopped, report>>
-----------------------------------------------------------------------------
(***************************************************************************)
(* Waiting, End and what follows.                                          *)
(***************************************************************************)

\* cv_.wait with its predicate, under the lock.
Wait(r) ==
    /\ at[r] = "check"
    /\ Goes(r, IF ready[r] THEN "end" ELSE "waiting")
    /\ UNCHANGED <<program, asserts, op, outcome, invoke, callbackRefs, contextRefs,
                   ready, posted, stopped, report>>

\* A condition variable may wake up with no notification.
SpuriousWakeup(r) ==
    /\ at[r] = "waiting"
    /\ Goes(r, "check")
    /\ UNCHANGED <<program, asserts, op, outcome, invoke, callbackRefs, contextRefs,
                   ready, posted, stopped, report>>

\* The event resumes a coroutine of WinRT, or posts the one of the executor.
EventSignalled(r) ==
    /\ at[r] = "await" /\ ready[r] /\ r \notin posted
    /\ IF my.callback = "winrt event" THEN Goes(r, "end") /\ UNCHANGED posted
       ELSE posted' = posted \cup {r} /\ UNCHANGED at
    /\ UNCHANGED <<program, asserts, op, outcome, invoke, callbackRefs, contextRefs,
                   ready, stopped, report>>

\* io_context.run() executes a handler: the token, or the rest of a coroutine.
RunHandler(r) ==
    /\ at[r] \in {"run", "await"} /\ r \in posted /\ ~stopped /\ Free(r)
    /\ Goes(r, "end")
    /\ posted' = posted \ {r}
    /\ UNCHANGED <<program, asserts, op, outcome, invoke, callbackRefs, contextRefs,
                   ready, stopped, report>>

Answer(r) == IF outcome[r] = "empty" THEN my.empty ELSE outcome[r]

End(r) ==
    /\ at[r] = "end"
    /\ op' = [op EXCEPT ![r] = "ended"]
    /\ Told(r, Answer(r))
    /\ Goes(r, IF my.callback = "asio" THEN "ran" ELSE "done")
    /\ UNCHANGED <<program, asserts, outcome, invoke, callbackRefs, contextRefs, ready, posted, stopped>>

\* io_context.run() returns when there is no work left, or at once when stopped.
RunReturns(r) ==
    /\ \/ at[r] = "ran"
       \/ at[r] = "run" /\ stopped
    /\ stopped' = TRUE
    /\ Goes(r, "done")
    /\ UNCHANGED <<program, asserts, op, outcome, invoke, callbackRefs, contextRefs, ready, posted, report>>

\* "run request one by one".
Restart ==
    /\ my.inTurn /\ at[1] = "done" /\ at[2] = "later"
    /\ stopped' = FALSE
    /\ Goes(2, "idle")
    /\ UNCHANGED <<program, asserts, op, outcome, invoke, callbackRefs, contextRefs, ready, posted, report>>

\* The com_ptrs are destroyed: those of a coroutine with it, those of main at its end.
Leave(r) ==
    /\ at[r] = "done"
    /\ my.callback = "asio" => \A s \in Request : at[s] \in {"done", "gone"}
    /\ Goes(r, "gone")
    /\ callbackRefs' = [callbackRefs EXCEPT ![r] = @ \ {"client"}]
    /\ contextRefs' = [contextRefs EXCEPT ![r] = @ \ {"client"}]
    /\ UNCHANGED <<program, asserts, op, outcome, invoke, ready, posted, stopped, report>>
-----------------------------------------------------------------------------
RuntimeStep(r) == Complete(r) \/ InvokeWaitable(r) \/ InvokeEvent(r) \/ NotifyAll(r) \/ InvokePosts(r) \/ RuntimeReleases(r)

ClientStep(r) ==
    \/ Begin(r) \/ BeginFails(r) \/ BeginReturns(r)
    \/ Wait(r) \/ EventSignalled(r) \/ RunHandler(r)
    \/ End(r) \/ RunReturns(r) \/ Leave(r)

ExtNext ==
    \/ CreationFails \/ Restart
    \/ \E r \in Request : RuntimeStep(r) \/ ClientStep(r) \/ SpuriousWakeup(r)

\* The runtime answers in time, and the threads of the program get to run.
ExtFairness ==
    /\ \A r \in Request : WF_extVars(RuntimeStep(r)) /\ WF_extVars(ClientStep(r))
    /\ WF_extVars(Restart)
-----------------------------------------------------------------------------
(***************************************************************************)
(* Whatever the order of Invoke, the return of Begin and the release by    *)
(* the runtime: objects in use are alive (the plain pointers of the        *)
(* handler of AsioCallback included), End is called once, for an operation *)
(* that has completed, nobody leaves without an answer, and who is told of *)
(* a success had one.                                                      *)
(***************************************************************************)
EndedRight ==
    \A r \in Requests :
        /\ invoke[r] \in {"in", "notify"} => callbackRefs[r] # {} /\ contextRefs[r] # {}
        /\ at[r] \in {"check", "waiting", "await"} \/ r \in posted => callbackRefs[r] # {}
        /\ at[r] = "end" => op[r] = "completed" /\ contextRefs[r] # {} /\ callbackRefs[r] # {}
        /\ at[r] \in {"done", "gone"} => report[r] # "none"
        /\ report[r] = "ok" => op[r] = "ended" /\ outcome[r] \in {"ok", "empty"}

\* With no callback to come, run() of compose_main waits for ever.
Hangs == ~asserts /\ \E r \in Requests : at[r] = "run" /\ op[r] = "none"

(***************************************************************************)
(* Every client is answered: no wake-up is lost, no handler stays in the   *)
(* queue and run() returns, unless compose_main met a Begin that failed.   *)
(***************************************************************************)
ClientsAnswered == \A r \in Request : at[r] = "idle" ~> at[r] \in {"done", "gone", "aborted"} \/ Hangs
=============================================================================
