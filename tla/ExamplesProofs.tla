---------------------------- MODULE ExamplesProofs ----------------------------
(***************************************************************************)
(* Proofs about the examples: the clients in all of the programs, the two  *)
(* services with any number of instances and promotions, and the store     *)
(* with two threads that each call one of add, get, put and remove.        *)
(***************************************************************************)
EXTENDS Examples, FiniteSetTheorems, TLAPS
Ats == {"later", "idle", "begin", "check", "waiting", "await", "run", "end", "ran", "done",
        "gone", "aborted"}

ExtTypeInv ==
    /\ program \in DOMAIN Behind
    /\ asserts \in BOOLEAN
    /\ at \in [Request -> Ats]
    /\ op \in [Request -> {"none", "running", "completed", "ended"}]
    /\ outcome \in [Request -> {"none", "ok", "failed", "empty"}]
    /\ invoke \in [Request -> {"no", "in", "notify", "out", "over"}]
    /\ callbackRefs \in [Request -> SUBSET {"client", "runtime"}]
    /\ contextRefs \in [Request -> SUBSET {"client", "runtime"}]
    /\ ready \in [Request -> BOOLEAN]
    /\ posted \in SUBSET Request
    /\ stopped \in BOOLEAN
    /\ report \in [Request -> {"none", "exit", "ok", "failed"}]

\* The client of a request keeps its callback from Begin until it leaves, and the
\* context from the return of Begin; it ends what has completed.
ClientInv(r) ==
    /\ at[r] \in {"later", "idle"} => op[r] = "none"
    /\ at[r] \in {"begin", "check", "waiting", "await"} => op[r] \in {"running", "completed"}
    /\ at[r] = "run" => op[r] \in {"none", "running", "completed"}
    /\ at[r] = "end" => op[r] = "completed"
    /\ at[r] = "ran" => op[r] = "ended"
    /\ at[r] \in {"done", "gone", "aborted"} => op[r] \in {"none", "ended"}
    /\ at[r] \in {"begin", "check", "waiting", "await", "run", "end"} => "client" \in callbackRefs[r]
    /\ at[r] \in {"check", "waiting", "await", "end"} => "client" \in contextRefs[r]
    /\ at[r] = "run" /\ op[r] # "none" => "client" \in contextRefs[r]
    /\ at[r] \in {"ran", "done"} \/ (at[r] = "gone" /\ r \in Requests) => report[r] # "none"
    /\ report[r] = "ok" => op[r] = "ended" /\ outcome[r] \in {"ok", "empty"}

\* The runtime keeps both objects until Invoke has returned.
RuntimeInv(r) ==
    /\ op[r] = "running" => invoke[r] = "no"
    /\ op[r] = "none" => invoke[r] = "no"
    /\ op[r] \in {"completed", "ended"} => invoke[r] # "no" /\ outcome[r] # "none"
    /\ op[r] = "running" \/ invoke[r] \in {"in", "notify"} =>
          "runtime" \in callbackRefs[r] /\ "runtime" \in contextRefs[r]
    /\ outcome[r] = "empty" => my.empty # "none"

\* A client goes on only after Invoke has set the event or posted the handler.
SignalInv(r) ==
    /\ ready[r] \/ r \in posted => invoke[r] \in {"notify", "out", "over"}
    /\ r \in posted => at[r] \in {"begin", "run", "await"} /\ my.callback # "waitable"
    /\ at[r] \in {"run", "ran"} => my.callback = "asio"
    /\ my.callback = "asio" /\ invoke[r] = "in" => at[r] \in {"begin", "run"}
    /\ at[r] \in {"check", "waiting"} => my.callback = "waitable"
    /\ at[r] = "await" => my.callback \in {"event", "winrt event"}

\* The requests of an executor that run() serves come one after the other, and it is
\* stopped only between them.
TurnInv ==
    /\ 2 \notin Requests => at[2] = "gone"
    /\ my.callback = "asio" =>
          /\ stopped => \A r \in Request : at[r] \in {"later", "done", "gone"}
          /\ at[2] \in {"later", "gone"} \/ at[1] \in {"done", "gone"}
          /\ at[1] = "gone" => at[2] \in {"done", "gone"}
          /\ at[1] # "later"

\* Only the program of the store makes transactions.
StageInv == program # "curd" => stage = [c \in Request |-> "outside"]

ExtInv ==
    /\ ExtTypeInv
    /\ \A r \in Request : ClientInv(r) /\ RuntimeInv(r) /\ SignalInv(r)
    /\ TurnInv
-----------------------------------------------------------------------------
LEMMA TwoRequests == Request = {1, 2}
BY DEF Request

\* What the programs have in common.
Regular(x) ==
    /\ x.callback \in {"waitable", "asio", "event", "winrt event"}
    /\ x.requests \in {1, 2} /\ x.inTurn \in BOOLEAN
    /\ x.empty \in {"none", "ok", "failed"}
    /\ x.inTurn => x.callback = "asio" /\ x.requests = 2
    /\ x.callback = "asio" /\ x.requests = 2 => x.inTurn
    /\ x.creates /\ x.requests = 2 => x.inTurn

LEMMA MyFacts ==
    ASSUME program \in DOMAIN Behind
    PROVE  Regular(my) /\ (program = "curd" => my = CommitHelper)
       /\ CommitHelper.callback = "waitable" /\ CommitHelper.requests = 2 /\ CommitHelper.empty = "none"
       /\ CommitHelper.creates = FALSE /\ CommitHelper.inTurn = FALSE
<1>1. Regular(WaitMain) /\ Regular(PropertyMain) /\ Regular(GetHostname)
  BY DEF Regular, WaitMain, PropertyMain, GetHostname
<1>2. Regular(AsioMain) /\ Regular(ComposeMain)
  BY DEF Regular, AsioMain, ComposeMain, WaitMain
<1>3. Regular(QueryClient) /\ Regular(WinRTClient) /\ Regular(CommitHelper)
  BY DEF Regular, QueryClient, WinRTClient, CommitHelper, WaitMain
<1>4. /\ CommitHelper.callback = "waitable" /\ CommitHelper.requests = 2 /\ CommitHelper.empty = "none"
      /\ CommitHelper.creates = FALSE /\ CommitHelper.inTurn = FALSE
  BY DEF CommitHelper, QueryClient, WaitMain
<1>5. /\ my \in {WaitMain, PropertyMain, GetHostname, AsioMain, ComposeMain, QueryClient,
                 WinRTClient, CommitHelper}
      /\ program = "curd" => my = CommitHelper
  BY DEF my, Behind, KvClientMain
<1> QED
  BY <1>1, <1>2, <1>3, <1>4, <1>5

LEMMA SameProgram ==
    ASSUME program' = program
    PROVE  my' = my /\ Requests' = Requests
BY DEF my, Requests

LEMMA RequestsFacts ==
    ASSUME program \in DOMAIN Behind
    PROVE  Requests \subseteq Request /\ 1 \in Requests /\ (2 \in Requests <=> my.requests = 2)
<1>1. my.requests \in {1, 2}
  BY MyFacts DEF Regular
<1>2. CASE my.requests = 1
  BY <1>2 DEF Requests, Request
<1>3. CASE my.requests = 2
  BY <1>3 DEF Requests, Request
<1> QED
  BY <1>1, <1>2, <1>3

LEMMA ExtInitially == ExtInit => ExtInv
<1> SUFFICES ASSUME ExtInit
             PROVE  ExtInv
  OBVIOUS
<1>1. program \in DOMAIN Behind
  BY ProgramsAssumption DEF ExtInit
<1>2. ExtTypeInv
  BY <1>1, MyFacts DEF Regular, ExtInit, ExtTypeInv, Ats
<1>3. \A r \in Request : at[r] \in {"later", "idle", "gone"} /\ (at[r] = "gone" => r \notin Requests)
  BY <1>1, MyFacts, RequestsFacts DEF Regular, ExtInit
<1>4. ASSUME NEW r \in Request
      PROVE  ClientInv(r) /\ RuntimeInv(r) /\ SignalInv(r)
  BY <1>3 DEF ExtInit, ClientInv, RuntimeInv, SignalInv
<1>6. /\ my.callback = "asio" => program # "curd"
      /\ 1 \in Requests /\ 1 \in Request /\ 2 \in Request
      /\ 2 \in Requests /\ my.callback = "asio" => my.inTurn
      /\ 2 \notin Requests => program # "curd" /\ ~my.inTurn
  BY <1>1, MyFacts, RequestsFacts, TwoRequests DEF Regular
<1>7. /\ 2 \notin Requests => at[2] = "gone"
      /\ my.callback = "asio" => at[1] = "idle" /\ at[2] \in {"later", "gone"}
  <2>1. 2 \notin Requests => at[2] = "gone"
    BY <1>6 DEF ExtInit
  <2>2. ASSUME my.callback = "asio"
        PROVE  at[1] = "idle"
    <3>1. ~(1 > 1)
      OBVIOUS
    <3> QED
      BY <1>6, <2>2, <3>1 DEF ExtInit
  <2>3. ASSUME my.callback = "asio", 2 \in Requests
        PROVE  at[2] = "later"
    <3>1. 2 > 1
      OBVIOUS
    <3> QED
      BY <1>6, <2>3, <3>1 DEF ExtInit
  <2> QED
    BY <2>1, <2>2, <2>3
<1>5. TurnInv
  BY <1>7 DEF ExtInit, TurnInv
<1> QED
  BY <1>2, <1>4, <1>5 DEF ExtInv
-----------------------------------------------------------------------------
\* A step that leaves request s alone, and the program.
Untouched(s) ==
    /\ UNCHANGED <<program, at[s], op[s], outcome[s], invoke[s], callbackRefs[s],
                   contextRefs[s], ready[s], report[s]>>
    /\ s \in posted' <=> s \in posted

LEMMA UntouchedKeeps ==
    ASSUME NEW s \in Request, ClientInv(s), RuntimeInv(s), SignalInv(s), Untouched(s)
    PROVE  ClientInv(s)' /\ RuntimeInv(s)' /\ SignalInv(s)'
<1>1. my' = my /\ Requests' = Requests
  BY SameProgram DEF Untouched
<1>2. ClientInv(s)' /\ RuntimeInv(s)'
  BY <1>1 DEF Untouched, ClientInv, RuntimeInv
<1>3. SignalInv(s)'
  BY <1>1 DEF Untouched, SignalInv
<1> QED
  BY <1>2, <1>3

\* So it is enough to look at the request that the step is about.
LEMMA OneRequest ==
    ASSUME ExtInv, NEW r \in Request, ExtTypeInv', TurnInv',
           \A s \in Request \ {r} : Untouched(s),
           ClientInv(r)', RuntimeInv(r)', SignalInv(r)'
    PROVE  ExtInv'
<1>1. ASSUME NEW s \in Request
      PROVE  ClientInv(s)' /\ RuntimeInv(s)' /\ SignalInv(s)'
  BY UntouchedKeeps DEF ExtInv
<1> QED
  BY <1>1 DEF ExtInv

LEMMA BeginKeeps ==
    ASSUME ExtInv, NEW r \in Request, Begin(r)
    PROVE  ExtInv'
<1>1. my' = my /\ Requests' = Requests /\ Regular(my)
  BY MyFacts, SameProgram DEF Begin, ExtInv, ExtTypeInv
<1>2. ExtTypeInv'
  BY <1>1 DEF Begin, Free, Goes, Ats, Regular, ExtInv, ExtTypeInv
<1>3. \A s \in Request \ {r} : Untouched(s)
  BY DEF Begin, Free, Goes, Untouched, ExtInv, ExtTypeInv
<1>8. /\ at[r] = "idle" /\ at'[r] = "begin" /\ op'[r] = "running"
      /\ callbackRefs'[r] = {"client", "runtime"} /\ contextRefs'[r] = {"runtime"}
      /\ UNCHANGED <<outcome[r], invoke[r], ready[r], report[r], posted>>
  BY DEF Begin, Goes, ExtInv, ExtTypeInv
<1>10. ClientInv(r) /\ RuntimeInv(r) /\ SignalInv(r) /\ at[r] \in Ats
  BY DEF ExtInv, ExtTypeInv
<1>4. ClientInv(r)'
  BY <1>1, <1>8, <1>10 DEF ClientInv, RuntimeInv, SignalInv, Regular
<1>5. RuntimeInv(r)'
  BY <1>1, <1>8, <1>10 DEF ClientInv, RuntimeInv
<1>6. SignalInv(r)'
  BY <1>1, <1>8, <1>10 DEF ClientInv, RuntimeInv, SignalInv, Ats, Regular
<1>7. TurnInv'
  BY <1>1, RequestsFacts, TwoRequests DEF Begin, Free, Goes, TurnInv, ClientInv, SignalInv, Regular, ExtInv, ExtTypeInv
<1> QED
  BY <1>2, <1>3, <1>4, <1>5, <1>6, <1>7, OneRequest

LEMMA BeginFailsKeeps ==
    ASSUME ExtInv, NEW r \in Request, BeginFails(r)
    PROVE  ExtInv'
<1> USE DEF ExtInv, ExtTypeInv
<1>1. my' = my /\ Requests' = Requests /\ Regular(my)
  BY MyFacts, SameProgram DEF BeginFails
<1>0. PICK where \in {"aborted", "run", "done"}, says \in {"none", "exit", "ok", "failed"},
           refs \in {callbackRefs[r], {"client"}} :
        /\ at[r] = "idle" /\ at' = [at EXCEPT ![r] = where]
        /\ report' = [report EXCEPT ![r] = says]
        /\ callbackRefs' = [callbackRefs EXCEPT ![r] = refs]
        /\ where = "done" => says = "failed" /\ my.inTurn = FALSE
        /\ where # "done" => says = report[r] /\ refs = {"client"} /\ my.inTurn = TRUE
        /\ UNCHANGED <<program, asserts, op, outcome, invoke, contextRefs, ready, posted, stopped>>
  <2>1. CASE my.inTurn
    <3>1. PICK where \in {"aborted", "run"} :
            /\ at[r] = "idle" /\ at' = [at EXCEPT ![r] = where] /\ report' = report
            /\ callbackRefs' = [callbackRefs EXCEPT ![r] = {"client"}]
            /\ UNCHANGED <<program, asserts, op, outcome, invoke, contextRefs, ready, posted, stopped>>
      BY <2>1 DEF BeginFails, Goes
    <3>2. report' = [report EXCEPT ![r] = report[r]]
      BY <3>1
    <3> QED
      BY <1>1, <2>1, <3>1, <3>2 DEF Regular
  <2>2. CASE ~my.inTurn
    <3>1. callbackRefs' = [callbackRefs EXCEPT ![r] = callbackRefs[r]]
      BY <2>2 DEF BeginFails
    <3> QED
      BY <1>1, <2>2, <3>1 DEF BeginFails, Goes, Told, Regular
  <2> QED
    BY <2>1, <2>2
<1>8. /\ at[r] = "idle" /\ at'[r] \in {"aborted", "run", "done"}
      /\ at'[r] = "run" => my.callback = "asio" /\ callbackRefs'[r] = {"client"}
      /\ at'[r] = "done" => report'[r] = "failed"
      /\ at'[r] # "done" => report'[r] = report[r]
      /\ UNCHANGED <<op[r], outcome[r], invoke[r], contextRefs[r], ready[r], posted>>
  BY <1>0, <1>1 DEF Regular
<1>2. ExtTypeInv'
  BY <1>0, <1>1 DEF Ats, Regular
<1>3. \A s \in Request \ {r} : Untouched(s)
  BY <1>0 DEF Untouched
<1>4. ClientInv(r)'
  BY <1>1, <1>8 DEF ClientInv, RuntimeInv, SignalInv
<1>5. RuntimeInv(r)'
  BY <1>0, <1>1 DEF ClientInv, RuntimeInv, Regular
<1>6. SignalInv(r)'
  BY <1>1, <1>8 DEF ClientInv, RuntimeInv, SignalInv, Regular
<1>7. TurnInv'
  BY <1>0, <1>1, RequestsFacts, TwoRequests DEF TurnInv, ClientInv, SignalInv, Regular
<1> QED
  BY <1>2, <1>3, <1>4, <1>5, <1>6, <1>7, OneRequest

LEMMA BeginReturnsKeeps ==
    ASSUME ExtInv, NEW r \in Request, BeginReturns(r)
    PROVE  ExtInv'
<1> USE DEF ExtInv, ExtTypeInv
<1>1. my' = my /\ Requests' = Requests /\ Regular(my)
  BY MyFacts, SameProgram DEF BeginReturns
<1>0. PICK where \in {"check", "run", "await"} :
        /\ where = "run" <=> my.callback = "asio"
        /\ where = "check" <=> my.callback = "waitable"
        /\ at[r] = "begin" /\ at' = [at EXCEPT ![r] = where]
        /\ contextRefs' = [contextRefs EXCEPT ![r] = contextRefs[r] \cup {"client"}]
        /\ UNCHANGED <<program, asserts, op, outcome, invoke, callbackRefs, ready, posted, stopped, report>>
  <2>1. /\ Waiting \in {"check", "run", "await"}
        /\ Waiting = "run" <=> my.callback = "asio"
        /\ Waiting = "check" <=> my.callback = "waitable"
    BY DEF Waiting
  <2> QED
    BY <2>1 DEF BeginReturns, Goes
<1>8. /\ at[r] = "begin" /\ at'[r] = where
      /\ contextRefs'[r] = contextRefs[r] \cup {"client"}
      /\ UNCHANGED <<op[r], outcome[r], invoke[r], callbackRefs[r], ready[r], report[r], posted>>
  BY <1>0
<1>2. ExtTypeInv'
  BY <1>0, <1>1 DEF Ats, Regular
<1>3. \A s \in Request \ {r} : Untouched(s)
  BY <1>0 DEF Untouched
<1>4. ClientInv(r)'
  BY <1>0, <1>1, <1>8 DEF ClientInv, RuntimeInv, SignalInv
<1>5. RuntimeInv(r)'
  BY <1>1, <1>8 DEF ClientInv, RuntimeInv
<1>6. SignalInv(r)'
  BY <1>0, <1>1, <1>8 DEF SignalInv, Regular
<1>7. TurnInv'
  BY <1>0, <1>1, RequestsFacts, TwoRequests DEF TurnInv, ClientInv, SignalInv, Regular
<1> QED
  BY <1>2, <1>3, <1>4, <1>5, <1>6, <1>7, OneRequest

LEMMA CompleteKeeps ==
    ASSUME ExtInv, NEW r \in Request, Complete(r)
    PROVE  ExtInv'
<1>1. my' = my /\ Requests' = Requests /\ Regular(my)
  BY MyFacts, SameProgram DEF Complete, ExtInv, ExtTypeInv
<1>0. PICK how \in {"ok", "failed", "empty"} :
        /\ how = "empty" => my.empty # "none"
        /\ op[r] = "running" /\ op' = [op EXCEPT ![r] = "completed"]
        /\ outcome' = [outcome EXCEPT ![r] = how] /\ invoke' = [invoke EXCEPT ![r] = "in"]
        /\ UNCHANGED <<program, asserts, at, callbackRefs, contextRefs, ready, posted, stopped, report>>
  BY DEF Complete
<1>2. ExtTypeInv'
  BY <1>0, <1>1 DEF Ats, Regular, ExtInv, ExtTypeInv
<1>3. \A s \in Request \ {r} : Untouched(s)
  BY <1>0 DEF Untouched, ExtInv, ExtTypeInv
<1>8. /\ op[r] = "running" /\ op'[r] = "completed" /\ invoke'[r] = "in" /\ at[r] \in Ats
      /\ outcome'[r] \in {"ok", "failed", "empty"} /\ (outcome'[r] = "empty" => my.empty # "none")
      /\ UNCHANGED <<at[r], callbackRefs[r], contextRefs[r], ready[r], report[r], posted>>
  BY <1>0 DEF ExtInv, ExtTypeInv
<1>10. ClientInv(r) /\ RuntimeInv(r) /\ SignalInv(r) /\ at[r] \in Ats
  BY DEF ExtInv, ExtTypeInv
<1>4. ClientInv(r)'
  BY <1>1, <1>8, <1>10 DEF ClientInv, RuntimeInv, SignalInv, Regular
<1>5. RuntimeInv(r)'
  BY <1>1, <1>8, <1>10 DEF ClientInv, RuntimeInv
<1>6. SignalInv(r)'
  BY <1>1, <1>8, <1>10 DEF ClientInv, RuntimeInv, SignalInv, Ats, Regular
<1>7. TurnInv'
  BY <1>0, <1>1, RequestsFacts, TwoRequests DEF TurnInv, ClientInv, SignalInv, Regular, ExtInv, ExtTypeInv
<1> QED
  BY <1>2, <1>3, <1>4, <1>5, <1>6, <1>7, OneRequest

LEMMA InvokeWaitableKeeps ==
    ASSUME ExtInv, NEW r \in Request, InvokeWaitable(r)
    PROVE  ExtInv'
<1>1. my' = my /\ Requests' = Requests /\ Regular(my)
  BY MyFacts, SameProgram DEF InvokeWaitable, ExtInv, ExtTypeInv
<1>2. ExtTypeInv'
  BY <1>1 DEF InvokeWaitable, Ats, Regular, ExtInv, ExtTypeInv
<1>3. \A s \in Request \ {r} : Untouched(s)
  BY DEF InvokeWaitable, Untouched, ExtInv, ExtTypeInv
<1>8. /\ invoke[r] = "in" /\ invoke'[r] = "notify" /\ ready'[r] = TRUE /\ my.callback = "waitable"
      /\ UNCHANGED <<at[r], op[r], outcome[r], callbackRefs[r], contextRefs[r], report[r], posted>>
  BY DEF InvokeWaitable, ExtInv, ExtTypeInv
<1>10. ClientInv(r) /\ RuntimeInv(r) /\ SignalInv(r) /\ at[r] \in Ats
  BY DEF ExtInv, ExtTypeInv
<1>4. ClientInv(r)'
  BY <1>1, <1>8, <1>10 DEF ClientInv, RuntimeInv, SignalInv, Regular
<1>5. RuntimeInv(r)'
  BY <1>1, <1>8, <1>10 DEF ClientInv, RuntimeInv
<1>6. SignalInv(r)'
  BY <1>1, <1>8, <1>10 DEF ClientInv, RuntimeInv, SignalInv, Ats, Regular
<1>7. TurnInv'
  BY <1>1, RequestsFacts, TwoRequests DEF InvokeWaitable, TurnInv, ClientInv, SignalInv, Regular, ExtInv, ExtTypeInv
<1> QED
  BY <1>2, <1>3, <1>4, <1>5, <1>6, <1>7, OneRequest

LEMMA InvokeEventKeeps ==
    ASSUME ExtInv, NEW r \in Request, InvokeEvent(r)
    PROVE  ExtInv'
<1>1. my' = my /\ Requests' = Requests /\ Regular(my)
  BY MyFacts, SameProgram DEF InvokeEvent, ExtInv, ExtTypeInv
<1>2. ExtTypeInv'
  BY <1>1 DEF InvokeEvent, Ats, Regular, ExtInv, ExtTypeInv
<1>3. \A s \in Request \ {r} : Untouched(s)
  BY DEF InvokeEvent, Untouched, ExtInv, ExtTypeInv
<1>8. /\ invoke[r] = "in" /\ invoke'[r] = "out" /\ ready'[r] = TRUE /\ my.callback \in {"event", "winrt event"}
      /\ UNCHANGED <<at[r], op[r], outcome[r], callbackRefs[r], contextRefs[r], report[r], posted>>
  BY DEF InvokeEvent, ExtInv, ExtTypeInv
<1>10. ClientInv(r) /\ RuntimeInv(r) /\ SignalInv(r) /\ at[r] \in Ats
  BY DEF ExtInv, ExtTypeInv
<1>4. ClientInv(r)'
  BY <1>1, <1>8, <1>10 DEF ClientInv, RuntimeInv, SignalInv, Regular
<1>5. RuntimeInv(r)'
  BY <1>1, <1>8, <1>10 DEF ClientInv, RuntimeInv
<1>6. SignalInv(r)'
  BY <1>1, <1>8, <1>10 DEF ClientInv, RuntimeInv, SignalInv, Ats, Regular
<1>7. TurnInv'
  BY <1>1, RequestsFacts, TwoRequests DEF InvokeEvent, TurnInv, ClientInv, SignalInv, Regular, ExtInv, ExtTypeInv
<1> QED
  BY <1>2, <1>3, <1>4, <1>5, <1>6, <1>7, OneRequest

LEMMA NotifyAllKeeps ==
    ASSUME ExtInv, NEW r \in Request, NotifyAll(r)
    PROVE  ExtInv'
<1>1. my' = my /\ Requests' = Requests /\ Regular(my)
  BY MyFacts, SameProgram DEF NotifyAll, ExtInv, ExtTypeInv
<1>2. ExtTypeInv'
  BY <1>1 DEF NotifyAll, Ats, Regular, ExtInv, ExtTypeInv
<1>3. \A s \in Request \ {r} : Untouched(s)
  BY DEF NotifyAll, Untouched, ExtInv, ExtTypeInv
<1>8. /\ invoke[r] = "notify" /\ invoke'[r] = "out"
      /\ at'[r] = IF at[r] = "waiting" THEN "check" ELSE at[r]
      /\ UNCHANGED <<op[r], outcome[r], callbackRefs[r], contextRefs[r], ready[r], report[r], posted>>
  BY DEF NotifyAll, ExtInv, ExtTypeInv
<1>10. ClientInv(r) /\ RuntimeInv(r) /\ SignalInv(r) /\ at[r] \in Ats
  BY DEF ExtInv, ExtTypeInv
<1>4. ClientInv(r)'
  BY <1>1, <1>8, <1>10 DEF ClientInv, RuntimeInv, SignalInv, Regular
<1>5. RuntimeInv(r)'
  BY <1>1, <1>8, <1>10 DEF ClientInv, RuntimeInv
<1>6. SignalInv(r)'
  BY <1>1, <1>8, <1>10 DEF ClientInv, RuntimeInv, SignalInv, Ats, Regular
<1>7. TurnInv'
  BY <1>1, RequestsFacts, TwoRequests DEF NotifyAll, TurnInv, ClientInv, SignalInv, Regular, ExtInv, ExtTypeInv
<1> QED
  BY <1>2, <1>3, <1>4, <1>5, <1>6, <1>7, OneRequest

LEMMA InvokePostsKeeps ==
    ASSUME ExtInv, NEW r \in Request, InvokePosts(r)
    PROVE  ExtInv'
<1> USE DEF ExtInv, ExtTypeInv
<1>1. my' = my /\ Requests' = Requests /\ Regular(my)
  BY MyFacts, SameProgram DEF InvokePosts
<1>2. ExtTypeInv'
  BY <1>1 DEF InvokePosts, Ats, Regular
<1>3. \A s \in Request \ {r} : Untouched(s)
  BY DEF InvokePosts, Untouched
<1>4. ClientInv(r)'
  BY <1>1 DEF InvokePosts, ClientInv, RuntimeInv, SignalInv, TurnInv, Regular
<1>5. RuntimeInv(r)'
  BY <1>1 DEF InvokePosts, ClientInv, RuntimeInv, Regular
<1>8. /\ my.callback = "asio" /\ invoke[r] = "in" /\ invoke'[r] = "out"
      /\ UNCHANGED <<at[r], ready[r]>>
  BY <1>1 DEF InvokePosts
<1>6. SignalInv(r)'
  BY <1>1, <1>8 DEF SignalInv
<1>7. TurnInv'
  BY <1>1, RequestsFacts, TwoRequests DEF InvokePosts, TurnInv, ClientInv, SignalInv, Regular
<1> QED
  BY <1>2, <1>3, <1>4, <1>5, <1>6, <1>7, OneRequest

LEMMA RuntimeReleasesKeeps ==
    ASSUME ExtInv, NEW r \in Request, RuntimeReleases(r)
    PROVE  ExtInv'
<1>1. my' = my /\ Requests' = Requests /\ Regular(my)
  BY MyFacts, SameProgram DEF RuntimeReleases, ExtInv, ExtTypeInv
<1>2. ExtTypeInv'
  BY <1>1 DEF RuntimeReleases, Ats, Regular, ExtInv, ExtTypeInv
<1>3. \A s \in Request \ {r} : Untouched(s)
  BY DEF RuntimeReleases, Untouched, ExtInv, ExtTypeInv
<1>8. /\ invoke[r] = "out" /\ invoke'[r] = "over"
      /\ callbackRefs'[r] = callbackRefs[r] \ {"runtime"}
      /\ contextRefs'[r] = contextRefs[r] \ {"runtime"}
      /\ UNCHANGED <<at[r], op[r], outcome[r], ready[r], report[r], posted>>
  BY DEF RuntimeReleases, ExtInv, ExtTypeInv
<1>10. ClientInv(r) /\ RuntimeInv(r) /\ SignalInv(r) /\ at[r] \in Ats
  BY DEF ExtInv, ExtTypeInv
<1>4. ClientInv(r)'
  BY <1>1, <1>8, <1>10 DEF ClientInv, RuntimeInv, SignalInv, Regular
<1>5. RuntimeInv(r)'
  BY <1>1, <1>8, <1>10 DEF ClientInv, RuntimeInv
<1>6. SignalInv(r)'
  BY <1>1, <1>8, <1>10 DEF ClientInv, RuntimeInv, SignalInv, Ats, Regular
<1>7. TurnInv'
  BY <1>1, RequestsFacts, TwoRequests DEF RuntimeReleases, TurnInv, ClientInv, SignalInv, Regular, ExtInv, ExtTypeInv
<1> QED
  BY <1>2, <1>3, <1>4, <1>5, <1>6, <1>7, OneRequest

LEMMA WaitKeeps ==
    ASSUME ExtInv, NEW r \in Request, Wait(r)
    PROVE  ExtInv'
<1>1. my' = my /\ Requests' = Requests /\ Regular(my)
  BY MyFacts, SameProgram DEF Wait, ExtInv, ExtTypeInv
<1>2. ExtTypeInv'
  BY <1>1 DEF Wait, Goes, Ats, Regular, ExtInv, ExtTypeInv
<1>3. \A s \in Request \ {r} : Untouched(s)
  BY DEF Wait, Goes, Untouched, ExtInv, ExtTypeInv
<1>8. /\ at[r] = "check" /\ at'[r] = IF ready[r] THEN "end" ELSE "waiting"
      /\ UNCHANGED <<op[r], outcome[r], invoke[r], callbackRefs[r], contextRefs[r], ready[r], report[r], posted>>
  BY DEF Wait, Goes, ExtInv, ExtTypeInv
<1>10. ClientInv(r) /\ RuntimeInv(r) /\ SignalInv(r) /\ at[r] \in Ats
  BY DEF ExtInv, ExtTypeInv
<1>4. ClientInv(r)'
  BY <1>1, <1>8, <1>10 DEF ClientInv, RuntimeInv, SignalInv, Regular
<1>5. RuntimeInv(r)'
  BY <1>1, <1>8, <1>10 DEF ClientInv, RuntimeInv
<1>6. SignalInv(r)'
  BY <1>1, <1>8, <1>10 DEF ClientInv, RuntimeInv, SignalInv, Ats, Regular
<1>7. TurnInv'
  BY <1>1, RequestsFacts, TwoRequests DEF Wait, Goes, TurnInv, ClientInv, SignalInv, Regular, ExtInv, ExtTypeInv
<1> QED
  BY <1>2, <1>3, <1>4, <1>5, <1>6, <1>7, OneRequest

LEMMA SpuriousWakeupKeeps ==
    ASSUME ExtInv, NEW r \in Request, SpuriousWakeup(r)
    PROVE  ExtInv'
<1>1. my' = my /\ Requests' = Requests /\ Regular(my)
  BY MyFacts, SameProgram DEF SpuriousWakeup, ExtInv, ExtTypeInv
<1>2. ExtTypeInv'
  BY <1>1 DEF SpuriousWakeup, Goes, Ats, Regular, ExtInv, ExtTypeInv
<1>3. \A s \in Request \ {r} : Untouched(s)
  BY DEF SpuriousWakeup, Goes, Untouched, ExtInv, ExtTypeInv
<1>8. /\ at[r] = "waiting" /\ at'[r] = "check"
      /\ UNCHANGED <<op[r], outcome[r], invoke[r], callbackRefs[r], contextRefs[r], ready[r], report[r], posted>>
  BY DEF SpuriousWakeup, Goes, ExtInv, ExtTypeInv
<1>10. ClientInv(r) /\ RuntimeInv(r) /\ SignalInv(r) /\ at[r] \in Ats
  BY DEF ExtInv, ExtTypeInv
<1>4. ClientInv(r)'
  BY <1>1, <1>8, <1>10 DEF ClientInv, RuntimeInv, SignalInv, Regular
<1>5. RuntimeInv(r)'
  BY <1>1, <1>8, <1>10 DEF ClientInv, RuntimeInv
<1>6. SignalInv(r)'
  BY <1>1, <1>8, <1>10 DEF ClientInv, RuntimeInv, SignalInv, Ats, Regular
<1>7. TurnInv'
  BY <1>1, RequestsFacts, TwoRequests DEF SpuriousWakeup, Goes, TurnInv, ClientInv, SignalInv, Regular, ExtInv, ExtTypeInv
<1> QED
  BY <1>2, <1>3, <1>4, <1>5, <1>6, <1>7, OneRequest

LEMMA EventSignalledKeeps ==
    ASSUME ExtInv, NEW r \in Request, EventSignalled(r)
    PROVE  ExtInv'
<1>1. my' = my /\ Requests' = Requests /\ Regular(my)
  BY MyFacts, SameProgram DEF EventSignalled, ExtInv, ExtTypeInv
<1>0. /\ at[r] = "await" /\ ready[r] = TRUE /\ r \notin posted
      /\ \/ at' = [at EXCEPT ![r] = "end"] /\ posted' = posted
         \/ posted' = posted \cup {r} /\ at' = at
      /\ UNCHANGED <<program, asserts, op, outcome, invoke, callbackRefs, contextRefs, ready, stopped, report>>
  BY DEF EventSignalled, Goes
<1>11. at \in [Request -> Ats] /\ posted \in SUBSET Request
  BY DEF ExtInv, ExtTypeInv
<1>12. at' \in [Request -> Ats] /\ posted' \in SUBSET Request
  BY <1>0, <1>11 DEF Ats
<1>2. ExtTypeInv'
  BY <1>0, <1>12 DEF ExtInv, ExtTypeInv
<1>13. \A s \in Request \ {r} : at'[s] = at[s] /\ (s \in posted' <=> s \in posted)
  BY <1>0, <1>11
<1>3. \A s \in Request \ {r} : Untouched(s)
  BY <1>0, <1>13 DEF Untouched
<1>8. /\ at[r] = "await" /\ ready[r] = TRUE /\ at'[r] \in {"await", "end"}
      /\ r \in posted' => at'[r] = "await"
      /\ UNCHANGED <<op[r], outcome[r], invoke[r], callbackRefs[r], contextRefs[r], ready[r], report[r]>>
  BY <1>0 DEF ExtInv, ExtTypeInv
<1>10. ClientInv(r) /\ RuntimeInv(r) /\ SignalInv(r) /\ at[r] \in Ats
  BY DEF ExtInv, ExtTypeInv
<1>4. ClientInv(r)'
  BY <1>1, <1>8, <1>10 DEF ClientInv, RuntimeInv, SignalInv, Regular
<1>5. RuntimeInv(r)'
  BY <1>1, <1>8, <1>10 DEF ClientInv, RuntimeInv
<1>6. SignalInv(r)'
  BY <1>1, <1>8, <1>10 DEF ClientInv, RuntimeInv, SignalInv, Ats, Regular
<1>9. my.callback # "asio"
  BY <1>8, <1>10 DEF SignalInv
<1>7. TurnInv'
  BY <1>0, <1>1, <1>9, RequestsFacts, TwoRequests DEF TurnInv, ExtInv, ExtTypeInv
<1> QED
  BY <1>2, <1>3, <1>4, <1>5, <1>6, <1>7, OneRequest

LEMMA RunHandlerKeeps ==
    ASSUME ExtInv, NEW r \in Request, RunHandler(r)
    PROVE  ExtInv'
<1>1. my' = my /\ Requests' = Requests /\ Regular(my)
  BY MyFacts, SameProgram DEF RunHandler, ExtInv, ExtTypeInv
<1>2. ExtTypeInv'
  BY <1>1 DEF RunHandler, Free, Goes, Ats, Regular, ExtInv, ExtTypeInv
<1>3. \A s \in Request \ {r} : Untouched(s)
  BY DEF RunHandler, Free, Goes, Untouched, ExtInv, ExtTypeInv
<1>8. /\ at[r] \in {"run", "await"} /\ at'[r] = "end" /\ r \in posted /\ r \notin posted'
      /\ UNCHANGED <<op[r], outcome[r], invoke[r], callbackRefs[r], contextRefs[r], ready[r], report[r]>>
  BY DEF RunHandler, Goes, ExtInv, ExtTypeInv
<1>10. ClientInv(r) /\ RuntimeInv(r) /\ SignalInv(r) /\ at[r] \in Ats
  BY DEF ExtInv, ExtTypeInv
<1>4. ClientInv(r)'
  BY <1>1, <1>8, <1>10 DEF ClientInv, RuntimeInv, SignalInv, Regular
<1>5. RuntimeInv(r)'
  BY <1>1, <1>8, <1>10 DEF ClientInv, RuntimeInv
<1>6. SignalInv(r)'
  BY <1>1, <1>8, <1>10 DEF ClientInv, RuntimeInv, SignalInv, Ats, Regular
<1>7. TurnInv'
  BY <1>1, RequestsFacts, TwoRequests DEF RunHandler, Free, Goes, TurnInv, ClientInv, SignalInv, Regular, ExtInv, ExtTypeInv
<1> QED
  BY <1>2, <1>3, <1>4, <1>5, <1>6, <1>7, OneRequest

LEMMA EndKeeps ==
    ASSUME ExtInv, NEW r \in Request, End(r)
    PROVE  ExtInv'
<1>1. my' = my /\ Requests' = Requests /\ Regular(my)
  BY MyFacts, SameProgram DEF End, ExtInv, ExtTypeInv
<1>2. ExtTypeInv'
  BY <1>1 DEF End, Answer, Goes, Told, Ats, Regular, ExtInv, ExtTypeInv
<1>3. \A s \in Request \ {r} : Untouched(s)
  BY DEF End, Answer, Goes, Told, Untouched, ExtInv, ExtTypeInv
<1>8. /\ at[r] = "end" /\ at'[r] = IF my.callback = "asio" THEN "ran" ELSE "done"
      /\ op'[r] = "ended"
      /\ report'[r] = IF outcome[r] = "empty" THEN my.empty ELSE outcome[r]
      /\ UNCHANGED <<outcome[r], invoke[r], callbackRefs[r], contextRefs[r], ready[r], posted>>
  BY DEF End, Answer, Goes, Told, ExtInv, ExtTypeInv
<1>10. ClientInv(r) /\ RuntimeInv(r) /\ SignalInv(r) /\ at[r] \in Ats
  BY DEF ExtInv, ExtTypeInv
<1>4. ClientInv(r)'
  BY <1>1, <1>8, <1>10 DEF ClientInv, RuntimeInv, SignalInv, Regular
<1>5. RuntimeInv(r)'
  BY <1>1, <1>8, <1>10 DEF ClientInv, RuntimeInv
<1>6. SignalInv(r)'
  BY <1>1, <1>8, <1>10 DEF ClientInv, RuntimeInv, SignalInv, Ats, Regular
<1>7. TurnInv'
  BY <1>1, RequestsFacts, TwoRequests DEF End, Answer, Goes, Told, TurnInv, ClientInv, SignalInv, Regular, ExtInv, ExtTypeInv
<1> QED
  BY <1>2, <1>3, <1>4, <1>5, <1>6, <1>7, OneRequest

LEMMA RunReturnsKeeps ==
    ASSUME ExtInv, NEW r \in Request, RunReturns(r)
    PROVE  ExtInv'
<1> USE DEF ExtInv, ExtTypeInv
<1>1. my' = my /\ Requests' = Requests /\ Regular(my)
  BY MyFacts, SameProgram DEF RunReturns
<1>0. /\ at[r] = "ran" /\ stopped' = TRUE /\ at' = [at EXCEPT ![r] = "done"]
      /\ UNCHANGED <<program, asserts, op, outcome, invoke, callbackRefs, contextRefs, ready, posted, report>>
  <2>1. ~(at[r] = "run" /\ stopped)
    BY <1>1 DEF TurnInv, SignalInv, Regular
  <2> QED
    BY <2>1 DEF RunReturns, Goes
<1>8. /\ at[r] = "ran" /\ at'[r] = "done"
      /\ UNCHANGED <<op[r], outcome[r], invoke[r], callbackRefs[r], contextRefs[r], ready[r],
                     report[r], posted>>
  BY <1>0
<1>2. ExtTypeInv'
  BY <1>0, <1>1 DEF Ats, Regular
<1>3. \A s \in Request \ {r} : Untouched(s)
  BY <1>0 DEF Untouched
<1>4. ClientInv(r)'
  BY <1>1, <1>8 DEF ClientInv, RuntimeInv, SignalInv
<1>5. RuntimeInv(r)'
  BY <1>0, <1>1 DEF ClientInv, RuntimeInv, Regular
<1>6. SignalInv(r)'
  BY <1>1, <1>8 DEF ClientInv, RuntimeInv, SignalInv, Regular
<1>9. \A s \in Request : at'[s] = IF s = r THEN "done" ELSE at[s]
  BY <1>0
<1>10. my.callback = "asio" /\ (2 \in Requests => my.inTurn) /\ (2 \in Requests <=> my.requests = 2)
  BY <1>0, <1>1, RequestsFacts DEF SignalInv, Regular
<1>11. /\ 2 \notin Requests => at'[2] = "gone"
       /\ \A s \in Request : at'[s] \in {"later", "done", "gone"}
       /\ at'[2] \in {"later", "gone"} \/ at'[1] \in {"done", "gone"}
       /\ at'[1] = "gone" => at'[2] \in {"done", "gone"}
       /\ at'[1] # "later"
  <2>1. CASE r = 1
    BY <1>0, <1>9, <1>10, <2>1, TwoRequests DEF TurnInv
  <2>2. CASE r = 2
    BY <1>0, <1>9, <1>10, <2>2, TwoRequests DEF TurnInv
  <2> QED
    BY <2>1, <2>2, TwoRequests
<1>7. TurnInv'
  BY <1>1, <1>11 DEF TurnInv
<1> QED
  BY <1>2, <1>3, <1>4, <1>5, <1>6, <1>7, OneRequest

LEMMA LeaveKeeps ==
    ASSUME ExtInv, NEW r \in Request, Leave(r)
    PROVE  ExtInv'
<1>1. my' = my /\ Requests' = Requests /\ Regular(my)
  BY MyFacts, SameProgram DEF Leave, ExtInv, ExtTypeInv
<1>2. ExtTypeInv'
  BY <1>1 DEF Leave, Goes, Ats, Regular, ExtInv, ExtTypeInv
<1>3. \A s \in Request \ {r} : Untouched(s)
  BY DEF Leave, Goes, Untouched, ExtInv, ExtTypeInv
<1>8. /\ at[r] = "done" /\ at'[r] = "gone"
      /\ callbackRefs'[r] = callbackRefs[r] \ {"client"}
      /\ contextRefs'[r] = contextRefs[r] \ {"client"}
      /\ UNCHANGED <<op[r], outcome[r], invoke[r], ready[r], report[r], posted>>
  BY DEF Leave, Goes, ExtInv, ExtTypeInv
<1>10. ClientInv(r) /\ RuntimeInv(r) /\ SignalInv(r) /\ at[r] \in Ats
  BY DEF ExtInv, ExtTypeInv
<1>4. ClientInv(r)'
  BY <1>1, <1>8, <1>10 DEF ClientInv, RuntimeInv, SignalInv, Regular
<1>5. RuntimeInv(r)'
  BY <1>1, <1>8, <1>10 DEF ClientInv, RuntimeInv
<1>6. SignalInv(r)'
  BY <1>1, <1>8, <1>10 DEF ClientInv, RuntimeInv, SignalInv, Ats, Regular
<1>7. TurnInv'
  BY <1>1, RequestsFacts, TwoRequests DEF Leave, Goes, TurnInv, ClientInv, SignalInv, Regular, ExtInv, ExtTypeInv
<1> QED
  BY <1>2, <1>3, <1>4, <1>5, <1>6, <1>7, OneRequest
-----------------------------------------------------------------------------
(***************************************************************************)
(* The steps that are not about one request only.                          *)
(***************************************************************************)
LEMMA CreationFailsKeeps ==
    ASSUME ExtInv, CreationFails
    PROVE  ExtInv'
<1> USE DEF ExtInv, ExtTypeInv
<1>1. my' = my /\ Requests' = Requests /\ Regular(my)
  BY MyFacts, SameProgram DEF CreationFails
<1>2. ExtTypeInv'
  BY <1>1 DEF CreationFails, Ats
<1>3. at[1] = "idle" /\ at[2] \in {"later", "gone"}
  BY <1>1, RequestsFacts DEF CreationFails, TurnInv, Regular
<1>4. ASSUME NEW r \in Request
      PROVE  /\ at[r] \in {"idle", "later", "gone"} /\ at'[r] = "gone" /\ report'[r] \in {"exit", "none"}
             /\ r \in Requests => report'[r] = "exit"
             /\ UNCHANGED <<op[r], outcome[r], invoke[r], callbackRefs[r], contextRefs[r], ready[r], posted>>
  BY <1>3, TwoRequests DEF CreationFails
<1>5. ASSUME NEW r \in Request
      PROVE  ClientInv(r)' /\ RuntimeInv(r)' /\ SignalInv(r)'
  <2>1. ClientInv(r)'
    BY <1>1, <1>4 DEF ClientInv
  <2>2. RuntimeInv(r)'
    BY <1>1, <1>4 DEF RuntimeInv
  <2>3. SignalInv(r)'
    BY <1>1, <1>4 DEF ClientInv, RuntimeInv, SignalInv
  <2> QED
    BY <2>1, <2>2, <2>3
<1>6. TurnInv'
  BY <1>1, <1>4, TwoRequests DEF TurnInv
<1> QED
  BY <1>2, <1>5, <1>6

LEMMA RestartKeeps ==
    ASSUME ExtInv, Restart
    PROVE  ExtInv'
<1> USE DEF ExtInv, ExtTypeInv
<1>1. my' = my /\ Requests' = Requests /\ Regular(my)
  BY MyFacts, SameProgram DEF Restart
<1>2. ExtTypeInv'
  BY <1>1 DEF Restart, Goes, Ats
<1>3. 2 \in Request
  BY DEF Request
<1>4. \A s \in Request \ {2} : Untouched(s)
  BY DEF Restart, Goes, Untouched
<1>5. /\ at[2] = "later" /\ at'[2] = "idle"
      /\ UNCHANGED <<op[2], outcome[2], invoke[2], callbackRefs[2], contextRefs[2], ready[2],
                     report[2], posted>>
  BY <1>3 DEF Restart, Goes
<1>6. ClientInv(2)' /\ RuntimeInv(2)' /\ SignalInv(2)'
  BY <1>1, <1>3, <1>5 DEF ClientInv, RuntimeInv, SignalInv
<1>7. TurnInv'
  BY <1>1, TwoRequests, RequestsFacts DEF Restart, Goes, TurnInv, Regular
<1> QED
  BY <1>2, <1>3, <1>4, <1>6, <1>7, OneRequest

LEMMA ExtNextKeeps ==
    ASSUME ExtInv, ExtNext
    PROVE  ExtInv'
<1>1. ASSUME NEW r \in Request, RuntimeStep(r)
      PROVE  ExtInv'
  BY <1>1, CompleteKeeps, InvokeWaitableKeeps, InvokeEventKeeps, NotifyAllKeeps,
     InvokePostsKeeps, RuntimeReleasesKeeps DEF RuntimeStep
<1>2. ASSUME NEW r \in Request, ClientStep(r)
      PROVE  ExtInv'
  BY <1>2, BeginKeeps, BeginFailsKeeps, BeginReturnsKeeps, WaitKeeps, EventSignalledKeeps,
     RunHandlerKeeps, EndKeeps, RunReturnsKeeps, LeaveKeeps DEF ClientStep
<1> QED
  BY <1>1, <1>2, CreationFailsKeeps, RestartKeeps, SpuriousWakeupKeeps DEF ExtNext

LEMMA UnchangedKeeps ==
    ASSUME ExtInv, UNCHANGED extVars
    PROVE  ExtInv'
<1>1. my' = my /\ Requests' = Requests
  BY SameProgram DEF extVars
<1>2. ExtTypeInv' /\ TurnInv'
  BY <1>1 DEF ExtInv, ExtTypeInv, TurnInv, extVars
<1>3. \A s \in Request : Untouched(s)
  BY DEF extVars, Untouched
<1>4. \A s \in Request : ClientInv(s)' /\ RuntimeInv(s)' /\ SignalInv(s)'
  BY <1>3, UntouchedKeeps DEF ExtInv
<1> QED
  BY <1>2, <1>4 DEF ExtInv

\* commit_helper is called by the program of the store.
LEMMA BeginCommitKeeps ==
    ASSUME ExtInv, NEW c \in Request, BeginCommit(c), program = "curd"
    PROVE  ExtInv'
<1> USE DEF ExtInv, ExtTypeInv
<1>1. my' = my /\ Requests' = Requests /\ Regular(my) /\ my.callback = "waitable"
  BY MyFacts, SameProgram DEF BeginCommit
<1>2. ExtTypeInv'
  BY <1>1 DEF BeginCommit, Goes, Ats
<1>3. \A s \in Request \ {c} : Untouched(s)
  BY DEF BeginCommit, Goes, Untouched
<1>4. /\ at[c] = "later" /\ at'[c] = "idle"
      /\ UNCHANGED <<op[c], outcome[c], invoke[c], callbackRefs[c], contextRefs[c], ready[c],
                     report[c], posted>>
  BY DEF BeginCommit, Goes
<1>5. ClientInv(c)' /\ RuntimeInv(c)' /\ SignalInv(c)'
  BY <1>1, <1>4 DEF ClientInv, RuntimeInv, SignalInv
<1>6. TurnInv'
  BY <1>1, TwoRequests DEF BeginCommit, Goes, TurnInv
<1> QED
  BY <1>2, <1>3, <1>5, <1>6, OneRequest

LEMMA StoreCallKeeps ==
    ASSUME ExtInv, StageInv, NEW c \in Request, StoreCall(c)
    PROVE  ExtInv' /\ StageInv'
<1>1. program = "curd"
  BY DEF StageInv, StoreCall, CreateTransaction, ContainsKey, GetHelper, Write, BeginCommit,
         CommitReturns
<1>2. program' = program
  BY DEF StoreCall, CreateTransaction, ContainsKey, GetHelper, Write, BeginCommit,
         CommitReturns, extVars
<1>3. BeginCommit(c) \/ UNCHANGED extVars
  BY DEF StoreCall, CreateTransaction, ContainsKey, GetHelper, Write, CommitReturns
<1> QED
  BY <1>1, <1>2, <1>3, BeginCommitKeeps, UnchangedKeeps DEF StageInv

LEMMA ProgramStays == ExtNext => program' = program
BY DEF ExtNext, CreationFails, Restart, RuntimeStep, Complete, InvokeWaitable, InvokeEvent,
       NotifyAll, InvokePosts, RuntimeReleases, ClientStep, Begin, BeginFails, BeginReturns,
       Wait, EventSignalled, RunHandler, End, RunReturns, Leave, SpuriousWakeup
-----------------------------------------------------------------------------
LEMMA ExtInvIsInductive == ExtInv /\ StageInv /\ [ExamplesNext]_exampleVars => ExtInv' /\ StageInv'
<1> SUFFICES ASSUME ExtInv, StageInv, [ExamplesNext]_exampleVars
             PROVE  ExtInv' /\ StageInv'
  OBVIOUS
<1>1. CASE Committing
  BY <1>1, ExtNextKeeps, ProgramStays DEF Committing, StageInv
<1>2. CASE \E c \in Request : StoreCall(c)
  BY <1>2, StoreCallKeeps
<1>3. CASE UNCHANGED <<extVars, kvStore>>
  BY <1>3, UnchangedKeeps DEF StageInv, kvStore, extVars
<1>4. (HostNext \/ EchoNext \/ ReplicaNext) => UNCHANGED extVars
  BY DEF HostNext, RegisterFactory, Signal, EchoNext, ReplicaNext
<1> QED
  BY <1>1, <1>2, <1>3, <1>4 DEF ExamplesNext, exampleVars, services

LEMMA ExtInvImplies == ExtInv => EndedRight
<1> SUFFICES ASSUME ExtInv, NEW r \in Requests
             PROVE  /\ invoke[r] \in {"in", "notify"} => callbackRefs[r] # {} /\ contextRefs[r] # {}
                    /\ at[r] \in {"check", "waiting", "await"} \/ r \in posted => callbackRefs[r] # {}
                    /\ at[r] = "end" => op[r] = "completed" /\ contextRefs[r] # {} /\ callbackRefs[r] # {}
                    /\ at[r] \in {"done", "gone"} => report[r] # "none"
                    /\ report[r] = "ok" => op[r] = "ended" /\ outcome[r] \in {"ok", "empty"}
  BY DEF EndedRight
<1>1. r \in Request /\ ClientInv(r) /\ RuntimeInv(r) /\ SignalInv(r)
  BY RequestsFacts DEF ExtInv, ExtTypeInv
<1> QED
  BY <1>1 DEF ClientInv, RuntimeInv, SignalInv

(***************************************************************************)
(* In all the programs, with whatever instances and promotions: objects    *)
(* in use by the runtime, by a waiting thread, by a handler in the queue   *)
(* of the executor and by End are alive, End is called for an operation    *)
(* that has completed, nobody leaves without an answer, and a success is   *)
(* told of a success only.                                                 *)
(***************************************************************************)
THEOREM EveryClientEndsRight == ExamplesSpec => []EndedRight
<1>1. ExamplesInit => ExtInv /\ StageInv
  BY ExtInitially DEF ExamplesInit, KvStoreInit, StageInv
<1>2. ExtInv /\ StageInv /\ [ExamplesNext]_exampleVars => (ExtInv /\ StageInv)'
  BY ExtInvIsInductive
<1>3. ExtInv => EndedRight
  BY ExtInvImplies
<1> QED
  BY <1>1, <1>2, <1>3, PTL DEF ExamplesSpec
-----------------------------------------------------------------------------
(***************************************************************************)
(* A request seen as an operation of AsyncPromise: what the programs rely  *)
(* on, and how they use it.  Invoke is the callback, and it has been       *)
(* called once it has signalled.                                           *)
(***************************************************************************)
Over(r) == op[r] \in {"completed", "ended"}
Called(r) == invoke[r] \in {"notify", "out", "over"}

Asked(r) == INSTANCE AsyncPromise WITH
    Answers <- {"ok", "failed", "empty"},
    status <- IF Over(r) THEN "answered" ELSE IF op[r] = "running" THEN "pending" ELSE "idle",
    result <- IF Over(r) THEN outcome[r] ELSE "none",
    calls <- IF Called(r) THEN 1 ELSE 0,
    told <- IF op[r] = "ended" THEN outcome[r] ELSE "none"

\* A step that the promise does not see.
SameRequest(r) ==
    op'[r] = op[r] /\ outcome'[r] = outcome[r] /\ (Called(r)' <=> Called(r))

\* The steps that it sees are Begin, Complete, the three forms of Invoke, and End.
LEMMA BeginAsks ==
    ASSUME ExtInv, NEW r \in Request, NEW s \in Request, Begin(s)
    PROVE  IF s = r THEN Asked(r)!Begin ELSE SameRequest(r)
<1>1. op[s] = "none" /\ op' = [op EXCEPT ![s] = "running"] /\ UNCHANGED <<outcome, invoke>>
  BY DEF Begin, ExtInv, ClientInv
<1>2. op'[s] = "running" /\ (s # r => op'[r] = op[r])
  BY <1>1 DEF ExtInv, ExtTypeInv
<1> QED
  BY <1>1, <1>2 DEF Asked!Begin, SameRequest, Over, Called

LEMMA CompleteAnswers ==
    ASSUME ExtInv, NEW r \in Request, NEW s \in Request, Complete(s)
    PROVE  IF s = r THEN Asked(r)!Answer ELSE SameRequest(r)
<1>1. /\ op[s] = "running" /\ invoke[s] = "no"
      /\ op' = [op EXCEPT ![s] = "completed"] /\ invoke' = [invoke EXCEPT ![s] = "in"]
  BY DEF Complete, ExtInv, RuntimeInv
<1>2. PICK how \in {"ok", "failed", "empty"} : outcome' = [outcome EXCEPT ![s] = how]
  BY DEF Complete
<1>3. /\ op'[s] = "completed" /\ invoke'[s] = "in" /\ outcome'[s] = how
      /\ s # r => op'[r] = op[r] /\ invoke'[r] = invoke[r] /\ outcome'[r] = outcome[r]
  BY <1>1, <1>2 DEF ExtInv, ExtTypeInv
<1> QED
  BY <1>1, <1>3 DEF Asked!Answer, SameRequest, Over, Called

LEMMA InvokeCallsBack ==
    ASSUME ExtInv, NEW r \in Request, NEW s \in Request,
           InvokeWaitable(s) \/ InvokeEvent(s) \/ InvokePosts(s)
    PROVE  IF s = r THEN Asked(r)!CallBack ELSE SameRequest(r)
<1>1. /\ invoke[s] = "in" /\ UNCHANGED <<op, outcome>>
      /\ \E where \in {"notify", "out"} : invoke' = [invoke EXCEPT ![s] = where]
  BY DEF InvokeWaitable, InvokeEvent, InvokePosts
<1>2. op[s] \in {"completed", "ended"}
  BY <1>1 DEF ExtInv, ExtTypeInv, RuntimeInv
<1>3. invoke'[s] \in {"notify", "out"} /\ (s # r => invoke'[r] = invoke[r])
  <2>1. invoke \in [Request -> {"no", "in", "notify", "out", "over"}]
    BY DEF ExtInv, ExtTypeInv
  <2> QED
    BY <1>1, <2>1
<1> QED
  BY <1>1, <1>2, <1>3 DEF Asked!CallBack, SameRequest, Over, Called

LEMMA EndTells ==
    ASSUME ExtInv, NEW r \in Request, NEW s \in Request, End(s)
    PROVE  IF s = r THEN Asked(r)!End ELSE SameRequest(r)
<1>1. op[s] = "completed" /\ op' = [op EXCEPT ![s] = "ended"] /\ UNCHANGED <<outcome, invoke>>
  BY DEF End, ExtInv, ClientInv
<1>2. op'[s] = "ended" /\ (s # r => op'[r] = op[r])
  BY <1>1 DEF ExtInv, ExtTypeInv
<1> QED
  BY <1>1, <1>2 DEF Asked!End, Asked!Tell, SameRequest, Over, Called

LEMMA NotifySame ==
    ASSUME ExtInv, NEW r \in Request, NEW s \in Request, NotifyAll(s) \/ RuntimeReleases(s)
    PROVE  SameRequest(r)
<1>1. /\ invoke[s] \in {"notify", "out"} /\ UNCHANGED <<op, outcome>>
      /\ \E where \in {"out", "over"} : invoke' = [invoke EXCEPT ![s] = where]
  BY DEF NotifyAll, RuntimeReleases
<1>2. invoke'[s] \in {"out", "over"} /\ (s # r => invoke'[r] = invoke[r])
  <2>1. invoke \in [Request -> {"no", "in", "notify", "out", "over"}]
    BY DEF ExtInv, ExtTypeInv
  <2> QED
    BY <1>1, <2>1
<1> QED
  BY <1>1, <1>2 DEF SameRequest, Called

LEMMA WaitingSame ==
    ASSUME NEW r \in Request, NEW s \in Request,
           \/ CreationFails \/ Restart \/ BeginFails(s) \/ BeginReturns(s) \/ Wait(s)
           \/ EventSignalled(s) \/ RunHandler(s) \/ RunReturns(s) \/ Leave(s) \/ SpuriousWakeup(s)
    PROVE  SameRequest(r)
<1>1. op' = op /\ outcome' = outcome /\ invoke' = invoke
  BY DEF CreationFails, Restart, BeginFails, BeginReturns, Wait, EventSignalled, RunHandler,
         RunReturns, Leave, SpuriousWakeup
<1> QED
  BY <1>1 DEF SameRequest, Called

LEMMA RequestStep ==
    ASSUME ExtInv, NEW r \in Request, ExtNext
    PROVE  Asked(r)!Next \/ SameRequest(r)
<1>1. 1 \in Request
  BY TwoRequests
<1>2. ASSUME NEW s \in Request, RuntimeStep(s)
      PROVE  Asked(r)!Next \/ SameRequest(r)
  BY <1>2, CompleteAnswers, InvokeCallsBack, NotifySame DEF RuntimeStep, Asked!Next
<1>3. ASSUME NEW s \in Request, ClientStep(s)
      PROVE  Asked(r)!Next \/ SameRequest(r)
  <2>1. CASE Begin(s)
    BY <2>1, BeginAsks DEF Asked!Next
  <2>2. CASE End(s)
    BY <2>2, EndTells DEF Asked!Next
  <2>3. CASE BeginFails(s) \/ BeginReturns(s) \/ Wait(s) \/ EventSignalled(s)
    BY <2>3, WaitingSame
  <2>4. CASE RunHandler(s) \/ RunReturns(s) \/ Leave(s)
    BY <2>4, WaitingSame
  <2> QED
    BY <1>3, <2>1, <2>2, <2>3, <2>4 DEF ClientStep
<1>4. CreationFails \/ Restart => SameRequest(r)
  BY <1>1, WaitingSame
<1>5. \A s \in Request : SpuriousWakeup(s) => SameRequest(r)
  BY WaitingSame
<1> QED
  BY <1>2, <1>3, <1>4, <1>5 DEF ExtNext

(***************************************************************************)
(* Every request of every program is an operation as AsyncPromise has it:  *)
(* whatever the order of Invoke and the return of Begin, the program calls *)
(* End once, for an answer that is there, and what Invoke signals was      *)
(* answered before it.  It is what ComAsyncOperationContext is proved to   *)
(* promise, so the programs ask no more than that of an operation.         *)
(***************************************************************************)
THEOREM RequestsKeepPromise == ASSUME NEW r \in Request PROVE ExamplesSpec => Asked(r)!Spec
<1>1. ExamplesInit => ExtInv /\ StageInv
  BY ExtInitially DEF ExamplesInit, KvStoreInit, StageInv
<1>2. ExtInv /\ StageInv /\ [ExamplesNext]_exampleVars => (ExtInv /\ StageInv)'
  BY ExtInvIsInductive
<1>3. ExamplesInit => Asked(r)!Init
  BY DEF ExamplesInit, ExtInit, Asked!Init, Over, Called
<1>4. ASSUME ExtInv, [ExamplesNext]_exampleVars
      PROVE  [Asked(r)!Next]_(Asked(r)!vars)
  <2>1. SameRequest(r) => UNCHANGED Asked(r)!vars
    BY DEF SameRequest, Asked!vars, Over
  <2>2. CASE ExtNext
    BY <1>4, <2>1, <2>2, RequestStep
  <2>3. CASE UNCHANGED <<op, outcome, invoke>>
    BY <2>1, <2>3 DEF SameRequest, Called
  <2>4. ASSUME NEW s \in Request, StoreCall(s)
        PROVE  UNCHANGED <<op, outcome, invoke>>
    BY <2>4 DEF StoreCall, CreateTransaction, ContainsKey, GetHelper, Write, BeginCommit,
                CommitReturns, extVars
  <2>5. HostNext \/ EchoNext \/ ReplicaNext \/ UNCHANGED exampleVars => UNCHANGED <<op, outcome, invoke>>
    BY DEF HostNext, RegisterFactory, Signal, EchoNext, ReplicaNext, exampleVars, extVars
  <2> QED
    BY <1>4, <2>2, <2>3, <2>4, <2>5 DEF ExamplesNext, Committing
<1> QED
  BY <1>1, <1>2, <1>3, <1>4, PTL DEF ExamplesSpec, Asked!Spec
-----------------------------------------------------------------------------
(***************************************************************************)
(* The echo service.                                                       *)
(***************************************************************************)
Handling == {"connected", "readable", "written", "failed"}
Runs == {"run"} \cup Handling

EchoTypeInv ==
    /\ life \in [Instance -> {"none", "created", "opening", "open", "closing", "closed", "released"}]
    /\ step \in [Instance -> {"none", "first", "second", "context", "invoked", "returned"}]
    /\ worker \in [Instance -> [Worker -> Runs \cup {"none", "finished", "joined"}]]

\* What each instance has in each phase of its life: its threads run from BeginOpen
\* to BeginClose, which joins one after the other.
InstanceInv(i) ==
    LET first == worker[i]["first"]
        second == worker[i]["second"]
    IN  /\ life[i] \in {"none", "created"} =>
              step[i] = "none" /\ first = "none" /\ second = "none"
        /\ life[i] \in {"none", "created"} => i \notin ioStopped /\ i \notin listening
        /\ life[i] \in {"opening", "open"} => i \notin ioStopped
        /\ life[i] = "opening" /\ step[i] = "none" => ~Serving
        /\ life[i] = "opening" /\ step[i] # "none" => i \in listening
        /\ life[i] = "opening" /\ step[i] = "second" => first \in Runs
        /\ life[i] = "opening" /\ step[i] \in {"context", "invoked", "returned"} =>
              first \in Runs /\ second \in Runs
        /\ life[i] = "open" =>
              /\ step[i] \in {"invoked", "returned"} /\ i \in listening
              /\ first \in Runs /\ second \in Runs
        /\ life[i] = "closing" => step[i] # "none"
        /\ life[i] = "closing" /\ step[i] = "second" => first = "joined"
        /\ life[i] = "closing" /\ step[i] \in {"context", "invoked", "returned"} =>
              first = "joined" /\ second = "joined"
        /\ life[i] \in {"closed", "released"} =>
              /\ step[i] \in {"none", "invoked", "returned"}
              /\ i \in aborted \/ (first = "joined" /\ second = "joined")
        /\ i \in told => life[i] \notin {"none", "created", "opening"}

\* Only the echo service has instances, once it has the answer of get_hostname.
HostInv ==
    /\ \A i \in Instance : life[i] # "none" => program = "echo" /\ host # "starting"
    /\ program = "echo" /\ (host \notin {"starting", "exited"} \/ \E i \in Instance : life[i] # "none") =>
          at[1] = "gone" /\ report[1] = "ok"

EchoInv ==
    /\ EchoTypeInv
    /\ \A i \in Instance : InstanceInv(i)
    /\ told \subseteq Instance
    /\ HostInv
    /\ host = "terminated" => \E i \in aborted : Joinable(i)

LEMMA EchoInitially == ExamplesInit => EchoInv
<1> SUFFICES ASSUME ExamplesInit
             PROVE  EchoInv
  OBVIOUS
<1>1. EchoTypeInv /\ told \subseteq Instance
  BY DEF ExamplesInit, EchoInit, EchoTypeInv, Worker
<1>2. \A i \in Instance : InstanceInv(i)
  BY DEF ExamplesInit, EchoInit, InstanceInv, Worker
<1>3. HostInv /\ host # "terminated"
  BY DEF ExamplesInit, EchoInit, HostInit, HostInv
<1> QED
  BY <1>1, <1>2, <1>3 DEF EchoInv

\* An instance that a step leaves alone.
SameInstance(j) ==
    /\ UNCHANGED <<life[j], step[j], worker[j]>>
    /\ j \in ioStopped' <=> j \in ioStopped
    /\ j \in listening' <=> j \in listening
    /\ j \in told' <=> j \in told
    /\ j \in aborted' <=> j \in aborted

LEMMA SameInstanceKeeps ==
    ASSUME NEW j \in Instance, InstanceInv(j), SameInstance(j), Serving
    PROVE  InstanceInv(j)'
BY DEF SameInstance, InstanceInv, Serving

LEMMA OneInstance ==
    ASSUME EchoInv, NEW i \in Instance, Serving, program = "echo",
           EchoTypeInv', InstanceInv(i)',
           \A j \in Instance \ {i} : SameInstance(j),
           told' \subseteq Instance, host' # "starting",
           UNCHANGED <<program, at, report>>,
           host' = "terminated" => \E j \in aborted' : Joinable(j)'
    PROVE  EchoInv'
<1>1. \A j \in Instance : InstanceInv(j)'
  BY SameInstanceKeeps DEF EchoInv
<1>2. HostInv'
  BY DEF EchoInv, HostInv, Serving
<1> QED
  BY <1>1, <1>2 DEF EchoInv

LEMMA CreateInstanceSafe ==
    ASSUME EchoInv, NEW i \in Instance, CreateInstance(i), UNCHANGED extVars
    PROVE  EchoInv'
<1> USE DEF EchoInv, EchoTypeInv
<1>1. Serving /\ program = "echo"
  BY DEF CreateInstance, InstanceInv, HostInv
<1>2. EchoTypeInv'
  BY DEF CreateInstance, Steps, Lives, Serving, Worker, Runs, Handling
<1>3. InstanceInv(i)'
  BY DEF CreateInstance, Steps, Lives, Serving, InstanceInv, Worker, Runs, Handling
<1>4. \A j \in Instance \ {i} : SameInstance(j)
  BY DEF CreateInstance, Steps, Lives, Serving, SameInstance
<1>5. told' \subseteq Instance /\ host' \notin {"terminated", "starting"}
  BY DEF CreateInstance, Steps, Lives, Serving
<1> QED
  BY <1>1, <1>2, <1>3, <1>4, <1>5, OneInstance DEF extVars

LEMMA BeginOpenSafe ==
    ASSUME EchoInv, NEW i \in Instance, BeginOpen(i), UNCHANGED extVars
    PROVE  EchoInv'
<1> USE DEF EchoInv, EchoTypeInv
<1>1. Serving /\ program = "echo"
  BY DEF BeginOpen, InstanceInv, HostInv
<1>2. EchoTypeInv'
  BY DEF BeginOpen, Steps, Lives, Serving, Worker, Runs, Handling
<1>3. InstanceInv(i)'
  BY DEF BeginOpen, Steps, Lives, Serving, InstanceInv, Worker, Runs, Handling
<1>4. \A j \in Instance \ {i} : SameInstance(j)
  BY DEF BeginOpen, Steps, Lives, Serving, SameInstance
<1>5. told' \subseteq Instance /\ host' \notin {"terminated", "starting"}
  BY DEF BeginOpen, Steps, Lives, Serving
<1> QED
  BY <1>1, <1>2, <1>3, <1>4, <1>5, OneInstance DEF extVars

LEMMA StartThreadSafe ==
    ASSUME EchoInv, NEW i \in Instance, StartThread(i), UNCHANGED extVars
    PROVE  EchoInv'
<1> USE DEF EchoInv, EchoTypeInv
<1>1. Serving /\ program = "echo"
  BY DEF StartThread, InstanceInv, HostInv
<1>2. EchoTypeInv'
  BY DEF StartThread, Steps, Lives, Serving, Worker, Runs, Handling
<1>3. InstanceInv(i)'
  BY DEF StartThread, Steps, Lives, Serving, InstanceInv, Worker, Runs, Handling
<1>4. \A j \in Instance \ {i} : SameInstance(j)
  BY DEF StartThread, Steps, Lives, Serving, SameInstance
<1>5. told' \subseteq Instance /\ host' \notin {"terminated", "starting"}
  BY DEF StartThread, Steps, Lives, Serving
<1> QED
  BY <1>1, <1>2, <1>3, <1>4, <1>5, OneInstance DEF extVars

LEMMA MakeContextSafe ==
    ASSUME EchoInv, NEW i \in Instance, MakeContext(i), UNCHANGED extVars
    PROVE  EchoInv'
<1> USE DEF EchoInv, EchoTypeInv
<1>1. Serving /\ program = "echo"
  BY DEF MakeContext, InstanceInv, HostInv
<1>2. EchoTypeInv'
  BY DEF MakeContext, Steps, Lives, Serving, Worker, Runs, Handling
<1>3. InstanceInv(i)'
  BY DEF MakeContext, Steps, Lives, Serving, InstanceInv, Worker, Runs, Handling
<1>4. \A j \in Instance \ {i} : SameInstance(j)
  BY DEF MakeContext, Steps, Lives, Serving, SameInstance
<1>5. told' \subseteq Instance /\ host' \notin {"terminated", "starting"}
  BY DEF MakeContext, Steps, Lives, Serving
<1> QED
  BY <1>1, <1>2, <1>3, <1>4, <1>5, OneInstance DEF extVars

LEMMA ContextReturnedSafe ==
    ASSUME EchoInv, NEW i \in Instance, ContextReturned(i), UNCHANGED extVars
    PROVE  EchoInv'
<1> USE DEF EchoInv, EchoTypeInv
<1>1. Serving /\ program = "echo"
  BY DEF ContextReturned, InstanceInv, HostInv
<1>2. EchoTypeInv'
  BY DEF ContextReturned, Steps, Lives, Serving, Worker, Runs, Handling
<1>3. InstanceInv(i)'
  BY DEF ContextReturned, Steps, Lives, Serving, InstanceInv, Worker, Runs, Handling
<1>4. \A j \in Instance \ {i} : SameInstance(j)
  BY DEF ContextReturned, Steps, Lives, Serving, SameInstance
<1>5. told' \subseteq Instance /\ host' \notin {"terminated", "starting"}
  BY DEF ContextReturned, Steps, Lives, Serving
<1> QED
  BY <1>1, <1>2, <1>3, <1>4, <1>5, OneInstance DEF extVars

LEMMA EndOpenSafe ==
    ASSUME EchoInv, NEW i \in Instance, EndOpen(i), UNCHANGED extVars
    PROVE  EchoInv'
<1> USE DEF EchoInv, EchoTypeInv
<1>1. Serving /\ program = "echo"
  BY DEF EndOpen, InstanceInv, HostInv
<1>2. EchoTypeInv'
  BY DEF EndOpen, Steps, Lives, Serving, Worker, Runs, Handling
<1>3. InstanceInv(i)'
  BY DEF EndOpen, Steps, Lives, Serving, InstanceInv, Worker, Runs, Handling
<1>4. \A j \in Instance \ {i} : SameInstance(j)
  BY DEF EndOpen, Steps, Lives, Serving, SameInstance
<1>5. told' \subseteq Instance /\ host' \notin {"terminated", "starting"}
  BY DEF EndOpen, Steps, Lives, Serving
<1> QED
  BY <1>1, <1>2, <1>3, <1>4, <1>5, OneInstance DEF extVars

LEMMA PeerActsSafe ==
    ASSUME EchoInv, NEW i \in Instance, PeerActs(i), UNCHANGED extVars
    PROVE  EchoInv'
<1> USE DEF EchoInv, EchoTypeInv
<1>1. Serving /\ program = "echo"
  BY DEF PeerActs, InstanceInv, HostInv
<1>2. EchoTypeInv'
  BY DEF PeerActs, Steps, Lives, Serving, Worker, Runs, Handling
<1>3. InstanceInv(i)'
  BY DEF PeerActs, Steps, Lives, Serving, InstanceInv, Worker, Runs, Handling
<1>4. \A j \in Instance \ {i} : SameInstance(j)
  BY DEF PeerActs, Steps, Lives, Serving, SameInstance
<1>5. told' \subseteq Instance /\ host' \notin {"terminated", "starting"}
  BY DEF PeerActs, Steps, Lives, Serving
<1> QED
  BY <1>1, <1>2, <1>3, <1>4, <1>5, OneInstance DEF extVars

LEMMA HandlerStartsSafe ==
    ASSUME EchoInv, NEW i \in Instance, NEW n \in Worker, HandlerStarts(i, n), UNCHANGED extVars
    PROVE  EchoInv'
<1> USE DEF EchoInv, EchoTypeInv
<1>1. Serving /\ program = "echo"
  BY DEF HandlerStarts, InstanceInv, HostInv, Worker
<1>2. EchoTypeInv'
  BY DEF HandlerStarts, Steps, Lives, Serving, Worker, Runs, Handling
<1>3. InstanceInv(i)'
  BY DEF HandlerStarts, Steps, Lives, Serving, InstanceInv, Worker, Runs, Handling
<1>4. \A j \in Instance \ {i} : SameInstance(j)
  BY DEF HandlerStarts, Steps, Lives, Serving, SameInstance
<1>5. told' \subseteq Instance /\ host' \notin {"terminated", "starting"}
  BY DEF HandlerStarts, Steps, Lives, Serving
<1> QED
  BY <1>1, <1>2, <1>3, <1>4, <1>5, OneInstance DEF extVars

LEMMA HandlerReturnsSafe ==
    ASSUME EchoInv, NEW i \in Instance, NEW n \in Worker, HandlerReturns(i, n), UNCHANGED extVars
    PROVE  EchoInv'
<1> USE DEF EchoInv, EchoTypeInv
<1>1. Serving /\ program = "echo"
  BY DEF HandlerReturns, InstanceInv, HostInv, Worker
<1>2. EchoTypeInv'
  BY DEF HandlerReturns, Steps, Lives, Serving, Worker, Runs, Handling
<1>3. InstanceInv(i)'
  BY DEF HandlerReturns, Steps, Lives, Serving, InstanceInv, Worker, Runs, Handling
<1>4. \A j \in Instance \ {i} : SameInstance(j)
  BY DEF HandlerReturns, Steps, Lives, Serving, SameInstance
<1>5. told' \subseteq Instance /\ host' \notin {"terminated", "starting"}
  BY DEF HandlerReturns, Steps, Lives, Serving
<1> QED
  BY <1>1, <1>2, <1>3, <1>4, <1>5, OneInstance DEF extVars

LEMMA RunEndsSafe ==
    ASSUME EchoInv, NEW i \in Instance, NEW n \in Worker, RunEnds(i, n), UNCHANGED extVars
    PROVE  EchoInv'
<1> USE DEF EchoInv, EchoTypeInv
<1>1. Serving /\ program = "echo"
  BY DEF RunEnds, InstanceInv, HostInv, Worker
<1>2. EchoTypeInv'
  BY DEF RunEnds, Steps, Lives, Serving, Worker, Runs, Handling
<1>3. InstanceInv(i)'
  BY DEF RunEnds, Steps, Lives, Serving, InstanceInv, Worker, Runs, Handling
<1>4. \A j \in Instance \ {i} : SameInstance(j)
  BY DEF RunEnds, Steps, Lives, Serving, SameInstance
<1>5. told' \subseteq Instance /\ host' \notin {"terminated", "starting"}
  BY DEF RunEnds, Steps, Lives, Serving
<1> QED
  BY <1>1, <1>2, <1>3, <1>4, <1>5, OneInstance DEF extVars

LEMMA BeginCloseSafe ==
    ASSUME EchoInv, NEW i \in Instance, BeginClose(i), UNCHANGED extVars
    PROVE  EchoInv'
<1> USE DEF EchoInv, EchoTypeInv
<1>1. Serving /\ program = "echo"
  BY DEF BeginClose, InstanceInv, HostInv
<1>2. EchoTypeInv'
  BY DEF BeginClose, Steps, Lives, Serving, Worker, Runs, Handling
<1>3. InstanceInv(i)'
  BY DEF BeginClose, Steps, Lives, Serving, InstanceInv, Worker, Runs, Handling
<1>4. \A j \in Instance \ {i} : SameInstance(j)
  BY DEF BeginClose, Steps, Lives, Serving, SameInstance
<1>5. told' \subseteq Instance /\ host' \notin {"terminated", "starting"}
  BY DEF BeginClose, Steps, Lives, Serving
<1> QED
  BY <1>1, <1>2, <1>3, <1>4, <1>5, OneInstance DEF extVars

LEMMA JoinSafe ==
    ASSUME EchoInv, NEW i \in Instance, Join(i), UNCHANGED extVars
    PROVE  EchoInv'
<1> USE DEF EchoInv, EchoTypeInv
<1>1. Serving /\ program = "echo"
  BY DEF Join, InstanceInv, HostInv
<1>2. EchoTypeInv'
  BY DEF Join, Steps, Lives, Serving, Worker, Runs, Handling
<1>3. InstanceInv(i)'
  BY DEF Join, Steps, Lives, Serving, InstanceInv, Worker, Runs, Handling
<1>4. \A j \in Instance \ {i} : SameInstance(j)
  BY DEF Join, Steps, Lives, Serving, SameInstance
<1>5. told' \subseteq Instance /\ host' \notin {"terminated", "starting"}
  BY DEF Join, Steps, Lives, Serving
<1> QED
  BY <1>1, <1>2, <1>3, <1>4, <1>5, OneInstance DEF extVars

LEMMA EndCloseSafe ==
    ASSUME EchoInv, NEW i \in Instance, EndClose(i), UNCHANGED extVars
    PROVE  EchoInv'
<1> USE DEF EchoInv, EchoTypeInv
<1>1. Serving /\ program = "echo"
  BY DEF EndClose, InstanceInv, HostInv
<1>2. EchoTypeInv'
  BY DEF EndClose, Steps, Lives, Serving, Worker, Runs, Handling
<1>3. InstanceInv(i)'
  BY DEF EndClose, Steps, Lives, Serving, InstanceInv, Worker, Runs, Handling
<1>4. \A j \in Instance \ {i} : SameInstance(j)
  BY DEF EndClose, Steps, Lives, Serving, SameInstance
<1>5. told' \subseteq Instance /\ host' \notin {"terminated", "starting"}
  BY DEF EndClose, Steps, Lives, Serving
<1> QED
  BY <1>1, <1>2, <1>3, <1>4, <1>5, OneInstance DEF extVars

LEMMA AbortSafe ==
    ASSUME EchoInv, NEW i \in Instance, Abort(i), UNCHANGED extVars
    PROVE  EchoInv'
<1> USE DEF EchoInv, EchoTypeInv
<1>1. Serving /\ program = "echo"
  BY DEF Abort, InstanceInv, HostInv
<1>2. EchoTypeInv'
  BY DEF Abort, Steps, Lives, Serving, Worker, Runs, Handling
<1>3. InstanceInv(i)'
  BY DEF Abort, Steps, Lives, Serving, InstanceInv, Worker, Runs, Handling
<1>4. \A j \in Instance \ {i} : SameInstance(j)
  BY DEF Abort, Steps, Lives, Serving, SameInstance
<1>5. told' \subseteq Instance /\ host' \notin {"terminated", "starting"}
  BY DEF Abort, Steps, Lives, Serving
<1> QED
  BY <1>1, <1>2, <1>3, <1>4, <1>5, OneInstance DEF extVars

LEMMA ReleaseSafe ==
    ASSUME EchoInv, NEW i \in Instance, Release(i), UNCHANGED extVars
    PROVE  EchoInv'
<1> USE DEF EchoInv, EchoTypeInv
<1>1. Serving /\ program = "echo"
  BY DEF Release, InstanceInv, HostInv
<1>2. EchoTypeInv'
  BY DEF Release, Steps, Lives, Serving, Worker, Runs, Handling
<1>3. InstanceInv(i)'
  BY DEF Release, Steps, Lives, Serving, InstanceInv, Worker, Runs, Handling
<1>4. \A j \in Instance \ {i} : SameInstance(j)
  BY DEF Release, Steps, Lives, Serving, SameInstance
<1>5. told' \subseteq Instance /\ host' # "starting"
  BY DEF Release, Serving
<1>6. host' = "terminated" => \E j \in aborted' : Joinable(j)'
  <2> SUFFICES ASSUME host' = "terminated"
               PROVE  i \in aborted' /\ Joinable(i)'
    OBVIOUS
  <2>1. Joinable(i)
    BY <1>1 DEF Release, Serving
  <2>2. i \in aborted
    BY <2>1 DEF Release, InstanceInv, Joinable, Worker
  <2> QED
    BY <2>1, <2>2 DEF Release, Joinable
<1> QED
  BY <1>1, <1>2, <1>3, <1>4, <1>5, <1>6, OneInstance DEF extVars
LEMMA EchoKeeps ==
    ASSUME EchoInv, EchoNext
    PROVE  EchoInv'
<1>1. PICK i \in Instance :
        RuntimeCalls(i) \/ InstanceStep(i) \/ PeerActs(i) \/ \E n \in Worker : WorkerStep(i, n)
  BY DEF EchoNext
<1>2. UNCHANGED extVars
  BY DEF EchoNext
<1>3. CASE RuntimeCalls(i)
  BY <1>2, <1>3, CreateInstanceSafe, BeginOpenSafe, EndOpenSafe, BeginCloseSafe, EndCloseSafe,
     AbortSafe, ReleaseSafe DEF RuntimeCalls
<1>4. CASE InstanceStep(i)
  BY <1>2, <1>4, StartThreadSafe, MakeContextSafe, ContextReturnedSafe, JoinSafe DEF InstanceStep
<1>5. CASE PeerActs(i)
  BY <1>2, <1>5, PeerActsSafe
<1>6. CASE \E n \in Worker : WorkerStep(i, n)
  BY <1>2, <1>6, HandlerStartsSafe, HandlerReturnsSafe, RunEndsSafe DEF WorkerStep
<1> QED
  BY <1>1, <1>3, <1>4, <1>5, <1>6
-----------------------------------------------------------------------------
(***************************************************************************)
(* The steps of others: the main function, and the runtime that answered   *)
(* get_hostname, which does not change its answer.                         *)
(***************************************************************************)

\* A step that leaves the instances alone and may end the service.
LEMMA OthersKeep ==
    ASSUME EchoInv, UNCHANGED echo, program' = program,
           host' = host \/ host' \in {"serving", "exited", "asserted", "undefined"},
           HostInv', Serving' => \A i \in Instance : life[i] = "none" \/ Serving
    PROVE  EchoInv'
<1>1. EchoTypeInv' /\ told' \subseteq Instance
  BY DEF EchoInv, EchoTypeInv, echo
<1>2. \A i \in Instance : InstanceInv(i)'
  <2> SUFFICES ASSUME NEW i \in Instance
               PROVE  InstanceInv(i)'
    OBVIOUS
  <2>1. InstanceInv(i) /\ (Serving' /\ life[i] = "opening" => Serving)
    BY DEF EchoInv
  <2> QED
    BY <2>1 DEF InstanceInv, echo
<1>3. host' = "terminated" => \E i \in aborted' : Joinable(i)'
  BY DEF EchoInv, echo, Joinable
<1> QED
  BY <1>1, <1>2, <1>3 DEF EchoInv

LEMMA GoneStays ==
    ASSUME ExtInv, ExtNext, at[1] = "gone"
    PROVE  at'[1] = "gone" /\ report'[1] = report[1]
<1> USE TwoRequests DEF ExtInv, ExtTypeInv
<1>1. CASE CreationFails \/ Restart
  BY <1>1 DEF CreationFails, Restart, Goes
<1>2. ASSUME NEW r \in Request, RuntimeStep(r)
      PROVE  at'[1] = "gone" /\ report'[1] = report[1]
  <2>1. NotifyAll(r) \/ at' = at
    BY <1>2 DEF RuntimeStep, Complete, InvokeWaitable, InvokeEvent, InvokePosts, RuntimeReleases
  <2>2. at'[1] = at[1]
    BY <2>1 DEF NotifyAll
  <2>3. report' = report
    BY <1>2 DEF RuntimeStep, Complete, InvokeWaitable, InvokeEvent, NotifyAll, InvokePosts,
           RuntimeReleases
  <2> QED
    BY <2>2, <2>3
<1>3. ASSUME NEW r \in Request, ClientStep(r) \/ SpuriousWakeup(r)
      PROVE  at'[1] = "gone" /\ report'[1] = report[1]
  <2>1. r # 1
    BY <1>3 DEF ClientStep, Begin, BeginFails, BeginReturns, Wait, EventSignalled, RunHandler, End,
           RunReturns, Leave, SpuriousWakeup
  <2>4. (\E where : Goes(r, where)) \/ at' = at
    BY <1>3 DEF ClientStep, Begin, BeginFails, BeginReturns, Wait, EventSignalled, RunHandler,
           End, RunReturns, Leave, SpuriousWakeup
  <2>2. at'[1] = at[1]
    BY <2>1, <2>4 DEF Goes
  <2>3. report'[1] = report[1]
    BY <1>3, <2>1 DEF ClientStep, Begin, BeginFails, BeginReturns, Wait, EventSignalled, RunHandler,
           End, RunReturns, Leave, SpuriousWakeup, Told
  <2> QED
    BY <2>2, <2>3
<1> QED
  BY <1>1, <1>2, <1>3 DEF ExtNext

LEMMA EchoInvIsInductive ==
    ASSUME ExtInv, StageInv, EchoInv, [ExamplesNext]_exampleVars
    PROVE  EchoInv'
<1>1. CASE Committing /\ UNCHANGED <<host, echo, kvReplica>>
  <2>1. ExtNext
    BY <1>1 DEF Committing
  <2>2. program' = program /\ (at[1] = "gone" => at'[1] = "gone" /\ report'[1] = report[1])
    BY <2>1, ProgramStays, GoneStays
  <2>3. HostInv'
    BY <1>1, <2>2 DEF EchoInv, HostInv, echo
  <2> QED
    BY <1>1, <2>2, <2>3, OthersKeep DEF Serving
<1>2. ASSUME NEW c \in Request, StoreCall(c), UNCHANGED <<host, echo, kvReplica>>
      PROVE  EchoInv'
  <2>1. program = "curd" /\ program' = program
    BY <1>2 DEF StageInv, StoreCall, CreateTransaction, ContainsKey, GetHelper, Write, BeginCommit,
           CommitReturns, extVars
  <2>2. HostInv'
    BY <1>2, <2>1 DEF EchoInv, HostInv, echo
  <2> QED
    BY <1>2, <2>1, <2>2, OthersKeep DEF Serving
<1>3. CASE HostNext /\ UNCHANGED <<echo, kvReplica, kvStore>>
  <2>1. program' = program /\ UNCHANGED <<at, report>>
    BY <1>3 DEF HostNext, RegisterFactory, Signal, extVars
  <2>2. CASE RegisterFactory
    <3>1. host = "starting" /\ at[1] = "gone" /\ host' \in {"serving", "exited"}
      BY <2>2 DEF RegisterFactory
    <3>2. host' = "serving" /\ program = "echo" => report[1] = "ok"
      BY <2>2 DEF RegisterFactory, GoesOn
    <3>3. HostInv'
      BY <1>3, <2>1, <3>1, <3>2 DEF EchoInv, HostInv, echo
    <3>4. \A i \in Instance : life[i] = "none"
      BY <3>1 DEF EchoInv, HostInv
    <3> QED
      BY <1>3, <2>1, <3>1, <3>3, <3>4, OthersKeep
  <2>3. CASE Signal
    <3>1. HostInv'
      BY <1>3, <2>1, <2>3 DEF EchoInv, HostInv, echo, Signal, Serving
    <3> QED
      BY <1>3, <2>1, <2>3, <3>1, OthersKeep DEF Signal, Serving
  <2> QED
    BY <1>3, <2>2, <2>3 DEF HostNext
<1>4. CASE EchoNext
  BY <1>4, EchoKeeps
<1>5. CASE ReplicaNext /\ UNCHANGED <<echo, kvStore>>
  <2>1. UNCHANGED <<program, at, report>>
    BY <1>5 DEF ReplicaNext, extVars
  <2>2. host' = host \/ (Serving /\ host' \in {"asserted", "undefined"})
    BY <1>5 DEF ReplicaNext, CreateReplica, ReplicaOpen, PutAsserts, BecomePrimary, BecomeSecondary,
           EndChangeRole, ReplicaBeginClose, ReplicaEndClose, CloseOfNull, ReplicaAbort
  <2>3. HostInv'
    BY <1>5, <2>1, <2>2 DEF EchoInv, HostInv, echo, Serving
  <2> QED
    BY <1>5, <2>1, <2>2, <2>3, OthersKeep DEF Serving
<1>6. CASE UNCHANGED exampleVars
  <2>1. UNCHANGED <<program, at, report>> /\ host' = host /\ UNCHANGED echo
    BY <1>6 DEF exampleVars, services, extVars
  <2>2. HostInv'
    BY <2>1 DEF EchoInv, HostInv, echo
  <2> QED
    BY <2>1, <2>2, OthersKeep DEF Serving
<1> QED
  BY <1>1, <1>2, <1>3, <1>4, <1>5, <1>6 DEF ExamplesNext

LEMMA EchoInvImplies ==
    ASSUME ExtInv, EchoInv
    PROVE  EchoServes
<1>1. ASSUME NEW i \in told, life[i] \in {"opening", "open"}
      PROVE  i \in listening /\ \A n \in Worker : worker[i][n] \notin {"none", "finished", "joined"}
  BY <1>1 DEF EchoInv, InstanceInv, Worker, Runs, Handling
<1>2. ASSUME told # {}, Hostname = ""
      PROVE  outcome[1] = "empty"
  <2>1. \E i \in Instance : life[i] # "none"
    BY <1>2 DEF EchoInv, InstanceInv
  <2>2. report[1] = "ok"
    BY <2>1 DEF EchoInv, HostInv
  <2>3. outcome[1] \in {"ok", "empty"}
    BY <2>2, TwoRequests DEF ExtInv, ClientInv
  <2> QED
    BY <1>2, <2>2, <2>3 DEF Hostname
<1> QED
  BY <1>1, <1>2 DEF EchoServes, EchoInv

(***************************************************************************)
(* For any number of instances in a process and of connections one after   *)
(* the other: the address that is told is that of a server with its        *)
(* threads, an instance that was closed takes none of them into its        *)
(* destructor, and the name of the node is missing only if the runtime had *)
(* none.                                                                   *)
(***************************************************************************)
THEOREM EchoInstancesServe == ExamplesSpec => []EchoServes
<1> DEFINE Inv == ExtInv /\ StageInv /\ EchoInv
<1>1. ExamplesInit => Inv
  BY ExtInitially, EchoInitially DEF ExamplesInit, KvStoreInit, StageInv
<1>2. Inv /\ [ExamplesNext]_exampleVars => Inv'
  BY ExtInvIsInductive, EchoInvIsInductive
<1>3. Inv => EchoServes
  BY EchoInvImplies
<1> QED
  BY <1>1, <1>2, <1>3, PTL DEF ExamplesSpec
-----------------------------------------------------------------------------
(***************************************************************************)
(* The replica of the store.                                               *)
(***************************************************************************)
\* kv_server: an open listener is known to listen.  What is lost, and what is known to
\* listen and is not there, was opened by a promotion before the last one.
ReplicaInv ==
    /\ promoted \in Nat /\ lost \in Nat
    /\ listener_ = "open" => is_listening_ = TRUE /\ promoted >= 1
    /\ is_listening_ # FALSE => promoted >= 1
    /\ is_listening_ # FALSE /\ listener_ = "null" => promoted >= 2
    /\ lost > 0 => promoted >= 2
    /\ program = "kvstore" /\ host = "undefined" => promoted >= 2
    /\ phase = "changing" /\ role_ = "primary" => listener_ = "open"
    /\ phase = "closed" => listener_ # "open"
    /\ addressTold

LEMMA BecomePrimaryKeeps ==
    ASSUME ReplicaInv, BecomePrimary, program' = program
    PROVE  ReplicaInv'
<1>1. PICK result \in {"null", "created", "open"} :
        /\ ServerOpen(result)
        /\ IF result = "open"
           THEN role_' = "primary" /\ phase' \in {"changing", "faulted"}
           ELSE UNCHANGED role_ /\ phase' = "faulted"
  BY DEF BecomePrimary
<1>2. promoted' = promoted + 1 /\ addressTold' = addressTold /\ host' # "undefined"
  BY DEF BecomePrimary, Serving
<1>3. /\ promoted' \in Nat /\ lost' \in Nat /\ promoted' >= 1
      /\ lost' > 0 => promoted' >= 2
  BY <1>1, <1>2 DEF ServerOpen, ReplicaInv
<1>4. /\ listener_' = "open" => is_listening_' = TRUE
      /\ is_listening_' # FALSE /\ listener_' = "null" => promoted' >= 2
  <2>1. CASE result = "open"
    BY <1>1, <2>1 DEF ServerOpen
  <2>2. CASE result # "open" /\ is_listening_ = FALSE
    BY <1>1, <2>2 DEF ServerOpen
  <2>3. CASE result # "open" /\ is_listening_ # FALSE
    <3>1. listener_' # "open"
      BY <1>1, <2>3 DEF ServerOpen
    <3>2. promoted >= 1 /\ promoted \in Nat
      BY <2>3 DEF ReplicaInv
    <3>3. promoted' >= 2
      BY <1>2, <3>2
    <3> QED
      BY <3>1, <3>3, Zenon
  <2> QED
    BY <2>1, <2>2, <2>3
<1>5. phase' = "changing" => listener_' = "open"
  BY <1>1 DEF ServerOpen
<1>6. phase' # "closed"
  BY <1>1
<1> QED
  BY <1>2, <1>3, <1>4, <1>5, <1>6 DEF ReplicaInv

LEMMA ReplicaClosingKeeps ==
    ASSUME ReplicaInv, ReplicaEndClose \/ CloseOfNull, program' = program
    PROVE  ReplicaInv'
<1>1. CASE ReplicaEndClose
  BY <1>1 DEF ReplicaInv, ReplicaEndClose, ServerClosed
<1>2. CASE CloseOfNull
  BY <1>2 DEF ReplicaInv, CloseOfNull, kvReplica
<1> QED
  BY <1>1, <1>2

LEMMA ReplicaKeeps ==
    ASSUME ReplicaInv, ReplicaNext
    PROVE  ReplicaInv'
<1>0. program' = program
  BY DEF ReplicaNext, extVars
<1>1. CASE BecomePrimary
  BY <1>0, <1>1, BecomePrimaryKeeps
<1>2. CASE ReplicaEndClose \/ CloseOfNull
  BY <1>0, <1>2, ReplicaClosingKeeps
<1>3. CASE EndChangeRole
  BY <1>0, <1>3 DEF ReplicaInv, EndChangeRole
<1>4. CASE CreateReplica \/ ReplicaOpen \/ PutAsserts \/ BecomeSecondary
  BY <1>0, <1>4 DEF ReplicaInv, CreateReplica, ReplicaOpen, PutAsserts, BecomeSecondary, kvReplica
<1>5. CASE ReplicaBeginClose \/ ReplicaAbort
  BY <1>0, <1>5 DEF ReplicaInv, ReplicaBeginClose, ReplicaAbort
<1> QED
  BY <1>1, <1>2, <1>3, <1>4, <1>5 DEF ReplicaNext

\* The host of the store is touched by its replica and by main only.
LEMMA HostOfOthers ==
    ASSUME ExtInv, StageInv, EchoInv, [ExamplesNext]_exampleVars, ~ReplicaNext
    PROVE  program' = program /\ (program = "kvstore" /\ host' = "undefined" => host = "undefined")
<1>1. CASE Committing /\ UNCHANGED <<host, echo, kvReplica>>
  BY <1>1, ProgramStays DEF Committing
<1>2. ASSUME NEW c \in Request, StoreCall(c), UNCHANGED <<host, echo, kvReplica>>
      PROVE  program' = program /\ host' = host
  BY <1>2 DEF StoreCall, CreateTransaction, ContainsKey, GetHelper, Write, BeginCommit,
         CommitReturns, extVars
<1>3. CASE HostNext
  BY <1>3 DEF HostNext, RegisterFactory, Signal, extVars
<1>4. CASE EchoNext
  <2>1. program' = program
    BY <1>4 DEF EchoNext, extVars
  <2>2. PICK i \in Instance :
          \/ RuntimeCalls(i) \/ InstanceStep(i) \/ PeerActs(i)
          \/ \E n \in Worker : WorkerStep(i, n)
    BY <1>4 DEF EchoNext
  <2>3. host' = host \/ BeginOpen(i) \/ Release(i)
    BY <2>2 DEF RuntimeCalls, CreateInstance, EndOpen, BeginClose, EndClose, Abort, InstanceStep,
           StartThread, MakeContext, ContextReturned, Join, PeerActs, WorkerStep, HandlerStarts,
           HandlerReturns, RunEnds
  <2>4. BeginOpen(i) \/ Release(i) => program = "echo"
    BY DEF BeginOpen, Release, EchoInv, HostInv
  <2> QED
    BY <2>1, <2>3, <2>4
<1>5. CASE UNCHANGED exampleVars
  BY <1>5 DEF exampleVars, services, extVars
<1> QED
  BY <1>1, <1>2, <1>3, <1>4, <1>5 DEF ExamplesNext

(***************************************************************************)
(* For any number of promotions: the address that a primary tells is that  *)
(* of an open listener, a closed replica has closed its listener, and a    *)
(* replica that was made primary once at most loses no listener and does   *)
(* not close one that is not there.                                        *)
(***************************************************************************)
THEOREM ReplicaClosesItsListener == ExamplesSpec => []ListenerClosed
<1> DEFINE Inv == ExtInv /\ StageInv /\ EchoInv /\ ReplicaInv
<1>1. ExamplesInit => Inv
  <2>1. ExamplesInit => host # "undefined"
    BY DEF ExamplesInit, HostInit
  <2>2. ExamplesInit => ReplicaInv
    <3>1. ExamplesInit => promoted \in Nat /\ lost \in Nat /\ ~(lost > 0)
      BY DEF ExamplesInit, ReplicaInit
    <3> QED
      BY <2>1, <3>1, Zenon DEF ExamplesInit, ReplicaInit, ReplicaInv
  <2> QED
    BY <2>2, ExtInitially, EchoInitially DEF ExamplesInit, KvStoreInit, StageInv
<1>2. Inv /\ [ExamplesNext]_exampleVars => Inv'
  <2> SUFFICES ASSUME Inv, [ExamplesNext]_exampleVars
               PROVE  ReplicaInv'
    BY ExtInvIsInductive, EchoInvIsInductive
  <2>1. ReplicaNext \/ UNCHANGED kvReplica
    BY DEF ExamplesNext, exampleVars, services
  <2>2. CASE ~ReplicaNext
    BY <2>1, <2>2, HostOfOthers DEF ReplicaInv, kvReplica
  <2> QED
    BY <2>1, <2>2, ReplicaKeeps
<1>3. Inv => ListenerClosed
  BY DEF ReplicaInv, ListenerClosed
<1> QED
  BY <1>1, <1>2, <1>3, PTL DEF ExamplesSpec
-----------------------------------------------------------------------------
(***************************************************************************)
(* The transactions of the store.                                          *)
(***************************************************************************)
Items == [value : {NoValue, "old", "new"}, number : {0, 1}]

StoreTypeInv ==
    /\ item \in Items
    /\ operation \in [Request -> {"none", "add", "get", "put", "remove"}]
    /\ stage \in [Request -> {"outside", "contains", "read", "write", "commit", "committing", "returned"}]
    /\ tx \in [Request -> {"none", "open", "committed", "ended"}]
    /\ seen \in [Request -> Items]
    /\ written \in [Request -> {NoValue, "new"}]
    /\ answer \in [Request -> {"none", "exit", "ok", "failed"}]

\* Before the request of commit_helper there is no answer of the store.
NotAsked(c) == at[c] = "later" /\ op[c] = "none" /\ outcome[c] = "none"

\* Nothing overwrites or removes the value, so an add that commits is the first one,
\* and what a get has read stays.
CallInv(c) ==
    /\ program = "curd" /\ stage[c] \in {"outside", "contains", "read", "write", "commit"} => NotAsked(c)
    /\ stage[c] = "outside" => tx[c] = "none" /\ operation[c] = "none"
    /\ stage[c] \in {"contains", "read", "write", "commit"} => tx[c] = "open"
    /\ stage[c] # "returned" => answer[c] = "none"
    /\ stage[c] = "read" => operation[c] # "add"
    /\ stage[c] = "write" => operation[c] # "get" /\ (operation[c] # "add" => Present)
    /\ stage[c] \in {"commit", "committing"} =>
          /\ operation[c] \in {"add", "get"}
          /\ operation[c] = "get" => Present /\ seen[c].value = item.value
          /\ operation[c] = "add" => seen[c].value = NoValue /\ seen[c].number = 0 /\ written[c] = "new"
    /\ stage[c] = "committing" /\ outcome[c] = "ok" => tx[c] = "committed"
    /\ tx[c] = "committed" /\ operation[c] = "add" => Present /\ item.number = 1
    /\ answer[c] = "ok" =>
          /\ operation[c] \in {"add", "get"} => tx[c] = "committed"
          /\ operation[c] = "get" => Present /\ seen[c].value = item.value
          /\ operation[c] \in {"put", "remove"} => tx[c] = "ended" /\ Present

OneAdd ==
    \A c, d \in Request :
        /\ operation[c] = "add" /\ tx[c] = "committed"
        /\ operation[d] = "add" /\ tx[d] = "committed"
        => c = d

StoreInv ==
    /\ StoreTypeInv
    /\ item.value = NoValue => item.number = 0
    /\ \A c \in Request : CallInv(c)
    /\ OneAdd
-----------------------------------------------------------------------------
LEMMA StoreInitially == ExamplesInit => StoreInv
<1> SUFFICES ASSUME ExamplesInit
             PROVE  StoreInv
  OBVIOUS
<1>1. item \in Items /\ item.number = 0
  BY DEF ExamplesInit, KvStoreInit, Items
<1>2. StoreTypeInv
  BY <1>1 DEF ExamplesInit, KvStoreInit, StoreTypeInv
<1>3. ASSUME program = "curd", NEW c \in Request
      PROVE  NotAsked(c)
  <2>1. c \in Requests /\ ~my.inTurn
    BY <1>3, MyFacts, RequestsFacts, TwoRequests, ProgramsAssumption DEF ExamplesInit, ExtInit, Regular
  <2> QED
    BY <1>3, <2>1 DEF NotAsked, ExamplesInit, ExtInit
<1>4. \A c \in Request : CallInv(c)
  BY <1>3 DEF ExamplesInit, KvStoreInit, CallInv
<1>5. OneAdd
  BY DEF ExamplesInit, KvStoreInit, OneAdd
<1> QED
  BY <1>1, <1>2, <1>4, <1>5 DEF StoreInv

LEMMA StoreInvImplies == StoreInv => StoreAnswers
<1> SUFFICES ASSUME StoreInv
             PROVE  StoreAnswers
  OBVIOUS
<1> DEFINE Done(which) == { c \in Request : operation[c] = which /\ answer[c] = "ok" }
<1>1. /\ \A c \in Done("add") \cup Done("get") : tx[c] = "committed"
      /\ \A c \in Done("get") : seen[c].value = item.value /\ Present
      /\ \A c \in Done("put") \cup Done("remove") : tx[c] = "ended" /\ Present
  BY DEF StoreInv, CallInv
<1>2. item.number \in {0, 1}
  BY DEF StoreInv, StoreTypeInv, Items
<1>3. Cardinality(Done("add")) <= item.number
  <2>1. CASE Done("add") = {}
    BY <1>2, <2>1, FS_EmptySet
  <2>2. CASE \E c \in Request : c \in Done("add")
    <3>1. PICK c \in Request : c \in Done("add")
      BY <2>2
    <3>2. item.number = 1
      BY <3>1 DEF StoreInv, CallInv
    <3>3. Done("add") = {c}
      BY <1>1, <3>1 DEF StoreInv, OneAdd
    <3>4. Cardinality({c}) = 1
      BY FS_Singleton
    <3> QED
      BY <3>2, <3>3, <3>4
  <2> QED
    BY <2>1, <2>2
<1> QED
  BY <1>1, <1>2, <1>3 DEF StoreAnswers
-----------------------------------------------------------------------------
\* A call that a step leaves alone, with the committed item.
SameCall(d) ==
    /\ UNCHANGED <<program, item, at[d], op[d], outcome[d]>>
    /\ UNCHANGED <<operation[d], stage[d], tx[d], seen[d], written[d], answer[d]>>

LEMMA SameCallKeeps ==
    ASSUME NEW d \in Request, CallInv(d), SameCall(d)
    PROVE  CallInv(d)'
BY DEF SameCall, CallInv, NotAsked, Present

LEMMA OneCall ==
    ASSUME StoreInv, NEW c \in Request, StoreTypeInv', CallInv(c)', item' = item,
           \A d \in Request \ {c} : SameCall(d),
           operation'[c] = "add" /\ tx'[c] = "committed" => operation[c] = "add" /\ tx[c] = "committed"
    PROVE  StoreInv'
<1>1. \A d \in Request : CallInv(d)'
  BY SameCallKeeps DEF StoreInv
<1>2. \A d \in Request : operation'[d] = "add" /\ tx'[d] = "committed" =>
          operation[d] = "add" /\ tx[d] = "committed"
  BY DEF SameCall
<1>3. OneAdd'
  BY <1>2 DEF StoreInv, OneAdd
<1> QED
  BY <1>1, <1>3 DEF StoreInv

LEMMA CreateTransactionSafe ==
    ASSUME ExtInv, StageInv, StoreInv, NEW c \in Request, CreateTransaction(c)
    PROVE  StoreInv'
<1> USE DEF StoreInv, StoreTypeInv
<1>1. program = "curd"
  BY DEF StageInv, CreateTransaction
<1>2. StoreTypeInv'
  <2>1. operation' \in [Request -> {"none", "add", "get", "put", "remove"}]
    BY DEF CreateTransaction
  <2>2. stage' \in [Request -> {"outside", "contains", "read", "write", "commit", "committing", "returned"}]
    BY DEF CreateTransaction, To, Return
  <2>3. tx' \in [Request -> {"none", "open", "committed", "ended"}]
    BY DEF CreateTransaction, To, Return
  <2>4. answer' \in [Request -> {"none", "exit", "ok", "failed"}]
    BY DEF CreateTransaction, To, Return
  <2>5. seen' \in [Request -> Items] /\ written' \in [Request -> {NoValue, "new"}] /\ item' \in Items
    BY DEF CreateTransaction
  <2> QED
    BY <2>1, <2>2, <2>3, <2>4, <2>5
<1>3. \A d \in Request \ {c} : SameCall(d)
  BY DEF CreateTransaction, To, Return, Goes, SameCall, extVars
<1>4. CallInv(c)'
  BY NoValueAssumption DEF CreateTransaction, To, Return, Goes, StoreAccepts, CallInv, NotAsked, Present, extVars, Items
<1>5. item' = item /\ (operation'[c] = "add" /\ tx'[c] = "committed" => operation[c] = "add" /\ tx[c] = "committed")
  BY DEF CreateTransaction, To, Return, CallInv
<1> QED
  BY <1>2, <1>3, <1>4, <1>5, OneCall

LEMMA ContainsKeySafe ==
    ASSUME ExtInv, StageInv, StoreInv, NEW c \in Request, ContainsKey(c)
    PROVE  StoreInv'
<1> USE DEF StoreInv, StoreTypeInv
<1>1. program = "curd"
  BY DEF StageInv, ContainsKey
<1>2. StoreTypeInv'
  <2>1. operation' \in [Request -> {"none", "add", "get", "put", "remove"}]
    BY DEF ContainsKey
  <2>2. stage' \in [Request -> {"outside", "contains", "read", "write", "commit", "committing", "returned"}]
    BY DEF ContainsKey, To, Return
  <2>3. tx' \in [Request -> {"none", "open", "committed", "ended"}]
    BY DEF ContainsKey, To, Return
  <2>4. answer' \in [Request -> {"none", "exit", "ok", "failed"}]
    BY DEF ContainsKey, To, Return
  <2>5. seen' \in [Request -> Items] /\ written' \in [Request -> {NoValue, "new"}] /\ item' \in Items
    BY DEF ContainsKey
  <2> QED
    BY <2>1, <2>2, <2>3, <2>4, <2>5
<1>3. \A d \in Request \ {c} : SameCall(d)
  BY DEF ContainsKey, To, Return, Goes, SameCall, extVars
<1>4. CallInv(c)'
  BY NoValueAssumption DEF ContainsKey, To, Return, Goes, StoreAccepts, CallInv, NotAsked, Present, extVars, Items
<1>5. item' = item /\ (operation'[c] = "add" /\ tx'[c] = "committed" => operation[c] = "add" /\ tx[c] = "committed")
  BY DEF ContainsKey, To, Return, CallInv
<1> QED
  BY <1>2, <1>3, <1>4, <1>5, OneCall

LEMMA GetHelperSafe ==
    ASSUME ExtInv, StageInv, StoreInv, NEW c \in Request, GetHelper(c)
    PROVE  StoreInv'
<1> USE DEF StoreInv, StoreTypeInv
<1>1. program = "curd"
  BY DEF StageInv, GetHelper
<1>2. StoreTypeInv'
  <2>1. operation' \in [Request -> {"none", "add", "get", "put", "remove"}]
    BY DEF GetHelper
  <2>2. stage' \in [Request -> {"outside", "contains", "read", "write", "commit", "committing", "returned"}]
    BY DEF GetHelper, To, Return
  <2>3. tx' \in [Request -> {"none", "open", "committed", "ended"}]
    BY DEF GetHelper, To, Return
  <2>4. answer' \in [Request -> {"none", "exit", "ok", "failed"}]
    BY DEF GetHelper, To, Return
  <2>5. seen' \in [Request -> Items] /\ written' \in [Request -> {NoValue, "new"}] /\ item' \in Items
    BY DEF GetHelper
  <2> QED
    BY <2>1, <2>2, <2>3, <2>4, <2>5
<1>3. \A d \in Request \ {c} : SameCall(d)
  BY DEF GetHelper, To, Return, Goes, SameCall, extVars
<1>4. CallInv(c)'
  BY NoValueAssumption DEF GetHelper, To, Return, Goes, StoreAccepts, CallInv, NotAsked, Present, extVars, Items
<1>5. item' = item /\ (operation'[c] = "add" /\ tx'[c] = "committed" => operation[c] = "add" /\ tx[c] = "committed")
  BY DEF GetHelper, To, Return, CallInv
<1> QED
  BY <1>2, <1>3, <1>4, <1>5, OneCall

LEMMA WriteSafe ==
    ASSUME ExtInv, StageInv, StoreInv, NEW c \in Request, Write(c)
    PROVE  StoreInv'
<1> USE DEF StoreInv, StoreTypeInv
<1>1. program = "curd"
  BY DEF StageInv, Write
<1>2. StoreTypeInv'
  <2>1. operation' \in [Request -> {"none", "add", "get", "put", "remove"}]
    BY DEF Write
  <2>2. stage' \in [Request -> {"outside", "contains", "read", "write", "commit", "committing", "returned"}]
    BY DEF Write, To, Return
  <2>3. tx' \in [Request -> {"none", "open", "committed", "ended"}]
    BY DEF Write, To, Return
  <2>4. answer' \in [Request -> {"none", "exit", "ok", "failed"}]
    BY DEF Write, To, Return
  <2>5. seen' \in [Request -> Items] /\ written' \in [Request -> {NoValue, "new"}] /\ item' \in Items
    BY DEF Write
  <2> QED
    BY <2>1, <2>2, <2>3, <2>4, <2>5
<1>3. \A d \in Request \ {c} : SameCall(d)
  BY DEF Write, To, Return, Goes, SameCall, extVars
<1>4. CallInv(c)'
  BY NoValueAssumption DEF Write, To, Return, Goes, StoreAccepts, CallInv, NotAsked, Present, extVars, Items
<1>5. item' = item /\ (operation'[c] = "add" /\ tx'[c] = "committed" => operation[c] = "add" /\ tx[c] = "committed")
  BY DEF Write, To, Return, CallInv
<1> QED
  BY <1>2, <1>3, <1>4, <1>5, OneCall

LEMMA BeginCommitSafe ==
    ASSUME ExtInv, StageInv, StoreInv, NEW c \in Request, BeginCommit(c)
    PROVE  StoreInv'
<1> USE DEF StoreInv, StoreTypeInv
<1>1. program = "curd"
  BY DEF StageInv, BeginCommit
<1>2. StoreTypeInv'
  BY DEF BeginCommit, To, Return, Items
<1>3. \A d \in Request \ {c} : SameCall(d)
  BY DEF BeginCommit, To, Return, Goes, SameCall, extVars
<1>6. /\ stage[c] = "commit" /\ stage'[c] = "committing"
      /\ UNCHANGED <<item, op[c], outcome[c], operation[c], tx[c], seen[c], written[c], answer[c]>>
  BY DEF BeginCommit, To
<1>7. outcome[c] = "none"
  BY <1>1, <1>6 DEF CallInv, NotAsked
<1>4. CallInv(c)'
  BY <1>6, <1>7 DEF CallInv, Present
<1>5. item' = item /\ (operation'[c] = "add" /\ tx'[c] = "committed" => operation[c] = "add" /\ tx[c] = "committed")
  BY DEF BeginCommit, To, Return, CallInv
<1> QED
  BY <1>2, <1>3, <1>4, <1>5, OneCall

LEMMA CommitReturnsSafe ==
    ASSUME ExtInv, StageInv, StoreInv, NEW c \in Request, CommitReturns(c)
    PROVE  StoreInv'
<1> USE DEF StoreInv, StoreTypeInv
<1>1. program = "curd"
  BY DEF StageInv, CommitReturns
<1>2. StoreTypeInv'
  <2>1. operation' \in [Request -> {"none", "add", "get", "put", "remove"}]
    BY DEF CommitReturns
  <2>2. stage' \in [Request -> {"outside", "contains", "read", "write", "commit", "committing", "returned"}]
    BY DEF CommitReturns, To, Return
  <2>3. tx' \in [Request -> {"none", "open", "committed", "ended"}]
    BY DEF CommitReturns, To, Return
  <2>4. answer' \in [Request -> {"none", "exit", "ok", "failed"}]
    BY DEF CommitReturns, To, Return, ExtInv, ExtTypeInv
  <2>5. seen' \in [Request -> Items] /\ written' \in [Request -> {NoValue, "new"}] /\ item' \in Items
    BY DEF CommitReturns
  <2> QED
    BY <2>1, <2>2, <2>3, <2>4, <2>5
<1>3. \A d \in Request \ {c} : SameCall(d)
  BY DEF CommitReturns, To, Return, Goes, SameCall, extVars
<1>6. report[c] = "ok" => outcome[c] = "ok"
  BY <1>1, MyFacts DEF ExtInv, ExtTypeInv, ClientInv, RuntimeInv
<1>7. /\ stage[c] = "committing" /\ stage'[c] = "returned" /\ answer'[c] = report[c]
      /\ tx'[c] = IF tx[c] = "open" THEN "ended" ELSE tx[c]
      /\ UNCHANGED <<operation[c], seen[c], item>>
  BY DEF CommitReturns, Return
<1>8. operation[c] \in {"add", "get"} /\ (outcome[c] = "ok" => tx[c] = "committed")
  BY <1>7 DEF CallInv
<1>4. CallInv(c)'
  BY <1>6, <1>7, <1>8 DEF CallInv, Present
<1>5. item' = item /\ (operation'[c] = "add" /\ tx'[c] = "committed" => operation[c] = "add" /\ tx[c] = "committed")
  BY DEF CommitReturns, To, Return, CallInv
<1> QED
  BY <1>2, <1>3, <1>4, <1>5, OneCall
LEMMA StoreCallSafe ==
    ASSUME ExtInv, StageInv, StoreInv, NEW c \in Request, StoreCall(c)
    PROVE  StoreInv'
BY CreateTransactionSafe, ContainsKeySafe, GetHelperSafe, WriteSafe, BeginCommitSafe,
   CommitReturnsSafe DEF StoreCall
-----------------------------------------------------------------------------
(***************************************************************************)
(* The requests of commit_helper.                                          *)
(***************************************************************************)
Completes(c) == op[c] = "running" /\ op'[c] = "completed"

LEMMA CompletionIsComplete ==
    ASSUME ExtInv, ExtNext
    PROVE  \/ \E r \in Request : Complete(r)
           \/ outcome' = outcome /\ \A c \in Request : ~Completes(c)
<1> USE DEF ExtInv, ExtTypeInv, Completes
<1>1. CASE CreationFails \/ Restart
  BY <1>1 DEF CreationFails, Restart
<1>2. ASSUME NEW r \in Request, RuntimeStep(r), ~Complete(r)
      PROVE  outcome' = outcome /\ op' = op
  BY <1>2 DEF RuntimeStep, InvokeWaitable, InvokeEvent, NotifyAll, InvokePosts, RuntimeReleases
<1>3. ASSUME NEW r \in Request, ClientStep(r) \/ SpuriousWakeup(r)
      PROVE  outcome' = outcome /\ \A c \in Request : ~Completes(c)
  <2>1. outcome' = outcome
    BY <1>3 DEF ClientStep, Begin, BeginFails, BeginReturns, Wait, EventSignalled, RunHandler, End,
           RunReturns, Leave, SpuriousWakeup
  <2>2. op' = op \/ op' = [op EXCEPT ![r] = "running"] \/ op' = [op EXCEPT ![r] = "ended"]
    BY <1>3 DEF ClientStep, Begin, BeginFails, BeginReturns, Wait, EventSignalled, RunHandler, End,
           RunReturns, Leave, SpuriousWakeup
  <2> QED
    BY <2>1, <2>2
<1> QED
  BY <1>1, <1>2, <1>3 DEF ExtNext

LEMMA OneCompletes ==
    ASSUME ExtInv, ExtNext, NEW c \in Request, Completes(c)
    PROVE  /\ \A d \in Request \ {c} : ~Completes(d) /\ outcome'[d] = outcome[d]
           /\ (CHOOSE r \in Request : op[r] = "running" /\ op'[r] = "completed") = c
<1>1. PICK r \in Request : Complete(r)
  BY CompletionIsComplete
<1>2. r = c /\ \A d \in Request \ {c} : ~Completes(d) /\ outcome'[d] = outcome[d]
  BY <1>1 DEF Complete, Completes, ExtInv, ExtTypeInv
<1> QED
  BY <1>2 DEF Completes

\* Only BeginCommit makes the request of a transaction.
LEMMA NotAskedStays ==
    ASSUME ExtInv, ExtNext, program = "curd", NEW c \in Request, NotAsked(c)
    PROVE  NotAsked(c)'
<1> USE DEF ExtInv, ExtTypeInv, NotAsked
<1>1. my = CommitHelper /\ my.inTurn = FALSE /\ my.creates = FALSE
  BY MyFacts
<1>2. ~CreationFails /\ ~Restart
  BY <1>1 DEF CreationFails, Restart
<1>3. ASSUME NEW r \in Request, RuntimeStep(r)
      PROVE  NotAsked(c)'
  <2>1. at'[c] = at[c]
    BY <1>3 DEF RuntimeStep, Complete, InvokeWaitable, InvokeEvent, NotifyAll, InvokePosts,
           RuntimeReleases
  <2>2. op'[c] = op[c] /\ outcome'[c] = outcome[c]
    BY <1>3 DEF RuntimeStep, Complete, InvokeWaitable, InvokeEvent, NotifyAll, InvokePosts,
           RuntimeReleases
  <2> QED
    BY <2>1, <2>2
<1>4. ASSUME NEW r \in Request, ClientStep(r) \/ SpuriousWakeup(r)
      PROVE  NotAsked(c)'
  <2>1. r # c
    BY <1>1, <1>4 DEF ClientStep, Begin, BeginFails, BeginReturns, Wait, EventSignalled, RunHandler,
           End, RunReturns, Leave, SpuriousWakeup
  <2>2. at'[c] = at[c]
    BY <1>4, <2>1 DEF ClientStep, Begin, BeginFails, BeginReturns, Wait, EventSignalled, RunHandler,
           End, RunReturns, Leave, SpuriousWakeup, Goes
  <2>3. op'[c] = op[c] /\ outcome'[c] = outcome[c]
    BY <1>4, <2>1 DEF ClientStep, Begin, BeginFails, BeginReturns, Wait, EventSignalled, RunHandler,
           End, RunReturns, Leave, SpuriousWakeup
  <2> QED
    BY <2>2, <2>3
<1> QED
  BY <1>2, <1>3, <1>4 DEF ExtNext

\* A request that completes with a success has committed its transaction.
LEMMA CommitCompletes ==
    ASSUME ExtInv, StageInv, StoreInv, Committing,
           NEW c \in Request, Completes(c), stage[c] = "committing"
    PROVE  StoreInv'
<1> USE DEF StoreInv, StoreTypeInv
<1>1. ExtNext /\ program = "curd" /\ program' = program
  BY ProgramStays DEF Committing, StageInv
<1>2. /\ \/ /\ operation[c] = "get" \/ item = seen[c]
            /\ tx' = [tx EXCEPT ![c] = "committed"]
            /\ item' = IF operation[c] = "get" THEN item
                       ELSE [value |-> written[c], number |-> item.number + 1]
         \/ outcome'[c] = "failed" /\ UNCHANGED <<tx, item>>
      /\ UNCHANGED <<operation, stage, seen, written, answer>>
  BY <1>1, OneCompletes DEF Committing, Completes
<1>3. \A d \in Request \ {c} : outcome'[d] = outcome[d] /\ tx'[d] = tx[d]
  BY <1>1, <1>2, OneCompletes
<1>4. \A d \in Request : NotAsked(d) => NotAsked(d)'
  BY <1>1, NotAskedStays
<1>5. CASE UNCHANGED <<tx, item>> /\ outcome'[c] = "failed"
  <2>1. StoreTypeInv'
    BY <1>2, <1>5
  <2>2. \A d \in Request : CallInv(d)'
    BY <1>1, <1>2, <1>3, <1>4, <1>5 DEF CallInv, Present
  <2> QED
    BY <1>2, <1>5, <2>1, <2>2 DEF OneAdd
<1>6. CASE operation[c] = "get" /\ tx' = [tx EXCEPT ![c] = "committed"] /\ item' = item
  <2>1. StoreTypeInv'
    BY <1>2, <1>6
  <2>2. \A d \in Request \ {c} : CallInv(d)'
    BY <1>1, <1>2, <1>3, <1>4, <1>6 DEF CallInv, Present
  <2>3. CallInv(c)'
    BY <1>1, <1>2, <1>6 DEF CallInv, Present
  <2>4. OneAdd'
    BY <1>2, <1>6 DEF OneAdd
  <2> QED
    BY <1>6, <2>1, <2>2, <2>3, <2>4
<1>7. CASE operation[c] # "get" /\ item = seen[c] /\ tx' = [tx EXCEPT ![c] = "committed"]
           /\ item' = [value |-> written[c], number |-> item.number + 1]
  <2>1. operation[c] = "add" /\ ~Present /\ item.number = 0 /\ item' = [value |-> "new", number |-> 1]
    BY <1>7 DEF CallInv, Present
  <2>2. StoreTypeInv'
    BY <1>2, <1>7, <2>1 DEF Items
  <2>3. Present' /\ item'.number = 1 /\ item'.value # NoValue
    BY <2>1, NoValueAssumption DEF Present
  <2>4. \A d \in Request \ {c} : CallInv(d)'
    BY <1>1, <1>2, <1>3, <1>4, <2>1, <2>3 DEF CallInv
  <2>5. CallInv(c)'
    BY <1>1, <1>2, <1>7, <2>1, <2>3 DEF CallInv
  <2>6. OneAdd'
    BY <1>2, <1>3, <2>1 DEF OneAdd, CallInv
  <2> QED
    BY <2>2, <2>3, <2>4, <2>5, <2>6
<1> QED
  BY <1>2, <1>5, <1>6, <1>7

LEMMA CommittingSafe ==
    ASSUME ExtInv, StageInv, StoreInv, Committing
    PROVE  StoreInv'
<1> USE DEF StoreInv, StoreTypeInv
<1>1. CASE \E c \in Request : Completes(c) /\ stage[c] = "committing"
  BY <1>1, CommitCompletes
<1>2. CASE ~\E c \in Request : Completes(c) /\ stage[c] = "committing"
  <2>1. UNCHANGED <<tx, item, operation, stage, seen, written, answer>>
    BY <1>2 DEF Committing, Completes
  <2>2. ExtNext /\ program' = program
    BY ProgramStays DEF Committing
  <2>3. \A d \in Request : program = "curd" /\ NotAsked(d) => NotAsked(d)'
    BY <2>2, NotAskedStays
  <2>4. ASSUME NEW d \in Request, stage[d] = "committing"
        PROVE  outcome'[d] = outcome[d]
    <3>1. CASE outcome' = outcome
      BY <3>1
    <3>2. CASE \E r \in Request : Complete(r)
      <4>1. PICK r \in Request : Complete(r)
        BY <3>2
      <4>2. Completes(r)
        BY <4>1 DEF Complete, Completes, ExtInv, ExtTypeInv
      <4>3. d # r
        BY <1>2, <2>4, <4>2
      <4> QED
        BY <2>2, <4>2, <4>3, OneCompletes
    <3> QED
      BY <2>2, <3>1, <3>2, CompletionIsComplete
  <2>5. \A d \in Request : CallInv(d)'
    BY <2>1, <2>2, <2>3, <2>4 DEF CallInv, Present
  <2> QED
    BY <2>1, <2>5 DEF OneAdd
<1> QED
  BY <1>1, <1>2

LEMMA StoreInvIsInductive ==
    ASSUME ExtInv, StageInv, StoreInv, [ExamplesNext]_exampleVars
    PROVE  StoreInv'
<1>1. CASE UNCHANGED <<extVars, kvStore>>
  <2>1. StoreTypeInv' /\ OneAdd' /\ item' = item
    BY <1>1 DEF StoreInv, StoreTypeInv, OneAdd, kvStore
  <2>2. \A d \in Request : SameCall(d)
    BY <1>1 DEF SameCall, kvStore, extVars
  <2> QED
    BY <2>1, <2>2, SameCallKeeps DEF StoreInv
<1>2. (HostNext \/ EchoNext \/ ReplicaNext) => UNCHANGED extVars
  BY DEF HostNext, RegisterFactory, Signal, EchoNext, ReplicaNext
<1> QED
  BY <1>1, <1>2, CommittingSafe, StoreCallSafe DEF ExamplesNext, exampleVars, services

(***************************************************************************)
(* Whatever the store answers, and whatever b of contains_key is: an add   *)
(* that answers S_OK has been committed and is the only one, a get has     *)
(* read a committed value, and a put or remove that answers S_OK has been  *)
(* thrown away.                                                            *)
(***************************************************************************)
THEOREM StoreAnswersRight == ExamplesSpec => []StoreAnswers
<1> DEFINE Inv == ExtInv /\ StageInv /\ StoreInv
<1>1. ExamplesInit => Inv
  BY ExtInitially, StoreInitially DEF ExamplesInit, KvStoreInit, StageInv
<1>2. Inv /\ [ExamplesNext]_exampleVars => Inv'
  BY ExtInvIsInductive, StoreInvIsInductive
<1>3. Inv => StoreAnswers
  BY StoreInvImplies
<1> QED
  BY <1>1, <1>2, <1>3, PTL DEF ExamplesSpec
=============================================================================
