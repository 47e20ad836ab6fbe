# A TLA+ model of service-fabric-cpp

This directory holds TLA+ modules for the Service Fabric C++ libraries and the
example services in `src/`, TLC configurations that check them on small instances,
and proofs that TLAPS checks for every value of the constants.

    tlc -workers 2 -config AsyncOperationState.cfg MCAsyncOperationState.tla
    tlapm AsyncOperationStateProofs.tla

`PROJECT.json` lists the runs, the source lines each definition stands for, the
hazards of the code, the theorems, and what the model found.

## The system

| component | state | operations | talks to |
|---|---|---|---|
| `AsyncOperationState` (fabric_common) | one atomic word: a lifecycle bit, *observed before complete*, *cancel requested* | `TransitionStarted`, `TryTransitionCompleting`, `TransitionCompleted`, `TransitionEnded`, `ObserveState`, `TryMarkCancelRequested`, all by a compare-exchange loop | a member of the next two |
| `AsyncOperation` (fabric_common) | the word, the error, the list of children and its lock | `Start`, `TryComplete`/`FinishComplete`, `Cancel`, `End`, `AttachChild`, `DetachChild`, `Cleanup` | its parent and children; user code in `OnStart`, `OnCancel` and the callback |
| `ComAsyncOperationContext` (fabric_common) | the word, the result, the callback, a weak reference to its proxy | `Start`, `Cancel`, `TryComplete`, `End`, `Cleanup` | a COM client; an `AsyncOperationRoot` with the operation inside |
| `ComProxyAsyncOperation` (fabric_common) | an `AsyncOperation` with a reference to a COM operation, and its lock | `OnStart`, `Invoke` of its callback, `FinishComAsyncOperation`, `OnCancel`, `Cleanup` | a COM operation it begins, cancels and ends |
| `ComUnknownBase`, `ComPointer` (fabric_common) | the reference count and `isShared_` | `BaseAddRef`, `BaseRelease` (with an unlocked branch), `BaseTryAddRef`, copy, move | everything COM |
| `ComponentRoot` (fabric_common) | a table of tracked references | `CreateComponentRoot`, release, printing | rooted objects |
| `ErrorCode` (fabric_common) | value, message, two flags of a check that nobody overwrites an unread error | constructors from enumerators, HRESULTs, Win32 and NTSTATUS codes; copy, move, assign, `Overwrite`, `Reset`, `FirstError`; `ToHResult`, `ToNTStatus` | everything |
| `ComUtility` (fabric_common) | three static pointers into ole32.dll | `Initialize` (lookup), `CheckMTA`, `OnPublicApiReturn`, `ClearErrorInfo` | every function of the public API |
| `sf::AsyncOperation` (fabric_ext2) | a state, one child, the parent, the error, one lock | `Start`, `Complete`, `Cancel`, `End`, `AttachChild`, `DetachFromParent` | its parent and child |
| fabric_ext | callbacks one can wait on, contexts complete from the start, awaitable clients | `Invoke`, `Wait`, `compose_op`, `async_operation`, `get_hostname` | the runtime, asio |
| fabric_error | generated tables | `get_fabric_error_str` | |
| fabric_internal_ext | nothing to speak of | handlers that do nothing | the transport of the runtime |
| echoapp (example) | an instance: server, two threads, their `io_context` | open, close, abort, sessions | the runtime, a TCP peer |
| kvstore (example) | a replica, its transport server and listener; class `curd` | open, change of role, close, abort; transactions | the runtime, the transactional store |
| fabricclient, kvclient (examples) | a request in flight | main | the runtime |

What is hard in this code is that anybody may complete, cancel or poll an
operation at any time, from any thread and from inside its callbacks:

- *Two parties, one End.* The code that began an operation and its callback both
  ask `CompletedSynchronously`, at different times; exactly one of them must call
  `End`. The answer is made of two bits of a word that a loop of
  compare-exchanges writes.
- *Cancel against attach.* `Cancel` works on a copy of the list of children while
  other threads add to it and remove from it.
- *Cancel against complete.* Both go for `TryStartComplete`. Cancel of a child
  completes it, which runs its callback, which completes the parent that is in the
  middle of its own Cancel.
- *Layers.* A native operation waits for a COM operation that waits for a native
  operation. Results go up through callbacks, cancellations go down through
  references that are set and reset while this happens.
- *The count without interlock.* `BaseRelease` decrements the count by a plain
  write when the object was never shared. `BaseTryAddRef` reads it after it may
  have reached zero.
- *A weaker second design.* `sf::AsyncOperation` calls into its children with its
  lock held, and children write the `child_` of their parent without it.

- *Who keeps the objects alive.* The runtime calls `Invoke` on its own thread, before
  or after `Begin` has returned, and releases what it has; the callbacks of fabric_ext
  keep plain pointers in handlers that run later.
- *A host that may stop calling.* The runtime opens, promotes, closes or aborts
  services in its own order, and each of its calls may fail.
- *Lookups without a lock.* Every thread looks for the same functions of ole32.dll on
  its first call.

Nothing in these libraries is persisted and nothing retries, so there are no crash
or retry models. The timeouts are arguments of calls to the runtime; a request that
times out is one that ends with a failure.

## The modules

| module | models | what it is for |
|---|---|---|
| `OperationLifecycle` | what `AsyncOperationState` promises: one step per member function | the abstract specification |
| `AsyncPromise` | what an asynchronous operation promises to the code that begins it | the second abstract specification: the three classes implement it, and the programs ask for no more |
| `SharedObject` | what a reference count promises to those who hold the object | the third abstract specification: COM objects, roots and tracked references implement it |
| `AsyncOperationState` | the `compare_mask_swap` loops, load by load and swap by swap | implements `OperationLifecycle` |
| `AsyncOperationStateProofs` | | the theorems about it |
| `AsyncOperation`, `AsyncOperationProofs` | operations with children, threads with stacks of calls; the theorems about them | built on the steps of `OperationLifecycle` |
| `ComAsyncOperationContext` | a COM context around operations of `AsyncOperation` | extends `AsyncOperation` |
| `ComProxyAsyncOperation` | a native operation around that context | extends `ComAsyncOperationContext` |
| `ComOperationProofs` | | the theorems about the two COM layers; extends `AsyncOperationProofs` |
| `ComUnknownBase`, `ComUnknownBaseProofs` | the reference count, and the theorems about it | |
| `ReferenceTracker`, `ReferenceTrackerProofs` | the table of references to a component | |
| `SfAsyncOperation`, `SfAsyncOperationProofs` | the second implementation, in fabric_ext2, and the theorems about it | |
| `ErrorCode` | errors and their conversions | |
| `ComUtility`, `ComUtilityProofs` | the return from a public function, and the lookups | extends `ErrorCode` |
| `FabricExt` | the four callbacks and the programs around them | |
| `ServiceHost` | main of the two services | extends `FabricExt` |
| `EchoApp`, `KvReplica` | an instance of the echo service; a replica of the key-value store | extend `ServiceHost` |
| `KvStore` | the transactions of class `curd`, whose commits are requests of `FabricExt` | extends `FabricExt` |
| `Examples` | the ten programs as one specification | extends `EchoApp`, `KvReplica`, `KvStore` |
| `ExamplesProofs` | | theorems about the clients in all programs, the two services and the store |
| `MC...` | instances for TLC; `MCComObject` and `MCExamples` run components that share no state one at a time | |

Definitions whose name begins with `Mutant` are variants of the definition that
follows them, each with a mistake a change of the code could make. Nothing uses
them; put in place of the original, each makes one of the properties fail. They
show that the properties depend on the code being as it is.

### AsyncOperationState

`operationState_` is the set of the bits of the word. A thread that calls a member
function reads the word (`Load`), compares the masked bits (`Matches`, `Refused`)
and swaps (`Swapped`, or `Retry` if somebody else was first), so that the word can
change between any two of these steps. There is one starter, which begins the
operation and asks `CompletedSynchronously` when `Begin` returns. Completers call
`TryTransitionCompleting`, and the one that wins calls `TransitionCompleted` and
then the callback, which asks too. Cancellers call `TryMarkCancelRequested`, and
pollers ask at any time; a canceller that is done may come back. Whoever must, calls
`TransitionEnded`. The bodies of
starter and callback are those of the test `fabric_common_test.cpp`.

`OperationLifecycle` has the same operations as single steps. `ImplementsLifecycle`
states the refinement: the lifecycle bit, the two flags and `endedBy` map to its
variables.

### AsyncOperation

Each thread has a stack of frames. A frame says where the thread is, in which
member function of which operation, with the locals of that function; one step is
the code from there to the next access to shared data or the next call. So a
callback really runs inside `FinishComplete`, before `Cleanup`, and Cancel of a
child inside Cancel of the parent. The operations form a tree, given by the
constant `Steps`: an operation begins its first child in `OnStart`, and the next
one when the last succeeded, as the `FooA` and `FooB1` operations of the test do. A
leaf completes itself in `OnStart` or leaves the work to the thread `Worker`, as
`FooB2` does. `Host` operations are `AsyncOperationRoot` objects, never started,
only cancelled. `Skip` are those with `skipCompleteOnCancel_`.

State words take one step per operation here; that is what the refinement above is
for. `childLock_` is a real lock, held between the check and the insertion in
`AttachChild`. A parent that refuses a child runs into `assert(false)` in `Start`;
the model records that and goes on, as a build without assertions does: the child
runs on, uncancelled ("do not handle this for now", says the comment). Only a Cancel of the
parent leads there (`RefusedOnlyAfterCancel`). The assertion of the destructor of
`AsyncOperationState` is not modelled, as destruction is not. References
are not counted: an operation that can still be reached through a weak reference is
there. Operation contexts (`PushOperationContext`) are left out: they are a list
that only one thread touches.

### ComAsyncOperationContext and ComProxyAsyncOperation

The context has a state word of its own (`state_`), `callback_`, `child_` and
`result_`. Its frames carry the operation `Proxy`, the `AsyncOperationRoot` it
makes in `Start`; the operation that `OnStart` begins is an operation of
`AsyncOperation` below that root, and its turn to end (`Finish`) is replaced by
`OnFinish`, which completes the context. The client waits for the callback and then
calls `End`, as in the test `basic_com`.

`ComProxyAsyncOperation` puts a native operation, `Native`, in the place of that client,
as in the test `basic_com_proxy`. `OnStart` and the end of `Cancel` of this operation are
its own (`Overrides` names the steps of `AsyncOperation` they replace). Between the moment
the COM operation is begun and the moment `ProxyStore` keeps the context, the COM
operation may complete, and `Native` may be cancelled. If a forced Cancel is then just
completing `Native`, the context is kept although the COM operation was ended, for good
(`EndedIsLetGo`, a finding); `KeptOnlyAfterCancel` says that there is no other way to it.
When Begin of the COM operation fails (`ProxyBeginFails`), `Native` completes with the
failure, and the callback object, destroyed without having been invoked, cancels it
(`ProxyNeverInvoked`). `NativeAssumption` says that `Native` begins nothing but the COM
operation, has no parent, and is the only one that other threads cancel: nobody knows what
is inside the context. `ComEndedOnce` leaves out one assert, that of `AttachChild`, which
an operation inside that begins several others can fail with no COM layer around it.

An error is *success*, *failure* or *OperationCanceled* (E_ABORT at the COM side);
an answer of `End` may also be *not complete*.

### ComUnknownBase

`ComPointer`s and event sources, given by the constant `Pointer`, copy, move and
release one object. The plain decrement of an unshared object is two steps, a read
and a write, with everything else in between. `SharedFirst` says that the object was
shared, by an `AddRef`, before it is made known to event sources. The code needs this
and nothing in the repository says so: the comment at `ComUnknownBase.h:24-41` only
asks for a destructor that stops the events. The run `ComUnknownBaseTryAddRef`,
without `SharedFirst`, shows what goes wrong.

### ReferenceTracker

A `ComponentRoot` with tracking owns a table of weak pointers to the references
that `CreateComponentRoot` made; each reference owns the root. `held` says which
references each thread has, as `RootedObjectPointer`s, and `copies` those it keeps in
`referencesCopy` while it prints. A shared pointer is counted by who has it, so the
last owner of a reference goes on into its destructor: `OnReleaseReference`, which
takes `lock_`, and then the release of `root_`, which may destroy the root. `RwLock`
is a mutex in this port (`stdafx.h`), so a thread that takes it twice waits for ever.
Only a thread with a pointer to the component calls its members. Roots without
tracking hand out the root itself and are left out.

### SfAsyncOperation

The same style as `AsyncOperation`: threads with frames. A critical section is one
step, except where the code reads or writes `child_`, which children write without
the lock, and where `Cancel` calls `Cancel` of the child with the lock held. The
user begins operations one after the other and waits until the last one is over and a
Cancel of it has returned. `HastySpec` has a user who does not wait for the latter and goes
by what `IsCancelled` answers; the run `SfAsyncOperationHasty` shows what becomes of it, and
what the other run and the theorems say is for the one who waits.

### ErrorCode and ComUtility

Each variable of type `ErrorCode` is a record with the members of the class; `told`
remembers the code and the text that the caller last gave it, so that a property can
compare what came in with what goes out. Codes are the 32-bit integers themselves:
`HRESULT_FROM_WIN32`, `HRESULT_FROM_NT` and the two cases of `ToHResult` are arithmetic on
them, the reserved range and the number of internal codes are those of
`ErrorCodeValue.h`. The codes of the Service Fabric header, which is not in the
repository, are constants, of which `CodesAssumption` says only that they lie in the
public part of the range; `EnumCodes` are those that have an enumerator, any others get the
text "enum not found". The assertion of `TryAssignFrom` stops the program, so what it
forbids does not happen (`Forbidden`).

In `ComUtility` a thread that returns a failure clears its error info: it looks up the
module and two functions in turn (`Initialize`; what comes after each is the function
`After`), each in a step of its own, and then calls through the pointer.
`available` says what the process can find. `ReturnError` ends the function whose
errors the thread has; `ReturnHResult` is the same for other threads.

Worth knowing: `Reset` keeps the text of the error it replaces. `FromNtStatus(0)` is
a success whose `IsNtStatus(0)` is false. The comment at `ErrorCode.h:96-98` speaks of
flags that the copy and move constructors (`ErrorCode.cpp:28-36`) do not carry over.

### FabricExt and ServiceHost

A process runs one of ten programs. What tells them apart is a record: the callback
(waitable, asio, awaited on an executor or on the pool of WinRT), how many requests
are in flight or come in turn, what comes before, and what an answer without content
means. `at[r]` is where the client of request `r` is; `invoke[r]` where the thread of
the runtime is, which calls `Invoke` before or after `Begin` returns. `callbackRefs` and
`contextRefs` say who has a reference to the two objects, so that use after release
can be stated. `asserts` tells builds apart where `compose_op` asserts that `Begin` does
not fail. `ServiceHost` is main of the two services: `get_hostname`, registration of the
factory, waiting for a signal.

### EchoApp

The steps of `BeginOpen` and `BeginClose` are separate where threads start and are
joined, and around the constructor of `async_context`, which calls `Invoke` before
`Begin` has stored the context: the runtime may call `End` in between. The two threads
run the handlers of one connection. `Abort` does nothing in the code, so the
destructor of an aborted instance finds threads that were not joined and ends the
process (`host = "terminated"`). `io_context_` is destroyed before `server_`, whose
acceptor belongs to it: that is undefined, and the model goes on or stops.

### KvReplica and KvStore

A replica opens its listener when it becomes primary and closes it when it is closed,
not when it becomes secondary. A second promotion runs into the assertion of
`com_ptr::put`, or, without assertions, loses the open listener; if it then makes no new one,
`close` calls through a null pointer, which is undefined (`CloseOfNull`). The results of the
store and of the listener are choices.

`KvStore` is class `curd` on one key, with two threads. `b` of `contains_key` is any
value when `Contains` fails. The store accepts a write of the sequence number it knows,
and a commit fails when the key has changed since. `put` and `remove` answer S_OK
without a commit.

## The runs

| run | instance | distinct states | shows |
|---|---|---|---|
| `AsyncOperationState` | starter, one completer, canceller, poller | 104,983 | asserts, `EndNotLost`, `AnswerFrozen`, refinement, `CompletionEnds` |
| `AsyncOperation` | `h` hosts `a`, which begins `b` then `c`; `c` in `Skip`; one canceller of any of the four | 216,251 | asserts, Cancel and AttachChild do not miss each other, only a Cancel makes a parent refuse a child, results, lists are cleaned; every started operation ends, a cancelled one completes |
| `AsyncOperationOnStart` | | | violation, see below |
| `ComAsyncOperationContext` | proxy `h`, operation `a`, which begins `b`; two cancellers of the context | 124,740 | one callback, one answer, Cancel reaches the operation inside, cleaning, the client is answered |
| `ComProxyAsyncOperation` | `n` around the context with one leaf `a` inside; one canceller of `n` | 45,049 | the COM operation is ended once, results, only a Cancel leaves the context behind, all layers end |
| `ComProxyAsyncOperationKept` | the same | | violation |
| `ComObject` | three pointers, two event sources; or a thread with two errors; or two other threads, one of them not in a multi-threaded apartment | 1,521,829 | count, no use after delete, no leak, `BaseTryAddRef` is safe; failures survive all conversions, clean returns |
| `ComUnknownBaseTryAddRef` | without `SharedFirst` | | violation |
| `SfAsyncOperation` | root `r` with `a`, which begins `b` then `c`, and then `d`; two cancellers of `r` or `a` | 230,338 | one callback, results, the link to the child, everything is over in the end |
| `SfAsyncOperationOnce` | two operations under a root | | violation |
| `SfAsyncOperationHasty` | the same, with a hasty user | | violation |
| `Examples` | the ten programs, two requests, one echo instance, two promotions, one key; or an owner and two users of a component root, two of the three print, two references | 229,066 | objects in use are alive, everybody is answered, the echo service serves and closes, the listener is closed, what S_OK of the store means; the table lists what is alive, the root outlives its references, whatever is released leaves the table |

Why the bounds are enough. One completer and one canceller already compete with the
starter and a poller for each swap, and the proofs hold for any number of them. A parent
with two children in sequence has an old child on its way out and a new one on its way in,
which is what the child list must survive; a host above gives a Cancel that comes from two
levels up. Only the first `Cancel` of an operation has an effect; the one canceller picks
any of the four operations, and what it cancels by recursion meets the completions of the
user and of the worker. In the context the operation inside has a child of its own, so
that its cancellation is more than one step. One canceller is enough for
`ComProxyAsyncOperation`, where there is one operation to cancel; it is in `Skip`, so that
the run has both the signal and the forced Cancel, and the latter is what a Cancel of any
other operation does. Two event sources and three pointers are needed for two increments
to meet a release; the proofs hold for any finite number. For `ReferenceTracker` two
references make one outlive the other, two threads print, one of them a user whose copy
may be the last owner, and the third shares and releases meanwhile. In `ComUtility` the
errors of a thread are one execution, two threads that race for the lookups the other:
they share nothing else (`Together`). The object of `ComUnknownBase` shares nothing with
either, nor the component root with the programs of the examples, so these are checked in
one run each, in which one behaviour is of one of them: every interleaving within each of
them is there, and none between them is missed. Two errors are enough for every transfer;
the codes are one of each kind for which a conversion has a case of its own, and the
theorems hold for all. In `Examples` two requests are one after the other or two at a
time, and a replica that is promoted twice has been primary, secondary and primary again;
two adders of one key are what a commit must keep apart. All threads stop in the end, so
the other models have a last step that does nothing when every thread has returned, and
TLC's deadlock check is on. It is off in `Examples`, where programs end, or stop with all
references released; `ClientsAnswered` and `EchoCloses` fail when somebody waits for ever,
and `ReleasedIsErased` when a thread waits for itself.

### Fairness

A thread that can run its next step runs it (`WF` of the steps of each thread).
That is what the scheduler of the operating system gives to a thread that is not
blocked. A step that takes a lock is enabled only when the lock is free; with weak
fairness a thread could wait for ever only if the lock changed hands again and
again, and there are finitely many calls (in `ReferenceTracker` each printer prints once and
each reference is added and removed once). Nothing is assumed of the user: nobody
has to cancel. Work that a leaf operation left to another thread may take for ever;
where a property needs it to end, it says `[]<>(handedOver = {})`. In the context,
the client is assumed to call `End` after its callback, which is what the test does.
`ClientIsAnswered` also says that a cancelled context completes without that.
`CompletionEnds` of the compare-exchange loops needs no more than `WF`: each failed
swap is due to the progress of another thread, and every thread makes finitely many
swaps.

In `Examples`, `ExtFairness` says that the runtime completes each operation it has
accepted, which the timeout of a second in every request asks of it, and calls back;
and that the threads of the program go on. A client that has not begun need not: the
properties start from what it has begun. `HostFairness` is that main goes on after
`get_hostname`. `EchoFairness` is for the threads of one instance, and that handlers
return; no peer has to send anything, and the runtime has to close nothing.
`ClientsAnswered` has one exception, stated as `Hangs`: without assertions `compose_main`
waits for ever when a `Begin` fails.

## The proofs

`AsyncOperationStateProofs`, for any sets of completers, cancellers and pollers:
`TypeCorrect`, `AssertsNeverFail`, `EndIsNotLost`, `AnswerIsFrozen` and
`ImplementsOperationLifecycle`. The properties are not inductive as they stand: to see
that a swap cannot undo an observation one has to know what a thread remembers of
the word (its local copy was once the word, and every later word follows from it by
legal moves), what it is going to write (`desired` fits the operation it is in), and
that at most one thread is between winning `TryTransitionCompleting` and
`TransitionCompleted`. The module defines these as named parts of an inductive
invariant, proves that each action keeps them with one lemma per kind of step, and
derives the properties and the refinement from it.

`AsyncOperationProofs`, for any tree of operations, any hosts and any number of
cancellers: `TransitionsNeverFail`, `CancelAlwaysReachesChildren`,
`RefusedAlwaysAfterCancel`, `ResultsAlwaysPropagate`, `ListIsAlwaysCleaned`, and
`OperationsLive`, that the state word of each operation lives as `OperationLifecycle`
says. The threads are stacks of calls of any depth, so the proofs count the frames of a
stack from the bottom, where a frame keeps its number until it returns: a step changes the
innermost frame and perhaps the one above it (`Moves`), and "no two frames are at these
places of an operation" (`Unique`) is kept by comparing two places. The inductive
invariant `OpInv` has a part per question: an operation is begun once (`StartInv`,
`BegunInv`), completed once and ended by the one party that `CompletedSynchronously`
designates (`EndInv`), its children are begun one after the other (`OrderInv`), nobody but
the thread that starts it knows it before it is attached (`YoungInv`), the child lock is
held across the steps of `AttachChild` (`LockInv`), a Cancel that has taken a child from
the list goes on to cancel it (`CancelInv`), an operation is completed when no child is
left or they were cancelled (`CompleteInv`), and what stays in the lists is on its way out
(`ListInv`). `ResultInv` says where the error of a completion comes from, and `RefusedInv`
who refuses a child: a parent that is completed without a Cancel has no child that is
being attached. Nothing in these invariants depends on who begins the first operation, and
frames of other places may lie between those of `AsyncOperation`: the COM layer reuses
them.

`ComOperationProofs`, for any operation inside the context with any tree
below it: `AlwaysCalledBackOnce`, `CancelAlwaysReachesInner`, `ContextResultIsJustified`,
`ContextIsCleaned`. The steps of the context are foreign to `OpInv`: they replace frames of
other places, may call Cancel of the proxy, which is a host, and begin one operation that
was fresh (`ForeignKeeps`, `InnerBegins`). `ContextInv` adds what the two layers know of each
other: who may have the proxy before it is attached (`AttachInv`), that a Cancel which found
no `child_` leaves it to Start (`ReachInv`), that the callback is invoked between Completed and
Cleanup (`InvokeInv`), and what justifies the result (`AnswerInv`). No assumption is
made on the operation inside but those on the tree.

The same module, for a native operation around that context: `ComIsEndedOnce`,
`ProxyResultIsAnswer`, `ContextIsKeptOnlyAfterCancel`. `OpInv` now speaks of the native
operation too, and `ContextInv` holds with `Native` as the client, so that all three
layers have their invariants; `NativeInv` says what the outer layer knows of the others.
Until `OnStart` has returned nobody but it knows the COM operation, so nothing cancels
that (`EnterInv`). Whether the COM operation was observed before it completed decides who
is on the way to its End, `OnStart` or the callback, and there is never a second one
(`EndsInv`). The error of `Native` comes from the answer, from a Begin that failed, or
from a Cancel (`ReportInv`). The hard one is that a Cancel of the native operation is the
only source of E_ABORT: as long as nobody cancelled the context, no operation inside was
asked to cancel, nor claims to have been (`QuietInv`); and the context is cancelled by
`OnCancel` only (`SignalInv`). When the COM operation has been ended, `Native` is
completed by the caller of End, which then cleans up, or a Cancel has overtaken it, and in
that case it does not report the answer (`StoreInv`). A step of the layers inside is seen
by `NativeInv` only through what it does to `state_`, the operation inside and the frames
of the COM places: one set of lemmas (`Outside`) reduces those steps to that, another
(`NativeSeen`) does so for the steps of `Native` itself.

`ContextLives`, `ComOperationLives` and `NativeOperationsLive` carry the refinement of
`OperationLifecycle` over to the layers: `state_` of the context, with either client, and the
words of the operations above and inside it live as one `AsyncOperationState` does, although
`OnFinish` ends an operation in place of `AsyncOperation`, and the native operation has a Cancel
of its own. `endedBy` is the designated party there; that this party, and no
other, calls End of the COM operation is what `EndsInv` says.

`AsyncPromise` says what the code that begins an operation may rely on, whichever class
implements it: it is answered at most once and the answer never changes, the callback is
called at most once and not before the answer is there, End tells that answer, and an
operation that was withdrawn is never answered. Six theorems show that every operation of
every layer implements it. `OperationsKeepPromise` of `AsyncOperationProofs` maps `status`
from the lifecycle, `result` from `error_` once the operation is completed, `calls` to whether
a completed operation is no longer ahead of its callback, and `told` to the error an
ended operation has. The theorem of the same name in `SfAsyncOperationProofs` maps a
cancelled operation to a withdrawn one: a `Complete` that comes after the Cancel changes `ec_`,
but not the promise. In `ComOperationProofs`, `ContextKeepsPromise` and
`ComOperationKeepsPromise` do it for the context, whose `result_`, calls of Invoke and answers of
End are variables of the model; `InnerOperationsKeepPromise` and `NativeOperationsKeepPromise`
do it for the operations below and above it, which is what lets the layers be stacked:
each layer implements what it uses. The steps hold by the invariants above and by following
the frame of the callback on the stack of its thread (`CallbackMoves`, `PutFrames`). Being about
one operation each, these refinements are proved and no run repeats them.

`RequestsKeepPromise` of `ExamplesProofs` looks at the same promise from the other side: a
request of any of the programs to the runtime, with Invoke as its callback, is an operation
as `AsyncPromise` has it. The runtime is external, so this says something about the programs:
each begins its request once and calls End once, and not before the answer is there, whatever
the order of Invoke and the return of Begin. They need no more of an operation than
`ContextKeepsPromise` shows for `ComAsyncOperationContext`.

`SharedObject` says what a reference count promises: while somebody holds an object others may
come to hold it, once the last holder has let go nobody ever holds it again, and it is
deleted once, at that moment or later. `CountKeepsPromise` of `ComUnknownBaseProofs` maps
`holders` to the pointers that are counted, so that a copy is held from the increment in
`BaseAddRef` on and let go at the decrement in `BaseRelease`; that the compare-and-swap of
`BaseTryAddRef` is an `Acquire` needs that the count it has read was not zero and that the
count is exact. In `ReferenceTrackerProofs`, `RootKeepsPromise` does it for the root, held by its
owner and by the references, and `ReferencesKeepPromise` for each reference, held by threads and by
the copies of printers: the weak pointer in the table, which printers lock while others
drop the reference, never brings a released one back. For `ComUnknownBase` the hypothesis
`SharedFirst` is needed: without it the run `ComUnknownBaseTryAddRef` shows a reference to an
object that is being deleted, which `Acquire` does not allow. Being about one object each,
these refinements too are proved and no run repeats them.

`ComUnknownBaseProofs`, for any finite set of pointers, assuming `SharedFirst`:
`CountIsAlwaysExact`, `NeverUsedAfterDelete`, `AssertsNeverFail`, `NeverLeaks`,
`TryAddRefIsAlwaysSafe`, and `UnlockedIsAlwaysAlone`, which says that while a thread
is in the plain decrement nobody else is at the object. The inductive invariant ties
the count to the cardinality of the set of references, with those that are on the
way in or out counted apart; its lemmas are about cardinalities and cite
`FiniteSetTheorems`.

`ComUtilityProofs`, for any errors, threads, codes and texts that satisfy the
assumptions: `FailuresSurvive` and `ReturnsAreClean`. The first rests on
an invariant of single objects (the value is `FromHResult` of what was told, the text is
the one told or gone), on lemmas about the conversions (the NT bit can be taken away and
put back; no two internal codes become one), and on two lemmas that reduce every
operation to one or two objects it leaves fitting. The last needs that the lookups come
in one order and that nothing resets a pointer.

`ReferenceTrackerProofs`, for any number of threads and references:
`TableIsAlwaysExact` and `RootAlwaysOutlivesReferences`. The invariant says that one
thread at most destroys a reference, which by then nobody can get hold of and which
still keeps the root; that a thread adds only what it owns; and that a printer has the
lock, and has copied or will look at whatever is alive in the table.

`ExamplesProofs`, for all the programs: `EveryClientEndsRight`. The invariant says what
the client holds at each place (its callback from Begin on, the context from the return
of Begin on), that the runtime holds both until Invoke has returned, that a client goes
on only after Invoke has signalled, and, for the programs that restart their executor,
that the requests come one after the other. One lemma per action shows that it is kept,
by looking at the one request the action is about.

The same module, for any number of instances and promotions: `EchoInstancesServe` and
`ReplicaClosesItsListener`. For an echo instance the invariant lists what the two threads,
the server and `io_context_` are in each phase of its life; for a replica it counts the
promotions that the open listener and the lost ones come from, and says that the
listener of the first promotion is there as long as it is listened on. For the store:
`StoreAnswersRight`, from an invariant that says why nothing overwrites the value (put
and remove never commit), so that the commit of an add is the first one; it assumes
`NoValueAssumption`, that the absent value is none of the values.

`SfAsyncOperationProofs`, for any tree of operations and any number of cancellers:
`CalledBackExactlyOnce`, `ResultsAlwaysPropagate` and `AlwaysLinkedWhileRunning`. A stack
of calls of any depth is in the way of a proof, so the invariant says what is deep in it:
the frames below the innermost are only those that a call comes back to. A thread that
holds the lock of an operation across its steps is known by the one frame that has it, and
the operation is then still started, which is why a second `Complete` and a `Cancel` find
the door closed. That an operation is completed by one thread does not yet give one
callback: it also must be begun once. The parts `OrderInv` and `UserInv` say why, since a
child is begun only when those before it have had their callback, and the children of the
root only by the user. The theorems rest on `OperationsAssumption`: an operation has one
parent, which lists it once.

The other two need to know why a child that writes `child_` without the lock finds itself in it,
or a link nobody needs. `SfChildInv` says: an operation that is being cancelled
is in exactly one Cancel, which goes on to detach it (`CancelInv`); one that is not cancelled is
completed by one thread, and has no live child when somebody is about to (`DoneInv`), so the
completion of the parent can never meet the detaching of a child; the children of the
root are begun when the one before is completed, or cancelled and detached (`SerialInv`); `child_`
names a child that runs or is being detached (`LinkInv`); and the children before the one
that was begun have succeeded (`ResultInv`). The root is never completed (`EndInv`).

The assumptions are the named `ASSUME`s of the modules, which TLC evaluates in the
runs, and `SharedFirst` where a theorem says so. `TreeAssumption` says what the constructors
of the code give: an operation has one parent, set when it is made and before it is
started, its parent begins it once, a host (a root that the COM layer makes) has no
parent and is not the operation that the user begins.

Every invariant and every action property of a passing run is the statement of a theorem.
Only model-checked is liveness (`CompletionEnds`, `StartedIsEnded`, `CancelledCompletes`,
`ClientIsAnswered`, `AllLayersEnd`, `ReleasedIsErased`, `FinallyOver`, `ClientsAnswered`,
`EchoCloses`): liveness under fairness is out of this prover's reach. So are induction over data
and whatever uses RECURSIVE operators, of which the modules have none. What the violations
show is found by TLC too.

## What the model found

- `AsyncOperationOnStart`: `AsyncOperation::Start` attaches a child to its parent
  before it calls `OnStart`, so a Cancel of the parent can cancel and complete the
  child before `OnStart` runs. The comment there says that `OnStart` is always called
  before the operation is cancelled.
- `ComUnknownBaseTryAddRef`: `BaseTryAddRef` does not mark the object as shared. The
  plain decrement of its only owner can overwrite the increment; the object is then
  deleted while the event source has a reference.
- `SfAsyncOperationOnce`: Cancel of a parent and Cancel of its child by their users
  run into `assert(false)` of `sf::AsyncOperation::Cancel`.
- `ComProxyAsyncOperationKept`: `OnStart` of the proxy stores the context unless the
  operation is completed, and one that a Cancel is just completing does not count as
  that. The callback may have ended the COM operation and cleaned up before, so the
  context is kept for good.
- `SfAsyncOperationHasty`: `IsCancelled` says yes before Cancel has detached the
  operation, and the user who then begins the next one runs into the assert of
  `AttachChild`; without assertions the old child cuts the link of the new one.

Met while modelling, and not contradicted by any comment or test:

- Cancel of a `ComProxyAsyncOperation` before `OnStart` has stored the context does not
  reach the COM operation, which runs to its end (all layers still end, as the run
  shows).
- A child of an `sf::AsyncOperation` that is started after Cancel of its parent has
  looked at `child_` (`AsyncOperation.cpp:70`) is not cancelled.
- `put` and `remove` of class `curd` answer S_OK, and their transaction is thrown away;
  `add` goes by an uninitialized `b` when `Contains` fails, but the store refuses the
  second add of a key (`StoreAnswers` says exactly what holds).
- An echo instance that is aborted ends the process, with every other instance in it.
- A replica that is primary, secondary and primary again fails an assertion, loses an
  open listener, or closes one through a null pointer.
- A child whose parent was cancelled before it could be attached runs into `assert(false)`,
  or runs on uncancelled.
- `ErrorCode::Reset` leaves the text of the old error with the new value.
- `compose_op` without assertions waits for ever when `Begin` fails.
- `get_hostname` answers S_OK with an empty name when there is no node context.

## Not modelled, and the plan

Left out for good: `MoveUPtr` (only `OperationContextCallback` holds one, which nothing
instantiates), `fabric_internal_ext` (handlers that do
nothing, and tables of function pointers), `feparse` (prints one text), scripts, build files
and generated code: they keep no state beyond a call. The texts of errors and
`ErrorCodeValueToString` are tables. Of the kvstore example, the request handler
answers every request alike, nothing calls class `curd` in the service or
`kv_client::send` in the client, and `--local` is marked "not working yet". Roots without
tracking, the COM roots and operation contexts are not modelled either: plain holders
of a reference, and a list that nothing in the repository pushes to. `FirstErrorTracker` is
one interlocked exchange that nothing in the repository uses.

What the properties accept because nothing in the repository says otherwise has a note among
the hazards: the refused child that runs on, the text that `Reset` keeps, a `compose_op` that
waits for ever, an empty hostname, an aborted instance that ends the process, writes of
`put` and `remove` that are thrown away, and the listener lost by a second promotion.

Hazards with no property, because the line is exposed only by a client that the
repository does not have: `get_Callback` copies `callback_` without the lock
(`ComAsyncOperationContext.cpp:47`); `sf::AsyncOperation::Cancel` calls the `OnCancel` of a
child with the lock of the parent held, so an `OnCancel` that calls into the parent waits
for itself (`AsyncOperation.cpp:71`); `completedSynchronously_` there is also TRUE when
another thread completes the operation after `OnStart` has returned (`:32`).

Next, in this order:

1. Steps the refinements say nothing of: what a Cancel or a Cleanup may never change again.
2. `ComponentRoot` without tracking, and the COM roots, if something in the code comes to
   depend on more than the reference they hold.
