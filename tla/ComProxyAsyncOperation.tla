----------------------- MODULE ComProxyAsyncOperation -----------------------
(***************************************************************************)
(* Common::ComProxyAsyncOperation: an AsyncOperation whose work is an      *)
(* asynchronous operation of a COM object, here that of                    *)
(* ComAsyncOperationContext, as in the test basic_com_proxy.  Three layers *)
(* answer each other: the native operation begins the COM operation and    *)
(* ends it when it is called back, the COM operation does the same with    *)
(* the operation inside it, and a Cancel goes the other way, through       *)
(* comAsyncOperationSPtr_ and through child_ of the context.               *)
(***************************************************************************)
EXTENDS ComAsyncOperationContext

CONSTANT Native  \* the ComProxyAsyncOperation

ASSUME NativeAssumption ==
    /\ Native \in Op \ Host /\ IsLeaf(Native) /\ ~HasParent(Native)
    /\ Targets \subseteq {Native}  \* nobody else knows what is inside

VARIABLE comAsyncOperationSPtr_  \* Native refers to the context

proxyVars == <<comVars, comAsyncOperationSPtr_>>

\* What the steps of Native alone leave alone.
native == <<error_, tree, handedOver, refused>>

ProxyInit ==
    /\ InitMembers /\ FirstCall(Frame("Begin", Native)) /\ ComInit
    /\ comAsyncOperationSPtr_ = FALSE
-----------------------------------------------------------------------------
\* CompletedSynchronously of the context.
ComObserve ==
    state_' = [state_ EXCEPT !.observed =
                  @ \/ state_.lifecycle \in {"Started", "Completing"}]
ComCompletedSynchronously ==
    ~state_.observed /\ state_.lifecycle \notin {"Started", "Completing"}

\* OnStart begins the COM operation, after which it looks at the context.
ProxyOnStart(t) ==
    /\ At(t, "OnStart") /\ Top(t).op = Native
    /\ onStarted' = onStarted \cup {Native}
    /\ Call(t, Frame("ProxyBegun", Native), Frame("ComStart", Proxy))
    /\ UNCHANGED <<word, native, fresh, early, asserts, com, comAsyncOperationSPtr_>>

\* The COM operation does not begin, and the failure completes Native.
ProxyBeginFails(t) ==
    /\ At(t, "OnStart") /\ Top(t).op = Native
    /\ onStarted' = onStarted \cup {Native}
    /\ Call(t, Frame("ProxyNeverInvoked", Native),
            [Frame("TryComplete", Native) EXCEPT !.err = "Failure"])
    /\ UNCHANGED <<word, native, fresh, early, asserts, com, comAsyncOperationSPtr_>>

\* The callback, which was never invoked, cancels Native when it is destroyed.
ProxyNeverInvoked(t) ==
    /\ At(t, "ProxyNeverInvoked")
    /\ Call(t, Frame("StartReturns", Native), Frame("Cancel", Native))
    /\ UNCHANGED <<word, native, fresh, onStarted, early, asserts, com,
                   comAsyncOperationSPtr_>>

ProxyBegun(t) ==
    /\ At(t, "ProxyBegun")
    /\ ComObserve
    /\ Call(t, Frame("StartReturns", Native),
            Frame(IF ComCompletedSynchronously THEN "ProxyFinish" ELSE "ProxyStore", Native))
    /\ UNCHANGED <<word, native, fresh, onStarted, early, asserts, callback_, result_,
                   child_, invoked, answer, skipCompleteOnCancel_, comAsyncOperationSPtr_>>

\* A slip: the state of Native is not looked at.
MutantProxyStore(t) ==
    /\ At(t, "ProxyStore")
    /\ comAsyncOperationSPtr_' = TRUE
    /\ Return(t)
    /\ UNCHANGED <<word, native, fresh, onStarted, early, asserts, com>>

\* The context is kept for OnCancel, under lock_, unless Native is over.
ProxyStore(t) ==
    /\ At(t, "ProxyStore")
    /\ comAsyncOperationSPtr_' = (lifecycle[Native] \notin {"Completed", "Ended"})
    /\ Return(t)
    /\ UNCHANGED <<word, native, fresh, onStarted, early, asserts, com>>
-----------------------------------------------------------------------------
\* Slips: the callback ends the COM operation in any case, or never does.
MutantProxyInvokeEnds(t) ==
    /\ At(t, "ComInvoke")
    /\ invoked' = invoked + 1
    /\ asserts' = IF invoked > 0 THEN asserts \cup {"invoked"} ELSE asserts
    /\ ComObserve
    /\ Goto(t, Frame("ProxyFinish", Native))
    /\ UNCHANGED <<word, native, fresh, onStarted, early, callback_, result_, child_,
                   answer, skipCompleteOnCancel_, comAsyncOperationSPtr_>>

MutantProxyInvokeReturns(t) ==
    /\ At(t, "ComInvoke")
    /\ invoked' = invoked + 1
    /\ Return(t)
    /\ UNCHANGED <<word, native, fresh, onStarted, early, asserts, state_, callback_,
                   result_, child_, answer, skipCompleteOnCancel_, comAsyncOperationSPtr_>>

\* Invoke of the callback asserts that it is the only one, and ends the COM
\* operation if that is not left to OnStart.
ProxyInvoke(t) ==
    /\ At(t, "ComInvoke") /\ callback_
    /\ invoked' = invoked + 1
    /\ asserts' = IF invoked > 0 THEN asserts \cup {"invoked"} ELSE asserts
    /\ ComObserve
    /\ IF ComCompletedSynchronously THEN Return(t) ELSE Goto(t, Frame("ProxyFinish", Native))
    /\ UNCHANGED <<word, native, fresh, onStarted, early, callback_, result_, child_,
                   answer, skipCompleteOnCancel_, comAsyncOperationSPtr_>>

\* A slip: Native is completed whatever the COM operation answers.
MutantProxyFinish(t) ==
    /\ At(t, "ProxyFinish")
    /\ \E result \in Error \cup {"NotComplete"} : ComEnded(result) /\ answer' = result
    /\ Call(t, Frame("ProxyCleanup", Native), Frame("TryComplete", Native))
    /\ UNCHANGED <<word, native, fresh, onStarted, early, asserts, callback_, result_,
                   child_, invoked, skipCompleteOnCancel_, comAsyncOperationSPtr_>>

\* End of the COM operation, whose answer completes Native; then Cleanup.
ProxyFinish(t) ==
    /\ At(t, "ProxyFinish")
    /\ \E result \in Error \cup {"NotComplete"} :
          /\ ComEnded(result)
          /\ answer' = result
          /\ Call(t, Frame("ProxyCleanup", Native),
                  [Frame("TryComplete", Native) EXCEPT
                      !.err = IF result = "NotComplete" THEN "Failure" ELSE result])
    /\ UNCHANGED <<word, native, fresh, onStarted, early, asserts, callback_, result_,
                   child_, invoked, skipCompleteOnCancel_, comAsyncOperationSPtr_>>

\* ComProxyAsyncOperation::Cleanup, under lock_.
ProxyCleanup(t) ==
    /\ At(t, "ProxyCleanup")
    /\ comAsyncOperationSPtr_' = FALSE
    /\ Return(t)
    /\ UNCHANGED <<word, native, fresh, onStarted, early, asserts, com>>
-----------------------------------------------------------------------------
\* The end of Cancel.  As a signal it only calls OnCancel; else it calls OnCancel
\* and then completes Native, if nobody has begun to.
ProxyCancelSignals(t) ==
    /\ At(t, "CancelChildren") /\ Top(t).op = Native
    /\ ~Top(t).force /\ Native \in Skip
    /\ Goto(t, Frame("ProxyOnCancel", Native))
    /\ UNCHANGED <<word, native, fresh, onStarted, early, asserts, com,
                   comAsyncOperationSPtr_>>

ProxyCancelCompletes(t) ==
    /\ At(t, "CancelChildren") /\ Top(t).op = Native
    /\ Top(t).force \/ Native \notin Skip
    /\ IF lifecycle[Native] = "Started"
       THEN /\ lifecycle' = [lifecycle EXCEPT ![Native] = "Completing"]
            /\ Call(t, [Frame("FinishComplete", Native) EXCEPT !.err = "OperationCanceled"],
                    Frame("ProxyOnCancel", Native))
       ELSE Return(t) /\ UNCHANGED lifecycle
    /\ UNCHANGED <<observed, cancelRequested, native, fresh, onStarted, early, asserts,
                   com, comAsyncOperationSPtr_>>

\* OnCancel copies comAsyncOperationSPtr_ under lock_.
ProxyOnCancel(t) ==
    /\ At(t, "ProxyOnCancel")
    /\ IF comAsyncOperationSPtr_ THEN Goto(t, Frame("ComCancel", Proxy)) ELSE Return(t)
    /\ UNCHANGED <<word, native, fresh, onStarted, early, asserts, com,
                   comAsyncOperationSPtr_>>
-----------------------------------------------------------------------------
\* Where Native has bodies of its own, and AsyncOperation those of other operations.
Overrides(t) ==
    stack[t] # <<>> /\ Top(t).op = Native /\ Top(t).at \in {"OnStart", "CancelChildren"}

ProxyProceed(t) ==
    \/ ComProceed(t) /\ ~Overrides(t) /\ UNCHANGED comAsyncOperationSPtr_
    \/ ProxyOnStart(t) \/ ProxyBeginFails(t) \/ ProxyNeverInvoked(t)
    \/ ProxyBegun(t) \/ ProxyStore(t)
    \/ ProxyInvoke(t) \/ ProxyFinish(t) \/ ProxyCleanup(t)
    \/ ProxyCancelSignals(t) \/ ProxyCancelCompletes(t) \/ ProxyOnCancel(t)

ProxyNext ==
    \/ \E t \in Thread : ProxyProceed(t)
    \/ \E t \in Thread : (WorkDone(t) \/ CallCancel(t)) /\ UNCHANGED <<com, comAsyncOperationSPtr_>>
    \/ Quiescent /\ UNCHANGED proxyVars

ProxySpec == ProxyInit /\ [][ProxyNext]_proxyVars

\* Threads keep running; the work of the operation inside may take for ever.
ProxyFairSpec == ProxySpec /\ \A t \in Thread : WF_proxyVars(ProxyProceed(t))
-----------------------------------------------------------------------------
(***************************************************************************)
(* OnStart and the callback agree who ends the COM operation: End is       *)
(* called when it is complete and never again, and once nobody is on the   *)
(* way to call it, a completed COM operation has been ended.  Nothing is   *)
(* started or completed twice in any of the three layers, wherever the     *)
(* cancellation comes in.  No assert fails but that of AttachChild, which  *)
(* an operation inside can fail by itself if it begins several others.     *)
(***************************************************************************)
ComEndedOnce ==
    /\ asserts \subseteq {"attach"}
    /\ answer # "NotComplete"
    /\ state_.lifecycle = "Completed" =>
          \/ Someone({"ComInvoke"}, Proxy)
          \/ Someone({"ProxyBegun", "ProxyFinish"}, Native)

(***************************************************************************)
(* Native reports what the COM operation answered, or its failure to       *)
(* begin; only a Cancel of Native overtakes it.                            *)
(***************************************************************************)
ProxyResult ==
    lifecycle[Native] \in {"Completed", "Ended"} =>
        \/ error_[Native] = answer
        \/ error_[Native] = "Failure" /\ state_.lifecycle = "Created"
        \/ error_[Native] = "OperationCanceled" /\ cancelRequested[Native]

\* The COM operation was ended and Native is over, and nobody is on the way to store
\* the context or to let go of it.
BothOver ==
    /\ answer # "none" /\ lifecycle[Native] \in {"Completed", "Ended"}
    /\ ~Someone({"ProxyStore", "ProxyCleanup"}, Native)

(***************************************************************************)
(* FinishComAsyncOperation lets go of the context once it has ended the    *)
(* COM operation, and OnStart must not put it back: that is what the guard *)
(* "if (!this->InternalIsCompleted)" at ComProxyAsyncOperation.cpp:80 is   *)
(* there for.  It does not hold: an operation that is being completed by a *)
(* Cancel does not count as completed yet.                                 *)
(***************************************************************************)
EndedIsLetGo == BothOver => ~comAsyncOperationSPtr_

(***************************************************************************)
(* A Cancel of Native is the only way to that: the context of a COM        *)
(* operation that was ended is kept only by an operation that reports its  *)
(* own cancellation in the place of what End has answered.                 *)
(***************************************************************************)
KeptOnlyAfterCancel ==
    BothOver /\ comAsyncOperationSPtr_ =>
        /\ error_[Native] = "OperationCanceled" /\ cancelRequested[Native]
        /\ answer # "OperationCanceled"

(***************************************************************************)
(* If the work of the operation inside comes to an end, all three layers   *)
(* are ended, whatever is cancelled when: also a COM operation whose       *)
(* result comes after Native was cancelled.                                *)
(***************************************************************************)
AllLayersEnd ==
    []<>(handedOver = {}) =>
        /\ lifecycle[Native] = "Started" ~> lifecycle[Native] = "Ended"
        /\ state_.lifecycle = "Started" ~> state_.lifecycle = "Ended"
        /\ lifecycle[Inner] = "Started" ~> lifecycle[Inner] = "Ended"
=============================================================================
