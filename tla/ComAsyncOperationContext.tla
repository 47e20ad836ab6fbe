---------------------- MODULE ComAsyncOperationContext ----------------------
(***************************************************************************)
(* Common::ComAsyncOperationContext: an asynchronous operation as COM      *)
(* clients see it, around operations of AsyncOperation.  Start creates an  *)
(* AsyncOperationRoot, the proxy, as the parent of the operation it        *)
(* begins; Cancel reaches that operation through the proxy, if the context *)
(* has it in child_ by then.                                               *)
(*                                                                         *)
(* The frames of the context have the proxy as their operation.  The       *)
(* bodies of OnStart and OnFinish are those of ComFooAsyncOperation in     *)
(* tests/fabric_common_tests/fabric_common_test.cpp, and the client waits  *)
(* for its callback, as in the test basic_com.  Of the conversions between *)
(* ErrorCode and HRESULT only the difference of success, failure and       *)
(* E_ABORT, the value of OperationCanceled, matters here.  The reference   *)
(* child_ is weak, but the operation inside keeps the proxy as its parent, *)
(* so it expires only when that operation is over and Cancel of the proxy  *)
(* would do nothing: the model lets it stay until Cleanup.                 *)
(***************************************************************************)
EXTENDS AsyncOperation, FiniteSets

CONSTANT Proxy  \* the AsyncOperationRoot of the context

ASSUME ProxyAssumption == Proxy \in Host /\ Len(Steps[Proxy]) = 1

VARIABLES
    skipCompleteOnCancel_,
    state_,     \* the AsyncOperationState of the context
    callback_,  \* the context refers to the callback of the client
    result_,
    child_,     \* the context refers, weakly, to the proxy
    invoked,    \* how often the callback was invoked
    answer      \* what End answered to the client

com == <<skipCompleteOnCancel_, state_, callback_, result_, child_, invoked, answer>>
comVars == <<vars, com>>

\* What the steps of the context leave alone.
others == <<word, error_, tree, handedOver, history, skipCompleteOnCancel_>>

ComInit ==
    /\ skipCompleteOnCancel_ \in BOOLEAN
    /\ state_ = [lifecycle |-> "Created", observed |-> FALSE, cancelRequested |-> FALSE]
    /\ callback_ = TRUE
    /\ result_ = "Success"
    /\ child_ = FALSE
    /\ invoked = 0
    /\ answer = "none"

ContextInit == InitMembers /\ FirstCall(Frame("ComStart", Proxy)) /\ ComInit
-----------------------------------------------------------------------------
\* A transition of state_, with its assert.
ComTransition(from, to, name) ==
    /\ state_' = IF state_.lifecycle = from THEN [state_ EXCEPT !.lifecycle = to] ELSE state_
    /\ asserts' = IF state_.lifecycle = from THEN asserts ELSE asserts \cup {name}

ComCompletingOrCompleted == state_.lifecycle \in {"Completing", "Completed", "Ended"}

\* TransitionStarted; then OnStart begins the operation under the new proxy.
ComStart(t) ==
    /\ At(t, "ComStart")
    /\ ComTransition("Created", "Started", "ComTransitionStarted")
    /\ Call(t, Frame("ComAttach", Proxy), Frame("Begin", Head(Steps[Proxy])))
    /\ UNCHANGED <<others, fresh, callback_, result_, child_, invoked, answer>>

\* A slip: the state is not looked at.
MutantComAttach(t) ==
    /\ At(t, "ComAttach")
    /\ child_' = TRUE
    /\ Return(t)
    /\ UNCHANGED <<others, fresh, asserts, state_, callback_, result_, invoked, answer>>

\* The end of Start: keep the proxy for Cancel, or cancel it when that is late.
ComAttach(t) ==
    /\ At(t, "ComAttach")
    /\ LET late == ComCompletingOrCompleted \/ state_.cancelRequested IN
       /\ child_' = ~late
       /\ IF late THEN Goto(t, [Frame("Cancel", Proxy) EXCEPT !.force = TRUE]) ELSE Return(t)
    /\ UNCHANGED <<others, fresh, asserts, state_, callback_, result_, invoked, answer>>

\* A slip: the context is completed without the error of the operation.
MutantOnFinish(t) ==
    /\ At(t, "Finish") /\ IsChild(Top(t).op, Proxy)
    /\ Transition(Top(t).op, "Completed", "Ended", "TransitionEnded")
    /\ Goto(t, Frame("ComTryComplete", Proxy))
    /\ UNCHANGED <<error_, tree, handedOver, fresh, history, com>>

\* OnFinish, called when it is the turn of the caller: End, and complete the
\* context with the result.
OnFinish(t) ==
    /\ At(t, "Finish") /\ IsChild(Top(t).op, Proxy)
    /\ LET op == Top(t).op IN
       /\ Transition(op, "Completed", "Ended", "TransitionEnded")
       /\ Goto(t, [Frame("ComTryComplete", Proxy) EXCEPT !.err = error_[op]])
    /\ UNCHANGED <<error_, tree, handedOver, fresh, history, com>>
-----------------------------------------------------------------------------
ComTryComplete(t) ==
    /\ At(t, "ComTryComplete")
    /\ IF state_.lifecycle = "Started"
       THEN /\ state_' = [state_ EXCEPT !.lifecycle = "Completing"]
            /\ Goto(t, [Top(t) EXCEPT !.at = "ComFinishComplete"])
       ELSE Return(t) /\ UNCHANGED state_
    /\ UNCHANGED <<others, fresh, asserts, callback_, result_, child_, invoked, answer>>

\* A slip: Cleanup comes before the callback.
MutantComFinishComplete(t) ==
    /\ At(t, "ComFinishComplete")
    /\ result_' = Top(t).err
    /\ ComTransition("Completing", "Completed", "ComTransitionCompleted")
    /\ Call(t, Frame("ComInvoke", Proxy), Frame("ComCleanup", Proxy))
    /\ UNCHANGED <<others, fresh, callback_, child_, invoked, answer>>

\* The result is stored, and the callback invoked in state Completed.
ComFinishComplete(t) ==
    /\ At(t, "ComFinishComplete")
    /\ result_' = Top(t).err
    /\ ComTransition("Completing", "Completed", "ComTransitionCompleted")
    /\ Call(t, Frame("ComCleanup", Proxy), Frame("ComInvoke", Proxy))
    /\ UNCHANGED <<others, fresh, callback_, child_, invoked, answer>>

\* The callback of the client does nothing but note that it was invoked.
ComInvoke(t) ==
    /\ At(t, "ComInvoke")
    /\ invoked' = IF callback_ THEN invoked + 1 ELSE invoked
    /\ Return(t)
    /\ UNCHANGED <<others, fresh, asserts, state_, callback_, result_, child_, answer>>

ComCleanup(t) ==
    /\ At(t, "ComCleanup")
    /\ callback_' = FALSE
    /\ Goto(t, Frame("ComCleanupChild", Proxy))
    /\ UNCHANGED <<others, fresh, asserts, state_, result_, child_, invoked, answer>>

ComCleanupChild(t) ==
    /\ At(t, "ComCleanupChild")
    /\ child_' = FALSE
    /\ Return(t)
    /\ UNCHANGED <<others, fresh, asserts, state_, callback_, result_, invoked, answer>>
-----------------------------------------------------------------------------
\* OnStart may make the context known to others, who cancel it.
ComCallCancel(t) ==
    /\ t \in fresh /\ state_.lifecycle # "Created"
    /\ stack' = [stack EXCEPT ![t] = <<Frame("ComCancel", Proxy)>>]
    /\ fresh' = fresh \ {t}
    /\ UNCHANGED <<others, asserts, com>>

ComCancel(t) ==
    /\ At(t, "ComCancel")
    /\ IF state_.cancelRequested
       THEN Return(t) /\ UNCHANGED state_
       ELSE /\ state_' = [state_ EXCEPT !.cancelRequested = TRUE]
            /\ Goto(t, Frame("ComCancelChild", Proxy))
    /\ UNCHANGED <<others, fresh, asserts, callback_, result_, child_, invoked, answer>>

\* A slip: the child is left alone.
MutantComCancelChild(t) ==
    /\ At(t, "ComCancelChild")
    /\ Goto(t, Frame("ComCancelSelf", Proxy))
    /\ UNCHANGED <<others, fresh, asserts, com>>

\* Cancel takes child_ under the lock, and cancels the proxy without it.
ComCancelChild(t) ==
    /\ At(t, "ComCancelChild")
    /\ LET self == Frame("ComCancelSelf", Proxy) IN
       IF child_ THEN Call(t, self, Frame("Cancel", Proxy)) ELSE Goto(t, self)
    /\ UNCHANGED <<others, fresh, asserts, com>>

\* A slip: Cancel is always only a signal.
MutantComCancelSelf(t) ==
    /\ At(t, "ComCancelSelf")
    /\ Return(t)
    /\ UNCHANGED <<others, fresh, asserts, com>>

ComCancelSelf(t) ==
    /\ At(t, "ComCancelSelf")
    /\ IF skipCompleteOnCancel_ THEN Return(t)
       ELSE Goto(t, [Frame("ComTryComplete", Proxy) EXCEPT !.err = "OperationCanceled"])
    /\ UNCHANGED <<others, fresh, asserts, com>>
-----------------------------------------------------------------------------
\* The answer of the context's End, and what it does to state_.
ComEnded(result) ==
    IF state_.lifecycle = "Completed"
    THEN state_' = [state_ EXCEPT !.lifecycle = "Ended"] /\ result = result_
    ELSE UNCHANGED state_ /\ result = "NotComplete"

\* The client calls End after it was called back and Start has returned.
ClientEnds ==
    /\ stack[User] = <<>> /\ invoked > 0 /\ answer = "none"
    /\ \E result \in Error \cup {"NotComplete"} : ComEnded(result) /\ answer' = result
    /\ UNCHANGED <<vars, callback_, result_, child_, invoked, skipCompleteOnCancel_>>

ComProceed(t) ==
    \/ Proceed(t) /\ ~(At(t, "Finish") /\ IsChild(Top(t).op, Proxy)) /\ UNCHANGED com
    \/ ComStart(t) \/ ComAttach(t) \/ OnFinish(t)
    \/ ComTryComplete(t) \/ ComFinishComplete(t) \/ ComCleanup(t) \/ ComCleanupChild(t)
    \/ ComCancel(t) \/ ComCancelChild(t) \/ ComCancelSelf(t)

ContextNext ==
    \/ \E t \in Thread : ComProceed(t) \/ ComInvoke(t) \/ ComCallCancel(t)
    \/ \E t \in Thread : WorkDone(t) /\ UNCHANGED com
    \/ ClientEnds
    \/ Quiescent /\ UNCHANGED comVars

ContextSpec == ContextInit /\ [][ContextNext]_comVars

\* Threads keep running, and the client goes on when it is called back.
ContextFairSpec ==
    /\ ContextSpec /\ WF_comVars(ClientEnds)
    /\ \A t \in Thread : WF_comVars(ComProceed(t) \/ ComInvoke(t))
-----------------------------------------------------------------------------
\* The operation that OnStart begins.
Inner == Head(Steps[Proxy])

(***************************************************************************)
(* The context and the operation inside it are started, completed and      *)
(* ended once (no assert of a transition fails), whichever is cancelled or *)
(* completed first.  The client is called back exactly once, and what End  *)
(* answers to it is the result of the completion that won.  The assert of  *)
(* AttachChild is that of AsyncOperation: an operation inside that begins  *)
(* several others can fail it by itself, the context adds nothing to that. *)
(***************************************************************************)
CalledBackOnce ==
    /\ asserts \subseteq {"attach"}
    /\ state_.lifecycle \in {"Completed", "Ended"} =>
          invoked + Cardinality({t \in Thread : At(t, "ComInvoke")}) = 1
    /\ answer # "none" => answer = result_

(***************************************************************************)
(* The comment in Start: "either we see that this is canceled, or Cancel   *)
(* sees the child attached".  When Start has returned and Cancel has dealt *)
(* with child_, the operation inside was asked to cancel or is over.       *)
(***************************************************************************)
CancelReachesInner ==
    /\ state_.cancelRequested
    /\ ~Someone({"ComStart", "ComAttach", "ComCancelChild", "Cancel", "CancelCollect",
                 "CancelChildren"}, Proxy)
    => cancelRequested[Inner] \/ CompletingOrCompleted(Inner)

(***************************************************************************)
(* The context succeeds only if the operation inside was ended with        *)
(* success, and reports E_ABORT only if one of the two was cancelled.      *)
(***************************************************************************)
ContextResult ==
    state_.lifecycle \in {"Completed", "Ended"} =>
        /\ result_ = "Success" => lifecycle[Inner] = "Ended" /\ error_[Inner] = "Success"
        /\ result_ = "OperationCanceled" =>
              state_.cancelRequested \/ error_[Inner] = "OperationCanceled"

(***************************************************************************)
(* A context that is over refers neither to the callback of the client nor *)
(* to the proxy: Start does not put child_ back after Cleanup.             *)
(***************************************************************************)
ContextCleaned ==
    /\ state_.lifecycle \in {"Completed", "Ended"}
    /\ ~Someone({"ComInvoke", "ComCleanup", "ComCleanupChild"}, Proxy)
    => ~callback_ /\ ~child_

(***************************************************************************)
(* If work in other threads always comes to an end, the client gets its    *)
(* answer and the operation inside is ended too, also when its result is   *)
(* not wanted any more.  Cancel completes the context even if the work     *)
(* never comes to an end, unless Cancel is only a signal for it.           *)
(***************************************************************************)
ClientIsAnswered ==
    /\ []<>(handedOver = {}) => <>(answer # "none") /\ <>(lifecycle[Inner] = "Ended")
    /\ state_.cancelRequested /\ ~skipCompleteOnCancel_ ~>
          state_.lifecycle \in {"Completed", "Ended"}
=============================================================================
